----------------------------- MODULE ByteBuffer -----------------------------
(***************************************************************************)
(* include/ByteBuffer.hpp.  A byte is known by the value it belongs to, the *)
(* width that value was written with and its place in it, so that a value  *)
(* comes back only when it is read where and as wide as it was written.    *)
(* Offsets are those of the code, from 0.                                   *)
(***************************************************************************)
EXTENDS Integers, Sequences

CONSTANTS
  Garbage,     \* what a read at a wrong place or width gives
  Empty,       \* the string, or binary value, of no bytes
  Value, Size  \* values, and the number of bytes of each as a string

ASSUME SizeAssumption ==
  Size \in [Value -> Nat] /\ \A v \in Value : Size[v] = 0 => v = Empty

\* As in SequencesExt, whose many other definitions the proofs would carry along.
FlattenSeq(seqs) ==
  LET joined[i \in 1 .. Len(seqs)] == IF i = 1 THEN seqs[i] ELSE joined[i - 1] \o seqs[i]
  IN  IF Len(seqs) = 0 THEN seqs ELSE joined[Len(seqs)]

\* The bytes of v, written with the given width.
Bytes(v, width) == [k \in 1 .. width |-> <<v, width, k>>]

\* getInt8 .. getInt64, getDouble, and getByReference at an index.
Get(mem, index, width) ==
  IF width = 0 THEN Empty
  ELSE LET bytes == SubSeq(mem, index + 1, index + width)
           v == Head(bytes)[1]
       IN  IF bytes = Bytes(v, width) THEN v ELSE Garbage

\* putInt16(index, ...), which moves no position.
PutAt(mem, index, bytes) ==
  [i \in 1 .. Len(mem) |->
     IF i \in index + 1 .. index + Len(bytes) THEN bytes[i - index] ELSE mem[i]]

-----------------------------------------------------------------------------
(* A buffer that is written: its bytes up to the position, and a capacity   *)
(* that is also its limit.                                                  *)

NewBuffer(capacity) == [mem |-> <<>>, capacity |-> capacity]

\* clear(): what was written is not read again.
Clear(b) == [b EXCEPT !.mem = <<>>]

\* checkGetPutIndex of a put.
Fits(b, bytes) == Len(b.mem) + Len(bytes) <= b.capacity

\* A put, where it fits.
Put(b, bytes) == [b EXCEPT !.mem = @ \o bytes]

\* The capacity is doubled until it suffices.
EnsureCapacity(b, capacity) ==
  LET doubled[n \in 0 .. capacity] == IF n = 0 THEN b.capacity ELSE 2 * doubled[n - 1]
      Enough(n) == doubled[n] >= capacity
      times == CHOOSE n \in 0 .. capacity : Enough(n) /\ (n = 0 \/ ~Enough(n - 1))
  IN  [b EXCEPT !.capacity = doubled[times]]

EnsureRemaining(b, amount) ==
  IF b.capacity - Len(b.mem) < amount THEN EnsureCapacity(b, Len(b.mem) + amount) ELSE b

-----------------------------------------------------------------------------
(* A buffer that is read: a window on the bytes of a message.               *)

Window(base, length) == [base |-> base, position |-> 0, limit |-> length,
                         capacity |-> length]

\* checkIndex.
InBounds(b, index, width) == index >= 0 /\ width >= 0 /\ width <= b.limit - index

GetAt(mem, b, index, width) ==
  IF InBounds(b, index, width) THEN Get(mem, b.base + index, width) ELSE Garbage

\* getString and getBytes: length and bytes; the length -1 is null.
StringWidth(length) == IF length = -1 THEN 4 ELSE 4 + length

\* slice(): the rest up to the limit; the sliced buffer moves past it.
Slice(b) == Window(b.base + b.position, b.limit - b.position)
Sliced(b) == [b EXCEPT !.position = b.limit]
=============================================================================
