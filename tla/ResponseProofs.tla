--------------------------- MODULE ResponseProofs ---------------------------
(***************************************************************************)
(* The client reads every response as the server sent it, for all          *)
(* messages, tables, rows and sizes. The proof follows the bytes: what a   *)
(* window of a buffer shows, how rows, columns and tables are laid out,    *)
(* what is read of a table, of a response and of a row; then ResponseInv,  *)
(* which relates the response, its iterators and the current row to the    *)
(* message, is shown to be preserved by every step.                        *)
(***************************************************************************)
EXTENDS Response, ProcedureProofs

-----------------------------------------------------------------------------
(* Windows on a message.                                                    *)

\* The bytes a window shows.
View(mem, w) == SubSeq(mem, w.base + 1, w.base + w.limit)

IsView(mem, w) ==
  /\ IsSeq(mem) /\ w.base \in Nat /\ w.limit \in Nat /\ w.base + w.limit <= Len(mem)

\* What a window shows is as long as its limit.
LEMMA ViewIs ==
  ASSUME NEW mem, NEW w, IsView(mem, w)
  PROVE  /\ IsSeq(View(mem, w)) /\ Len(View(mem, w)) = w.limit
         /\ \A i \in 1 .. w.limit : View(mem, w)[i] = mem[w.base + i]
<1> DEFINE a == w.base
           n == w.limit
           s == SubSeq(mem, a + 1, a + n)
<1>0. a \in Nat /\ n \in Nat /\ a + n <= Len(mem) /\ IsSeq(mem)
  BY Zenon DEF IsView
<1> HIDE DEF a, n
<1>1. PICK S : mem \in Seq(S)
  BY <1>0, Zenon DEF IsSeq
<1>2. CASE n = 0
  <2>1. s = <<>>
    BY <1>0, <1>1, <1>2
  <2>2. View(mem, w) = <<>> /\ w.limit = 0
    BY <1>2, <2>1, Zenon DEF View, a, n
  <2> QED BY <2>2, EmptyIs
<1>3. CASE n # 0
  <2>1. \A i \in a + 1 .. a + n : mem[i] \in S
    BY <1>0, <1>1
  <2>2. s \in Seq(S) /\ Len(s) = n /\ \A i \in 1 .. n : s[i] = mem[(a + 1) + i - 1]
    BY <1>0, <1>3, <2>1
  <2>3. ASSUME NEW i \in 1 .. n PROVE s[i] = mem[a + i]
    <3>1. (a + 1) + i - 1 = a + i
      BY <1>0
    <3> HIDE DEF s
    <3> QED BY <2>2, <3>1, Zenon
  <2> HIDE DEF s
  <2>4. IsSeq(s)
    BY <2>2, Zenon DEF IsSeq
  <2> QED BY <2>2, <2>3, <2>4, Zenon DEF View, s, a, n
<1> QED BY <1>2, <1>3, Zenon

\* What a window shows is in the message.
LEMMA ViewHolds ==
  ASSUME NEW mem, NEW w, NEW at, NEW bytes, IsView(mem, w), IsSeq(bytes),
         Holds(View(mem, w), at, bytes)
  PROVE  /\ at \in Nat /\ at + Len(bytes) <= w.limit /\ Holds(mem, w.base + at, bytes)
<1> DEFINE V == View(mem, w)
<1>1. Len(V) = w.limit /\ \A i \in 1 .. w.limit : V[i] = mem[w.base + i]
  BY ViewIs, Zenon
<1>2. /\ w.base \in Nat /\ w.limit \in Nat /\ w.base + w.limit <= Len(mem)
      /\ Len(bytes) \in Nat /\ Len(mem) \in Nat
  BY SeqLen, Zenon DEF IsView
<1>3. /\ at \in Nat /\ at + Len(bytes) <= w.limit
      /\ \A i \in 1 .. Len(bytes) : V[at + i] = bytes[i]
  BY <1>1, Zenon DEF Holds
<1> HIDE DEF V
<1>4. ASSUME NEW i \in 1 .. Len(bytes) PROVE mem[(w.base + at) + i] = bytes[i]
  <2>1. at + i \in 1 .. w.limit /\ w.base + (at + i) = (w.base + at) + i
    BY <1>2, <1>3
  <2>2. V[at + i] = mem[w.base + (at + i)]
    BY <1>1, <2>1, Zenon
  <2> QED BY <1>3, <2>1, <2>2, Zenon
<1>5. w.base + at \in Nat /\ (w.base + at) + Len(bytes) <= Len(mem)
  BY <1>2, <1>3
<1> QED BY <1>3, <1>4, <1>5, Zenon DEF Holds

\* A value is read through a window as it was written.
LEMMA GetAtHeld ==
  ASSUME NEW mem, NEW w, NEW at, NEW v, NEW width \in Nat, width # 0 \/ v = Empty,
         IsView(mem, w), Holds(View(mem, w), at, Bytes(v, width))
  PROVE  GetAt(mem, w, at, width) = v
<1>1. IsSeq(Bytes(v, width)) /\ Len(Bytes(v, width)) = width
  BY BytesIs, Zenon
<1>2. at \in Nat /\ at + width <= w.limit /\ Holds(mem, w.base + at, Bytes(v, width))
  BY <1>1, ViewHolds, Zenon
<1>3. Get(mem, w.base + at, width) = v
  BY <1>2, GetHeld, Zenon DEF IsView
<1>4. InBounds(w, at, width)
  BY <1>2 DEF InBounds, IsView
<1> QED BY <1>3, <1>4, Zenon DEF GetAt

\* A narrower window shows the part it is laid on.
LEMMA SliceShows ==
  ASSUME NEW mem, NEW w, NEW at, NEW bytes, NEW v, IsView(mem, w), IsSeq(bytes),
         Holds(View(mem, w), at, bytes), v.base = w.base + at, v.limit = Len(bytes)
  PROVE  IsView(mem, v) /\ View(mem, v) = bytes
<1>1. at \in Nat /\ at + Len(bytes) <= w.limit /\ Holds(mem, w.base + at, bytes)
  BY ViewHolds, Zenon
<1>2. /\ w.base \in Nat /\ w.limit \in Nat /\ w.base + w.limit <= Len(mem) /\ IsSeq(mem)
      /\ Len(bytes) \in Nat /\ Len(mem) \in Nat
  BY SeqLen, Zenon DEF IsView
<1>3. IsView(mem, v)
  BY <1>1, <1>2 DEF IsView
<1>4. /\ IsSeq(View(mem, v)) /\ Len(View(mem, v)) = Len(bytes)
      /\ \A i \in 1 .. Len(bytes) : View(mem, v)[i] = mem[v.base + i]
  BY <1>3, ViewIs
<1>5. ASSUME NEW i \in 1 .. Len(bytes) PROVE View(mem, v)[i] = bytes[i]
  BY <1>1, <1>4, Zenon DEF Holds
<1> QED BY <1>3, <1>4, <1>5, SeqSame, Zenon

-----------------------------------------------------------------------------
(* Strings.                                                                 *)

\* A string is its length and its bytes; a null string is the length -1.
LEMMA StringIs ==
  ASSUME NEW v \in Value \cup {NullValue}
  PROVE  /\ IsSeq(String(v)) /\ Len(String(v)) \in Nat
         /\ v = NullValue => String(v) = Bytes(-1, 4) /\ Len(String(v)) = 4
         /\ v # NullValue => /\ Size[v] \in Nat /\ (Size[v] = 0 => v = Empty)
                             /\ String(v) = Bytes(Size[v], 4) \o Bytes(v, Size[v])
                             /\ Len(String(v)) = 4 + Size[v]
<1>1. CASE v = NullValue
  <2>1. String(v) = Bytes(-1, 4)
    BY <1>1, Zenon DEF String
  <2>2. IsSeq(Bytes(-1, 4)) /\ Len(Bytes(-1, 4)) = 4
    BY BytesIs, Zenon
  <2> QED BY <1>1, <2>1, <2>2
<1>2. CASE v # NullValue
  <2> DEFINE n == Size[v]
             a == Bytes(n, 4)
             b == Bytes(v, n)
  <2>1. n \in Nat /\ (n = 0 => v = Empty)
    BY <1>2, SizeAssumption, Zenon
  <2>2. String(v) = a \o b
    BY <1>2, Zenon DEF String
  <2>3. IsSeq(a) /\ Len(a) = 4 /\ IsSeq(b) /\ Len(b) = n
    BY <2>1, BytesIs, Zenon
  <2> HIDE DEF n, a, b
  <2>4. IsSeq(a \o b) /\ Len(a \o b) = Len(a) + Len(b)
    BY <2>3, ConcatIs, Zenon
  <2>5. Len(String(v)) = 4 + n /\ Len(String(v)) \in Nat
    BY <2>1, <2>2, <2>3, <2>4
  <2> QED BY <1>2, <2>1, <2>2, <2>4, <2>5, Zenon DEF n, a, b
<1> QED BY <1>1, <1>2, Zenon

\* getString reads a string, null or not, and moves past it.
LEMMA GetStringHeld ==
  ASSUME NEW mem, NEW w, NEW at, NEW v \in Value \cup {NullValue}, IsView(mem, w),
         Holds(View(mem, w), at, String(v))
  PROVE  /\ GetString(mem, w, at) = v
         /\ AfterString(mem, w, at) = at + Len(String(v))
<1> DEFINE V == View(mem, w)
<1>0. at \in Nat /\ IsSeq(V)
  BY ViewIs, Zenon DEF Holds
<1>1. CASE v = NullValue
  <2>1. GetAt(mem, w, at, 4) = -1
    BY <1>1, StringIs, GetAtHeld
  <2> QED BY <1>1, <2>1, StringIs, Zenon DEF GetString, AfterString, StringWidth
<1>2. CASE v # NullValue
  <2> DEFINE n == Size[v]
             a == Bytes(n, 4)
             b == Bytes(v, n)
  <2>1. n \in Nat /\ (n = 0 => v = Empty) /\ String(v) = a \o b /\ Len(String(v)) = 4 + n
    BY <1>2, StringIs, Zenon
  <2>2. IsSeq(a) /\ Len(a) = 4 /\ IsSeq(b)
    BY <2>1, BytesIs, Zenon
  <2> HIDE DEF n, a, b
  <2>3. Holds(V, at, a) /\ Holds(V, at + 4, b)
    <3>1. Holds(V, at, a) /\ Holds(V, at + Len(a), b)
      BY <1>0, <2>1, <2>2, HoldsBoth, Zenon
    <3> QED BY <2>2, <3>1, Zenon
  <2>4. GetAt(mem, w, at, 4) = n
    BY <2>3, GetAtHeld DEF a
  <2>5. GetAt(mem, w, at + 4, n) = v
    BY <2>1, <2>3, GetAtHeld, Zenon DEF b
  <2>6. n # -1 /\ at + (4 + n) = at + Len(String(v))
    BY <2>1
  <2> QED BY <2>4, <2>5, <2>6, Zenon DEF GetString, AfterString, StringWidth
<1> QED BY <1>1, <1>2, Zenon

-----------------------------------------------------------------------------
(* The parts of a row and of a table.                                       *)

Fields(columns, values) == [i \in 1 .. Len(columns) |-> Field(columns[i].type, values[i])]
RowPieces(t) == [i \in 1 .. Len(t.rows) |-> Prefixed(RowBytes(t.columns, t.rows[i]))]
Rows(t) == FlattenSeq(RowPieces(t))
TypePieces(columns) == [i \in 1 .. Len(columns) |-> Bytes(columns[i].type, 1)]
NamePieces(columns) == [i \in 1 .. Len(columns) |-> String(columns[i].name)]
HeadBytes(columns) == Bytes(0, 1) \o Bytes(Len(columns), 2) \o FlattenSeq(TypePieces(columns))
                      \o FlattenSeq(NamePieces(columns))

\* A function on 1 .. n into sequences is a list of parts.
LEMMA PartsAre ==
  ASSUME NEW n \in Nat, NEW q, q = [i \in 1 .. n |-> q[i]], \A i \in 1 .. n : IsSeq(q[i])
  PROVE  AllSeqs(q) /\ Len(q) = n
<1>1. IsSeq(q) /\ Len(q) = n
  BY FunctionIs, Zenon
<1> QED BY <1>1, Zenon DEF AllSeqs

\* Bytes behind their length.
LEMMA PrefixedIs ==
  ASSUME NEW bytes, IsSeq(bytes)
  PROVE  IsSeq(Prefixed(bytes)) /\ Len(Prefixed(bytes)) = 4 + Len(bytes)
<1> DEFINE a == Bytes(Len(bytes), 4)
<1>1. IsSeq(a) /\ Len(a) = 4
  BY BytesIs, Zenon
<1> HIDE DEF a
<1>2. IsSeq(a \o bytes) /\ Len(a \o bytes) = Len(a) + Len(bytes)
  BY <1>1, ConcatIs, Zenon
<1> QED BY <1>1, <1>2, Zenon DEF Prefixed, a

\* Where a prefixed part is held, its length and its bytes are.
LEMMA PrefixedHeld ==
  ASSUME NEW V, NEW at, NEW bytes, IsSeq(V), IsSeq(bytes), Holds(V, at, Prefixed(bytes))
  PROVE  Holds(V, at, Bytes(Len(bytes), 4)) /\ Holds(V, at + 4, bytes)
<1> DEFINE a == Bytes(Len(bytes), 4)
<1>1. IsSeq(a) /\ Len(a) = 4
  BY BytesIs, Zenon
<1>2. Holds(V, at, a \o bytes)
  BY Zenon DEF Prefixed
<1> HIDE DEF a
<1>3. Holds(V, at, a) /\ Holds(V, at + Len(a), bytes)
  BY <1>1, <1>2, HoldsBoth, Zenon
<1> QED BY <1>1, <1>3, Zenon DEF a

\* How many bytes a value takes in a row.
LEMMA FieldIs ==
  ASSUME NEW t \in WireTypes, NEW v \in Value \cup {NullValue}
  PROVE  /\ IsSeq(Field(t, v)) /\ Len(Field(t, v)) \in Nat
         /\ t \notin Sized => /\ Field(t, v) = Bytes(Number(t, v), Width(t))
                           /\ Len(Field(t, v)) = Width(t)
<1>1. CASE t \in Sized
  BY <1>1, StringIs, Zenon DEF Field
<1>2. CASE t \notin Sized
  <2>1. Field(t, v) = Bytes(Number(t, v), Width(t)) /\ Width(t) \in Nat
    BY <1>2, WidthIs, Zenon DEF Field
  <2>2. IsSeq(Bytes(Number(t, v), Width(t))) /\ Len(Bytes(Number(t, v), Width(t))) = Width(t)
    BY <2>1, BytesIs, Zenon
  <2> QED BY <1>2, <2>1, <2>2, Zenon
<1> QED BY <1>1, <1>2, Zenon

\* What ServedTable says of a table.
LEMMA ServedIs ==
  ASSUME NEW t \in ServedTable
  PROVE  /\ Len(t.columns) \in Nat /\ Len(t.rows) \in Nat
         /\ DOMAIN t.columns = 1 .. Len(t.columns) /\ DOMAIN t.rows = 1 .. Len(t.rows)
         /\ t.columns = [i \in 1 .. Len(t.columns) |-> t.columns[i]]
         /\ \A i \in 1 .. Len(t.columns) :
              /\ t.columns[i].name \in Value /\ t.columns[i].type \in WireTypes
              /\ t.columns[i] = [name |-> t.columns[i].name, type |-> t.columns[i].type]
         /\ \A j \in 1 .. Len(t.rows) : /\ Len(t.rows[j]) = Len(t.columns)
              /\ \A i \in 1 .. Len(t.columns) : t.rows[j][i] \in Value \cup {NullValue}
<1> DEFINE C == [name : Value, type : WireTypes]
           R == Seq(Value \cup {NullValue})
           c == t.columns
           r == t.rows
<1>1. c \in Seq(C) /\ r \in Seq(R)
      /\ \A i \in DOMAIN r : Len(r[i]) = Len(c)
  BY Zenon DEF ServedTable
<1> HIDE DEF c, r
<1>2. /\ Len(c) \in Nat /\ DOMAIN c = 1 .. Len(c) /\ c = [i \in 1 .. Len(c) |-> c[i]]
      /\ \A i \in 1 .. Len(c) : c[i] \in C
  <2> HIDE DEF C
  <2> QED BY <1>1
<1>3. Len(r) \in Nat /\ DOMAIN r = 1 .. Len(r) /\ \A j \in 1 .. Len(r) : r[j] \in R
  <2> HIDE DEF R
  <2> QED BY <1>1
<1>4. ASSUME NEW i \in 1 .. Len(c)
      PROVE  c[i].name \in Value /\ c[i].type \in WireTypes
             /\ c[i] = [name |-> c[i].name, type |-> c[i].type]
  <2>1. c[i] \in C
    BY <1>2, Zenon
  <2> QED BY <2>1, Zenon
<1>5. ASSUME NEW j \in 1 .. Len(r)
      PROVE  Len(r[j]) = Len(c) /\ \A i \in 1 .. Len(c) : r[j][i] \in Value \cup {NullValue}
  <2>1. r[j] \in R /\ Len(r[j]) = Len(c)
    BY <1>1, <1>3, Zenon
  <2>2. ASSUME NEW i \in 1 .. Len(r[j]) PROVE r[j][i] \in Value \cup {NullValue}
    BY <2>1
  <2> QED BY <2>1, <2>2, Zenon
<1> QED BY <1>2, <1>3, <1>4, <1>5, Zenon DEF c, r

\* A row is its values, one behind the other.
LEMMA RowIs ==
  ASSUME NEW t \in ServedTable, NEW j \in 1 .. Len(t.rows)
  PROVE  LET q == Fields(t.columns, t.rows[j])
         IN  /\ AllSeqs(q) /\ Len(q) = Len(t.columns)
             /\ \A i \in 1 .. Len(t.columns) : q[i] = Field(t.columns[i].type, t.rows[j][i])
             /\ RowBytes(t.columns, t.rows[j]) = FlattenSeq(q)
             /\ IsSeq(RowBytes(t.columns, t.rows[j]))
<1> DEFINE n == Len(t.columns)
           q == Fields(t.columns, t.rows[j])
<1>1. n \in Nat /\ DOMAIN t.columns = 1 .. n
  BY ServedIs, Zenon
<1>2. q = [i \in 1 .. n |-> Field(t.columns[i].type, t.rows[j][i])]
  BY Zenon DEF Fields
<1>3. RowBytes(t.columns, t.rows[j]) = FlattenSeq(q)
  BY <1>1, <1>2, Zenon DEF RowBytes
<1> HIDE DEF q
<1>4. q = [i \in 1 .. n |-> q[i]]
  BY <1>2, Zenon
<1>5. ASSUME NEW i \in 1 .. n PROVE q[i] = Field(t.columns[i].type, t.rows[j][i]) /\ IsSeq(q[i])
  <2>1. t.columns[i].type \in WireTypes /\ t.rows[j][i] \in Value \cup {NullValue}
    BY ServedIs, Zenon
  <2> QED BY <1>2, <2>1, FieldIs, Zenon
<1> HIDE DEF n
<1>6. AllSeqs(q) /\ Len(q) = n
  BY <1>1, <1>4, <1>5, PartsAre, Zenon
<1>7. IsSeq(FlattenSeq(q))
  BY <1>6, StartIs, Zenon
<1> QED BY <1>3, <1>5, <1>6, <1>7, Zenon DEF n, q

\* The rows of a table, each behind its length.
LEMMA RowsAre ==
  ASSUME NEW t \in ServedTable
  PROVE  /\ AllSeqs(RowPieces(t)) /\ Len(RowPieces(t)) = Len(t.rows) /\ IsSeq(Rows(t))
         /\ \A j \in 1 .. Len(t.rows) :
              /\ RowPieces(t)[j] = Prefixed(RowBytes(t.columns, t.rows[j]))
              /\ IsSeq(RowBytes(t.columns, t.rows[j]))
<1> DEFINE n == Len(t.rows)
           q == RowPieces(t)
<1>1. n \in Nat
  BY ServedIs, Zenon
<1>2. q = [j \in 1 .. n |-> Prefixed(RowBytes(t.columns, t.rows[j]))]
  BY Zenon DEF RowPieces
<1> HIDE DEF q
<1>3. q = [j \in 1 .. n |-> q[j]]
  BY <1>2, Zenon
<1>4. ASSUME NEW j \in 1 .. n
      PROVE  /\ q[j] = Prefixed(RowBytes(t.columns, t.rows[j])) /\ IsSeq(q[j])
             /\ IsSeq(RowBytes(t.columns, t.rows[j]))
  <2>1. IsSeq(RowBytes(t.columns, t.rows[j]))
    BY RowIs, Zenon
  <2> QED BY <1>2, <2>1, PrefixedIs, Zenon
<1> HIDE DEF n
<1>5. AllSeqs(q) /\ Len(q) = n
  BY <1>1, <1>3, <1>4, PartsAre, Zenon
<1>6. IsSeq(Rows(t))
  BY <1>5, StartIs, Zenon DEF Rows, q
<1> QED BY <1>4, <1>5, <1>6, Zenon DEF n, q

\* The types of the columns take a byte each, and then come their names.
LEMMA ColumnsAre ==
  ASSUME NEW t \in ServedTable
  PROVE  LET n == Len(t.columns)
             T == TypePieces(t.columns)
             N == NamePieces(t.columns)
         IN  /\ AllSeqs(T) /\ Len(T) = n /\ \A i \in 1 .. n : T[i] = Bytes(t.columns[i].type, 1)
             /\ AllSeqs(N) /\ Len(N) = n /\ \A i \in 1 .. n : N[i] = String(t.columns[i].name)
             /\ IsSeq(FlattenSeq(T)) /\ IsSeq(FlattenSeq(N))
             /\ Len(FlattenSeq(T)) = n /\ \A i \in 1 .. n : Start(T, i) = i - 1
<1> DEFINE n == Len(t.columns)
           T == TypePieces(t.columns)
           N == NamePieces(t.columns)
<1>1. n \in Nat
  BY ServedIs, Zenon
<1>2. /\ T = [i \in 1 .. n |-> Bytes(t.columns[i].type, 1)]
      /\ N = [i \in 1 .. n |-> String(t.columns[i].name)]
  BY Zenon DEF TypePieces, NamePieces
<1> HIDE DEF T, N
<1>3. T = [i \in 1 .. n |-> T[i]] /\ N = [i \in 1 .. n |-> N[i]]
  BY <1>2, Zenon
<1>4. ASSUME NEW i \in 1 .. n
      PROVE  T[i] = Bytes(t.columns[i].type, 1) /\ IsSeq(T[i]) /\ Len(T[i]) = 1
  <2>1. T[i] = Bytes(t.columns[i].type, 1)
    BY <1>2, Zenon
  <2> QED BY <2>1, BytesIs, Zenon
<1>5. ASSUME NEW i \in 1 .. n PROVE N[i] = String(t.columns[i].name) /\ IsSeq(N[i])
  <2>1. N[i] = String(t.columns[i].name) /\ t.columns[i].name \in Value
    BY <1>2, ServedIs, Zenon
  <2> QED BY <2>1, StringIs, Zenon
<1> HIDE DEF n
<1>6. AllSeqs(T) /\ Len(T) = n
  BY <1>1, <1>3, <1>4, PartsAre, Zenon
<1>7. AllSeqs(N) /\ Len(N) = n
  BY <1>1, <1>3, <1>5, PartsAre, Zenon
<1>8. IsSeq(FlattenSeq(T)) /\ IsSeq(FlattenSeq(N))
  BY <1>6, <1>7, StartIs, Zenon
<1>9. /\ Len(FlattenSeq(T)) = Start(T, n + 1) /\ Start(T, 1) = 0
      /\ \A k \in 1 .. n : Start(T, k + 1) = Start(T, k) + Len(T[k])
  BY <1>6, StartIs, Zenon
<1> DEFINE K == {k \in Nat : k <= n => Start(T, k + 1) = k}
<1>10. 0 \in K
  BY <1>9
<1>11. ASSUME NEW k \in Nat, k \in K PROVE k + 1 \in K
  <2>1. SUFFICES ASSUME k + 1 <= n PROVE Start(T, (k + 1) + 1) = k + 1
    OBVIOUS
  <2>2. k + 1 \in 1 .. n /\ Start(T, k + 1) = k
    BY <1>1, <1>11, <2>1
  <2> QED BY <1>4, <1>9, <2>2, Zenon
<1> HIDE DEF K
<1>12. \A k \in Nat : k \in K
  BY <1>10, <1>11, SetInduction, Zenon
<1>13. ASSUME NEW k \in Nat, k <= n PROVE Start(T, k + 1) = k
  BY <1>12, <1>13, Zenon DEF K
<1>14. ASSUME NEW i \in 1 .. n PROVE Start(T, i) = i - 1
  <2>1. i - 1 \in Nat /\ i - 1 <= n /\ (i - 1) + 1 = i
    BY <1>1
  <2> QED BY <1>13, <2>1, Zenon
<1>15. Len(FlattenSeq(T)) = n
  BY <1>1, <1>9, <1>13
<1> QED BY <1>4, <1>5, <1>6, <1>7, <1>8, <1>14, <1>15, Zenon DEF n, T, N

-----------------------------------------------------------------------------
(* Table::Table(buffer) finds what was written.                             *)

\* The window w, wherever its position is, shows the bytes.
Shows(mem, w, bytes) ==
  /\ DOMAIN w = {"base", "position", "limit", "capacity"}
  /\ IsView(mem, w) /\ View(mem, w) = bytes

Moved(v, w, p) == v = [w EXCEPT !.position = p]

\* A window whose position moves shows what it showed.
LEMMA ShowsMoved ==
  ASSUME NEW mem, NEW w, NEW bytes, NEW p, Shows(mem, w, bytes),
         NEW v, Moved(v, w, p)
  PROVE  /\ Shows(mem, v, bytes) /\ v.position = p
         /\ v.base = w.base /\ v.limit = w.limit /\ v.capacity = w.capacity
<1>1. /\ DOMAIN v = DOMAIN w /\ v.position = p
      /\ v.base = w.base /\ v.limit = w.limit /\ v.capacity = w.capacity
  BY Zenon DEF Shows, Moved
<1>2. Shows(mem, v, bytes)
  BY <1>1, Zenon DEF Shows, IsView, View
<1> QED BY <1>1, <1>2, Zenon

\* Where the parts of the head of a table are.
LEMMA HeadIs ==
  ASSUME NEW t \in ServedTable, NEW V, NEW at, IsSeq(V), Holds(V, at, HeadBytes(t.columns))
  PROVE  LET n == Len(t.columns)
         IN  /\ Holds(V, at + 1, Bytes(n, 2))
             /\ Holds(V, at + 3, FlattenSeq(TypePieces(t.columns)))
             /\ Holds(V, at + 3 + n, FlattenSeq(NamePieces(t.columns)))
<1> DEFINE n == Len(t.columns)
           a == Bytes(0, 1)
           b == Bytes(n, 2)
           T == FlattenSeq(TypePieces(t.columns))
           N == FlattenSeq(NamePieces(t.columns))
<1>1. IsSeq(a) /\ IsSeq(b) /\ Len(a) = 1 /\ Len(b) = 2
  BY BytesIs, Zenon
<1>2. IsSeq(T) /\ IsSeq(N) /\ Len(T) = n /\ n \in Nat
  BY ColumnsAre, ServedIs, Zenon
<1>3. Holds(V, at, ((a \o b) \o T) \o N)
  BY Zenon DEF HeadBytes
<1> HIDE DEF n, a, b, T, N
<1>4. IsSeq(a \o b) /\ Len(a \o b) = Len(a) + Len(b)
  BY <1>1, ConcatIs, Zenon
<1>5. IsSeq((a \o b) \o T) /\ Len((a \o b) \o T) = Len(a \o b) + Len(T)
  BY <1>2, <1>4, ConcatIs, Zenon
<1>6. Holds(V, at, (a \o b) \o T) /\ Holds(V, at + Len((a \o b) \o T), N)
  BY <1>2, <1>3, <1>5, HoldsBoth, Zenon
<1>7. Holds(V, at, a \o b) /\ Holds(V, at + Len(a \o b), T)
  BY <1>2, <1>4, <1>6, HoldsBoth, Zenon
<1>8. Holds(V, at, a) /\ Holds(V, at + Len(a), b)
  BY <1>1, <1>7, HoldsBoth, Zenon
<1>9. at \in Nat
  BY <1>8, Zenon DEF Holds
<1>10. Len(a \o b) = 3 /\ at + Len((a \o b) \o T) = at + 3 + n
  BY <1>1, <1>2, <1>4, <1>5, <1>9
<1>11. Holds(V, at + 3 + n, N)
  BY <1>6, <1>10, Zenon
<1>12. Holds(V, at + 3, T) /\ Holds(V, at + 1, b)
  BY <1>1, <1>7, <1>8, <1>10, Zenon
<1> QED BY <1>11, <1>12, Zenon DEF n, b, T, N

\* The head of a table is a sequence.
LEMMA HeadSeq ==
  ASSUME NEW t \in ServedTable
  PROVE  IsSeq(HeadBytes(t.columns))
<1> DEFINE a == Bytes(0, 1)
           b == Bytes(Len(t.columns), 2)
           T == FlattenSeq(TypePieces(t.columns))
           N == FlattenSeq(NamePieces(t.columns))
<1>1. IsSeq(a) /\ IsSeq(b)
  BY BytesIs, Zenon
<1>2. IsSeq(T) /\ IsSeq(N)
  BY ColumnsAre, Zenon
<1> HIDE DEF a, b, T, N
<1>3. IsSeq(a \o b)
  BY <1>1, ConcatIs, Zenon
<1>4. IsSeq((a \o b) \o T)
  BY <1>2, <1>3, ConcatIs, Zenon
<1>5. IsSeq(((a \o b) \o T) \o N)
  BY <1>2, <1>4, ConcatIs, Zenon
<1> QED BY <1>5, Zenon DEF HeadBytes, a, b, T, N

\* A table is its head, the number of its rows and the rows.
LEMMA TableBytesAre ==
  ASSUME NEW t \in ServedTable
  PROVE  /\ TableBytes(t) = (Prefixed(HeadBytes(t.columns)) \o Bytes(Len(t.rows), 4)) \o Rows(t)
         /\ IsSeq(TableBytes(t)) /\ Len(HeadBytes(t.columns)) \in Nat
         /\ Len(TableBytes(t)) = Len(HeadBytes(t.columns)) + 8 + Len(Rows(t))
<1> DEFINE P == Prefixed(HeadBytes(t.columns))
           C == Bytes(Len(t.rows), 4)
           R == Rows(t)
<1>1. TableBytes(t) = (P \o C) \o R
  <2>1. DOMAIN t.columns = 1 .. Len(t.columns) /\ DOMAIN t.rows = 1 .. Len(t.rows)
    BY ServedIs, Zenon
  <2> QED BY <2>1, Zenon
             DEF TableBytes, Concat, HeadBytes, TypePieces, NamePieces, Rows, RowPieces
<1>2. /\ IsSeq(P) /\ Len(P) = 4 + Len(HeadBytes(t.columns)) /\ Len(HeadBytes(t.columns)) \in Nat
  BY HeadSeq, PrefixedIs, SeqLen, Zenon
<1>3. IsSeq(C) /\ Len(C) = 4 /\ IsSeq(R) /\ Len(R) \in Nat
  BY BytesIs, RowsAre, SeqLen, Zenon
<1> HIDE DEF P, C, R
<1>4. IsSeq(P \o C) /\ Len(P \o C) = Len(P) + Len(C)
  BY <1>2, <1>3, ConcatIs, Zenon
<1>5. IsSeq((P \o C) \o R) /\ Len((P \o C) \o R) = Len(P \o C) + Len(R)
  BY <1>3, <1>4, ConcatIs, Zenon
<1>6. Len(TableBytes(t)) = Len(HeadBytes(t.columns)) + 8 + Len(R)
  BY <1>1, <1>2, <1>3, <1>4, <1>5
<1> QED BY <1>1, <1>2, <1>5, <1>6, Zenon DEF P, C, R

\* The offsets of the parts of a table.
LEMMA TableHolds ==
  ASSUME NEW t \in ServedTable
  PROVE  LET V == TableBytes(t)
             H == HeadBytes(t.columns)
             n == Len(t.columns)
         IN  /\ Holds(V, 0, Bytes(Len(H), 4)) /\ Holds(V, 5, Bytes(n, 2))
             /\ Holds(V, 7, FlattenSeq(TypePieces(t.columns)))
             /\ Holds(V, 7 + n, FlattenSeq(NamePieces(t.columns)))
             /\ Holds(V, Len(H) + 4, Bytes(Len(t.rows), 4)) /\ Holds(V, Len(H) + 8, Rows(t))
<1> DEFINE V == TableBytes(t)
           H == HeadBytes(t.columns)
           n == Len(t.columns)
           P == Prefixed(H)
           C == Bytes(Len(t.rows), 4)
           R == Rows(t)
<1>1. V = (P \o C) \o R /\ IsSeq(V) /\ Len(H) \in Nat /\ IsSeq(H)
  BY TableBytesAre, HeadSeq, Zenon
<1>2. IsSeq(P) /\ Len(P) = 4 + Len(H)
  BY <1>1, PrefixedIs, Zenon
<1>3. IsSeq(C) /\ Len(C) = 4 /\ IsSeq(R)
  BY BytesIs, RowsAre, Zenon
<1> HIDE DEF V, H, P, C, R
<1>4. IsSeq(P \o C) /\ Len(P \o C) = Len(P) + Len(C)
  BY <1>2, <1>3, ConcatIs, Zenon
<1>5. Holds(V, 0, (P \o C) \o R)
  BY <1>1, HoldsItself, Zenon
<1>6. Holds(V, 0, P \o C) /\ Holds(V, 0 + Len(P \o C), R)
  BY <1>1, <1>3, <1>4, <1>5, HoldsBoth, Zenon
<1>7. Holds(V, 0, P) /\ Holds(V, 0 + Len(P), C)
  BY <1>1, <1>2, <1>3, <1>6, HoldsBoth, Zenon
<1>8. 0 + Len(P \o C) = Len(H) + 8 /\ 0 + Len(P) = Len(H) + 4
  BY <1>1, <1>2, <1>3, <1>4
<1>9. Holds(V, Len(H) + 8, R) /\ Holds(V, Len(H) + 4, C)
  BY <1>6, <1>7, <1>8, Zenon
<1>10. Holds(V, 0, Bytes(Len(H), 4)) /\ Holds(V, 0 + 4, H)
  BY <1>1, <1>7, PrefixedHeld, Zenon DEF P
<1>11. /\ Holds(V, 4 + 1, Bytes(n, 2)) /\ Holds(V, 4 + 3, FlattenSeq(TypePieces(t.columns)))
       /\ Holds(V, 4 + 3 + n, FlattenSeq(NamePieces(t.columns)))
  <2>1. Holds(V, 4, HeadBytes(t.columns))
    BY <1>10 DEF H
  <2> QED BY <1>1, <2>1, HeadIs, Zenon
<1>12. n \in Nat
  BY ServedIs, Zenon
<1>13. 4 + 3 + n = 7 + n /\ 4 + 3 = 7 /\ 4 + 1 = 5
  BY <1>12
<1> QED BY <1>9, <1>10, <1>11, <1>13, Zenon DEF V, H, C, R

\* Where the name of each column begins, as Table::Table counts it.
NameAt(mem, w, n) ==
  CHOOSE at : at = [i \in 1 .. n |-> IF i = 1 THEN 7 + n ELSE AfterString(mem, w, at[i - 1])]

\* Table(buffer) finds the name of each column.
LEMMA NamesRead ==
  ASSUME NEW t \in ServedTable, NEW mem, NEW w, Shows(mem, w, TableBytes(t))
  PROVE  \A i \in 1 .. Len(t.columns) :
           GetString(mem, w, NameAt(mem, w, Len(t.columns))[i]) = t.columns[i].name
<1> DEFINE n == Len(t.columns)
           q == NamePieces(t.columns)
           V == View(mem, w)
           Eq(f) == f = [i \in 1 .. n |-> IF i = 1 THEN 7 + n ELSE AfterString(mem, w, f[i - 1])]
           x == [i \in 1 .. n |-> 7 + n + Start(q, i)]
           r == NameAt(mem, w, n)
<1>0. n \in Nat /\ IsView(mem, w) /\ V = TableBytes(t) /\ IsSeq(V)
  BY ServedIs, TableBytesAre, Zenon DEF Shows
<1>1. AllSeqs(q) /\ Len(q) = n /\ \A i \in 1 .. n : q[i] = String(t.columns[i].name)
  BY ColumnsAre, Zenon
<1>2. Holds(V, 7 + n, FlattenSeq(q))
  BY <1>0, TableHolds, Zenon
<1> HIDE DEF V, q
<1>3. /\ Start(q, 1) = 0
      /\ \A k \in 1 .. n + 1 : Start(q, k) \in Nat
      /\ \A k \in 1 .. n : Start(q, k + 1) = Start(q, k) + Len(q[k])
  BY <1>1, StartIs, Zenon
<1>4. \A k \in 1 .. n : Holds(V, (7 + n) + Start(q, k), q[k])
  BY <1>0, <1>1, <1>2, HoldsParts, Zenon
<1>5. ASSUME NEW k \in 1 .. n
      PROVE  /\ GetString(mem, w, x[k]) = t.columns[k].name
             /\ AfterString(mem, w, x[k]) = 7 + n + Start(q, k + 1)
  <2>1. t.columns[k].name \in Value
    BY ServedIs, Zenon
  <2>2. Holds(V, x[k], String(t.columns[k].name)) /\ x[k] = 7 + n + Start(q, k)
    BY <1>1, <1>4, Zenon
  <2>3. /\ GetString(mem, w, x[k]) = t.columns[k].name
        /\ AfterString(mem, w, x[k]) = x[k] + Len(String(t.columns[k].name))
    <3> HIDE DEF x
    <3> QED BY <1>0, <2>1, <2>2, GetStringHeld, Zenon DEF V
  <2>4. Start(q, k + 1) = Start(q, k) + Len(String(t.columns[k].name)) /\ Start(q, k) \in Nat
    <3>1. q[k] = String(t.columns[k].name)
      BY <1>1, Zenon
    <3>2. Start(q, k + 1) = Start(q, k) + Len(q[k]) /\ Start(q, k) \in Nat
      <4>1. k \in 1 .. n + 1
        BY <1>0
      <4> QED BY <1>3, <4>1, Zenon
    <3> QED BY <3>1, <3>2, Zenon
  <2>5. Len(String(t.columns[k].name)) \in Nat
    BY <2>1, StringIs, Zenon
  <2> HIDE DEF x
  <2>6. x[k] + Len(String(t.columns[k].name)) = 7 + n + Start(q, k + 1)
    BY <1>0, <2>2, <2>4, <2>5
  <2> QED BY <2>3, <2>6, Zenon
<1>6. Eq(x)
  <2>1. ASSUME NEW k \in 1 .. n
        PROVE  x[k] = IF k = 1 THEN 7 + n ELSE AfterString(mem, w, x[k - 1])
    <3>1. CASE k = 1
      BY <1>0, <1>3, <3>1
    <3>2. CASE k # 1
      <4>1. k - 1 \in 1 .. n /\ (k - 1) + 1 = k
        BY <1>0, <3>2
      <4>2. AfterString(mem, w, x[k - 1]) = 7 + n + Start(q, k)
        <5> HIDE DEF x
        <5> QED BY <1>5, <4>1, Zenon
      <4> QED BY <3>2, <4>2, Zenon
    <3> QED BY <3>1, <3>2, Zenon
  <2>2. x = [k \in 1 .. n |-> x[k]]
    OBVIOUS
  <2> HIDE DEF x
  <2> QED BY <2>1, <2>2, Zenon
<1> HIDE DEF x
<1>7. Eq(r)
  <2>1. r = CHOOSE f : Eq(f)
    BY Zenon DEF NameAt
  <2> HIDE DEF Eq, r
  <2> QED BY <1>6, <2>1, Zenon
<1> HIDE DEF r, n
<1>8. Alike(r, x, 1, n)
  <2>1. ASSUME NEW k \in 1 .. n PROVE /\ k = 1 => r[k] = x[k]
                                      /\ k # 1 /\ r[k - 1] = x[k - 1] => r[k] = x[k]
    <3>1. r[k] = IF k = 1 THEN 7 + n ELSE AfterString(mem, w, r[k - 1])
      BY <1>7, Zenon
    <3>2. x[k] = IF k = 1 THEN 7 + n ELSE AfterString(mem, w, x[k - 1])
      BY <1>6, Zenon
    <3> HIDE DEF Eq
    <3> QED BY <3>1, <3>2, Zenon
  <2>2. \A k \in 1 + 1 .. n : k \in 1 .. n /\ k # 1
    BY <1>0
  <2>3. 1 <= n => 1 \in 1 .. n
    BY <1>0
  <2>4. GoAlike(r, x, 1, n)
    BY <2>1, <2>2, <2>3, Zenon DEF GoAlike
  <2> QED BY <1>0, <2>4, Agreement, Zenon
<1> QED BY <1>5, <1>8, Zenon DEF Alike, n, r

TableShows(r, t) ==
  /\ DOMAIN r = {"mem", "m_buffer", "m_columns", "m_rowStart", "m_rowCount"}
  /\ Shows(r.mem, r.m_buffer, TableBytes(t))
  /\ r.m_columns = t.columns /\ r.m_rowCount = Len(t.rows) /\ r.m_rowStart \in Nat
  /\ r.m_rowStart + 4 + Len(Rows(t)) = r.m_buffer.limit
  /\ Holds(TableBytes(t), r.m_rowStart + 4, Rows(t))

\* Table(buffer) makes of the bytes of a table the table that was sent.
LEMMA TableRead ==
  ASSUME NEW t \in ServedTable, NEW mem, NEW w, Shows(mem, w, TableBytes(t))
  PROVE  TableShows(TableOf(mem, w), t)
<1> DEFINE n == Len(t.columns)
           c == t.columns
           h == Len(HeadBytes(c))
           V == View(mem, w)
           m == GetAt(mem, w, 5, 2)
           s == GetAt(mem, w, 0, 4) + 4
           Column(i, k) == [type |-> ColumnType(mem, w, i),
                            name |-> GetString(mem, w, NameAt(mem, w, k)[i])]
           v == [w EXCEPT !.position = w.limit]
           r == TableOf(mem, w)
<1>0. IsView(mem, w) /\ V = TableBytes(t) /\ n \in Nat /\ h \in Nat
  BY ServedIs, TableBytesAre, Zenon DEF Shows
<1>1. r = [mem |-> mem, m_buffer |-> v, m_columns |-> [i \in 1 .. m |-> Column(i, m)],
           m_rowStart |-> s, m_rowCount |-> GetAt(mem, w, s, 4)]
  BY Zenon DEF TableOf, NameAt
<1>2. /\ Holds(V, 0, Bytes(h, 4)) /\ Holds(V, 5, Bytes(n, 2))
      /\ Holds(V, 7, FlattenSeq(TypePieces(c)))
      /\ Holds(V, h + 4, Bytes(Len(t.rows), 4)) /\ Holds(V, h + 8, Rows(t))
  BY <1>0, TableHolds, Zenon
<1>3. m = n /\ GetAt(mem, w, 0, 4) = h /\ GetAt(mem, w, h + 4, 4) = Len(t.rows)
  BY <1>0, <1>2, GetAtHeld
<1>4. s = h + 4 /\ GetAt(mem, w, s, 4) = Len(t.rows)
  BY <1>3, Zenon
<1>5. ASSUME NEW i \in 1 .. n PROVE ColumnType(mem, w, i) = c[i].type
  <2> DEFINE q == TypePieces(c)
  <2>1. AllSeqs(q) /\ Len(q) = n /\ q[i] = Bytes(c[i].type, 1) /\ Start(q, i) = i - 1
    BY ColumnsAre, Zenon
  <2>2. IsSeq(V)
    BY <1>0, ViewIs, Zenon
  <2> HIDE DEF V, q
  <2>3. Holds(V, 7 + Start(q, i), q[i])
    BY <1>2, <2>1, <2>2, HoldsParts, Zenon DEF q
  <2>4. 7 + Start(q, i) = 6 + i
    BY <1>0, <2>1
  <2>5. Holds(V, 6 + i, Bytes(c[i].type, 1))
    BY <2>1, <2>3, <2>4, Zenon
  <2> QED BY <1>0, <2>5, GetAtHeld DEF V, ColumnType
<1>6. [i \in 1 .. m |-> Column(i, m)] = c
  <2>1. ASSUME NEW i \in 1 .. n PROVE Column(i, n) = c[i]
    <3>1. GetString(mem, w, NameAt(mem, w, n)[i]) = c[i].name
      BY NamesRead, Zenon
    <3>2. c[i] = [name |-> c[i].name, type |-> c[i].type]
      BY ServedIs, Zenon
    <3> QED BY <1>5, <3>1, <3>2, Zenon
  <2>2. c = [i \in 1 .. n |-> c[i]]
    BY ServedIs, Zenon
  <2> HIDE DEF m, n, c, Column
  <2>3. [i \in 1 .. n |-> Column(i, n)] = [i \in 1 .. n |-> c[i]]
    BY <2>1, Zenon
  <2> QED BY <1>3, <2>2, <2>3, Zenon
<1>7. Shows(mem, v, TableBytes(t)) /\ v.limit = w.limit
  <2>1. Moved(v, w, w.limit)
    BY Zenon DEF Moved
  <2> HIDE DEF v
  <2> QED BY <2>1, ShowsMoved
<1>8. w.limit = h + 8 + Len(Rows(t)) /\ Len(Rows(t)) \in Nat
  <2>1. Len(V) = w.limit
    BY <1>0, ViewIs, Zenon
  <2>2. Len(Rows(t)) \in Nat
    BY RowsAre, SeqLen, Zenon
  <2> QED BY <1>0, <2>1, <2>2, TableBytesAre, Zenon
<1>9. s \in Nat /\ s + 4 + Len(Rows(t)) = w.limit /\ s + 4 = h + 8
  BY <1>0, <1>4, <1>8
<1> HIDE DEF v, s, m, Column, c, h, V
<1>10. /\ DOMAIN r = {"mem", "m_buffer", "m_columns", "m_rowStart", "m_rowCount"}
       /\ r.mem = mem /\ r.m_buffer = v /\ r.m_columns = c /\ r.m_rowStart = s
       /\ r.m_rowCount = Len(t.rows)
  <2> HIDE DEF r
  <2> QED BY <1>1, <1>4, <1>6, Zenon
<1>11. Holds(TableBytes(t), s + 4, Rows(t))
  BY <1>0, <1>2, <1>9, Zenon
<1> HIDE DEF r
<1>12. TableShows(r, t)
  BY <1>7, <1>9, <1>10, <1>11, Zenon DEF TableShows, c
<1> QED BY <1>12, Zenon DEF r

-----------------------------------------------------------------------------
(* The next of the parts that have their length in front: a table of a       *)
(* response, a row of a table.                                               *)

\* Limited sets the limit so that the slice shows the bytes, and the position after
\* the slice is behind them.
Cuts(mem, b, bytes) ==
  /\ Shows(mem, Slice(Limited(mem, b)), bytes) /\ Slice(Limited(mem, b)).position = 0
  /\ [Sliced(Limited(mem, b)) EXCEPT !.limit = b.limit]
       = [b EXCEPT !.position = b.position + Len(Prefixed(bytes))]

\* A length is read, and the limit set behind as many bytes: the slice shows
\* exactly these.
LEMMA LimitedIs ==
  ASSUME NEW mem, NEW b, NEW V, NEW bytes, Shows(mem, b, V), IsSeq(bytes),
         Holds(V, b.position, Prefixed(bytes))
  PROVE  Cuts(mem, b, bytes)
<1> DEFINE p == b.position
           n == Len(bytes)
           l == Limited(mem, b)
<1>0. IsView(mem, b) /\ View(mem, b) = V /\ IsSeq(V) /\ n \in Nat
  BY ViewIs, SeqLen, Zenon DEF Shows
<1>1. Holds(V, p, Bytes(n, 4)) /\ Holds(V, p + 4, bytes) /\ p \in Nat
  <2>1. Holds(V, p, Bytes(n, 4)) /\ Holds(V, p + 4, bytes)
    BY <1>0, PrefixedHeld, Zenon
  <2>2. p \in Nat
    BY <2>1, Zenon DEF Holds
  <2> QED BY <2>1, <2>2, Zenon
<1>2. GetAt(mem, b, p, 4) = n
  BY <1>0, <1>1, GetAtHeld
<1>3. l = [b EXCEPT !.position = p + 4, !.limit = p + 4 + n]
  BY <1>2, Zenon DEF Limited
<1>4. /\ DOMAIN l = {"base", "position", "limit", "capacity"} /\ l.base = b.base
      /\ l.position = p + 4 /\ l.limit = p + 4 + n /\ l.capacity = b.capacity
  <2> HIDE DEF l, p, n
  <2> QED BY <1>3, Zenon DEF Shows
<1> HIDE DEF l
<1>5. /\ DOMAIN Slice(l) = {"base", "position", "limit", "capacity"} /\ Slice(l).position = 0
      /\ Slice(l).base = b.base + (p + 4) /\ Slice(l).limit = n
  <2>1. p + 4 + n - (p + 4) = n
    BY <1>0, <1>1
  <2>2. l.base + l.position = b.base + (p + 4) /\ l.limit - l.position = n
    <3>1. l.base = b.base /\ l.position = p + 4 /\ l.limit = p + 4 + n
      BY <1>4, Zenon
    <3>2. b.base \in Nat /\ p \in Nat /\ n \in Nat
      BY <1>0, <1>1, Zenon DEF IsView
    <3> HIDE DEF p, n
    <3> QED BY <3>1, <3>2
  <2>3. Slice(l) = Window(b.base + (p + 4), n)
    BY <2>2, Zenon DEF Slice
  <2> HIDE DEF p, n
  <2> QED BY <2>3 DEF Window
<1>6. IsView(mem, Slice(l)) /\ View(mem, Slice(l)) = bytes
  BY <1>0, <1>1, <1>5, SliceShows, Zenon
<1>7. p + 4 + n = p + Len(Prefixed(bytes))
  BY <1>0, <1>1, PrefixedIs
<1> DEFINE r == [Sliced(l) EXCEPT !.limit = b.limit]
           e == [b EXCEPT !.position = p + Len(Prefixed(bytes))]
<1>8. r = e
  <2>1. DOMAIN l = DOMAIN b /\ DOMAIN b = {"base", "position", "limit", "capacity"}
    BY <1>4, Zenon DEF Shows
  <2>2. r = [k \in DOMAIN b |-> r[k]] /\ e = [k \in DOMAIN b |-> e[k]]
    BY <2>1, Zenon DEF Sliced
  <2>3. ASSUME NEW k \in DOMAIN b PROVE r[k] = e[k]
    <3>1. CASE k = "base"
      BY <1>4, <2>1, <3>1, Zenon DEF Sliced
    <3>2. CASE k = "position"
      BY <1>4, <1>7, <2>1, <3>2, Zenon DEF Sliced
    <3>3. CASE k = "limit"
      BY <1>4, <2>1, <3>3, Zenon DEF Sliced
    <3>4. CASE k = "capacity"
      BY <1>4, <2>1, <3>4, Zenon DEF Sliced
    <3> QED BY <2>1, <3>1, <3>2, <3>3, <3>4, Zenon
  <2> HIDE DEF r, e
  <2> QED BY <2>2, <2>3, Zenon
<1> QED BY <1>5, <1>6, <1>8, Zenon DEF Cuts, Shows, l

\* The message as a window of its own.
LEMMA WholeShown ==
  ASSUME NEW mem, IsSeq(mem)
  PROVE  Shows(mem, Window(0, Len(mem)), mem)
<1> DEFINE w == Window(0, Len(mem))
<1>1. /\ DOMAIN w = {"base", "position", "limit", "capacity"} /\ w.base = 0 /\ w.limit = Len(mem)
  BY Zenon DEF Window
<1> HIDE DEF w
<1>2. Len(mem) \in Nat
  BY SeqLen, Zenon
<1>3. IsView(mem, w)
  BY <1>1, <1>2 DEF IsView
<1>4. /\ IsSeq(View(mem, w)) /\ Len(View(mem, w)) = Len(mem)
      /\ \A i \in 1 .. Len(mem) : View(mem, w)[i] = mem[0 + i]
  BY <1>1, <1>3, ViewIs
<1>5. ASSUME NEW i \in 1 .. Len(View(mem, w)) PROVE View(mem, w)[i] = mem[i]
  <2>1. 0 + i = i /\ i \in 1 .. Len(mem)
    BY <1>2, <1>4
  <2> QED BY <1>4, <2>1, Zenon
<1>6. View(mem, w) = mem
  BY <1>4, <1>5, SeqSame, Zenon
<1> QED BY <1>1, <1>3, <1>6, Zenon DEF Shows, w

-----------------------------------------------------------------------------
(* What is optional in a response.                                          *)

\* An optional string is a sequence, empty when there is none.
LEMMA OptionalIs ==
  ASSUME NEW v \in Value \cup {None}
  PROVE  IsSeq(Optional(v)) /\ Len(Optional(v)) \in Nat
BY StringIs, EmptyIs, Zenon DEF Optional

\* v is read at the offset when it is there, and the offset moved past it.
Found(mem, w, at, v) ==
  /\ (IF v # None THEN GetString(mem, w, at) ELSE None) = v
  /\ (IF v # None THEN AfterString(mem, w, at) ELSE at) = at + Len(Optional(v))

\* The error is not read: the offset is moved past it.
Skipped(mem, w, at, v) ==
  (IF v # None THEN at + 4 + GetAt(mem, w, at, 4) ELSE at) = at + Len(Optional(v))

\* A string that is present is read, and the position moves behind it.
LEMMA OptionRead ==
  ASSUME NEW v \in Value \cup {None}, NEW mem, NEW w, NEW at, IsView(mem, w),
         Holds(View(mem, w), at, Optional(v))
  PROVE  Found(mem, w, at, v)
<1> USE DEF Found
<1>0. at \in Nat
  BY Zenon DEF Holds
<1>1. CASE v = None
  BY <1>0, <1>1, EmptyIs DEF Optional
<1>2. CASE v # None
  <2>1. Optional(v) = String(v) /\ v \in Value
    BY <1>2, Zenon DEF Optional
  <2>2. GetString(mem, w, at) = v /\ AfterString(mem, w, at) = at + Len(String(v))
    BY <2>1, GetStringHeld, Zenon
  <2> QED BY <1>2, <2>1, <2>2, Zenon
<1> QED BY <1>1, <1>2, Zenon

\* The error is skipped, whether it is there or not.
LEMMA ErrorRead ==
  ASSUME NEW v \in Value \cup {None}, NEW mem, NEW w, NEW at, IsView(mem, w),
         Holds(View(mem, w), at, Optional(v))
  PROVE  Skipped(mem, w, at, v)
<1> USE DEF Skipped
<1>0. at \in Nat /\ IsSeq(View(mem, w))
  BY ViewIs, Zenon DEF Holds
<1>1. CASE v = None
  BY <1>0, <1>1, EmptyIs DEF Optional
<1>2. CASE v # None
  <2> DEFINE n == Size[v]
             a == Bytes(n, 4)
             c == Bytes(v, n)
  <2>1. Optional(v) = String(v) /\ v \in Value /\ v # NullValue
    BY <1>2, ResponseAssumption, Zenon DEF Optional
  <2>2. n \in Nat /\ String(v) = a \o c /\ Len(String(v)) = 4 + n
    BY <2>1, StringIs, Zenon
  <2>3. IsSeq(a) /\ IsSeq(c)
    BY <2>2, BytesIs, Zenon
  <2> HIDE DEF a, c, n
  <2>4. Holds(View(mem, w), at, a)
    BY <1>0, <2>1, <2>2, <2>3, HoldsBoth, Zenon
  <2>5. GetAt(mem, w, at, 4) = n
    BY <2>4, GetAtHeld DEF a
  <2> QED BY <1>0, <1>2, <2>1, <2>2, <2>5
<1> QED BY <1>1, <1>2, Zenon

\* The bits of the byte fieldsPresent.
LEMMA BitsAre ==
  ASSUME NEW m
  PROVE  /\ Bit(Present(m), 32) <=> m.status # None
         /\ Bit(Present(m), 64) <=> m.error # None
         /\ Bit(Present(m), 128) <=> m.appStatus # None
<1> DEFINE P == Present(m)
<1>1. CASE m.status = None /\ m.error = None /\ m.appStatus = None
  <2>1. P = 0
    BY <1>1 DEF Present
  <2> QED BY <1>1, <2>1 DEF Bit
<1>2. CASE m.status # None /\ m.error = None /\ m.appStatus = None
  <2>1. P = 32
    BY <1>2 DEF Present
  <2> QED BY <1>2, <2>1 DEF Bit
<1>3. CASE m.status = None /\ m.error # None /\ m.appStatus = None
  <2>1. P = 64
    BY <1>3 DEF Present
  <2> QED BY <1>3, <2>1 DEF Bit
<1>4. CASE m.status # None /\ m.error # None /\ m.appStatus = None
  <2>1. P = 96
    BY <1>4 DEF Present
  <2> QED BY <1>4, <2>1 DEF Bit
<1>5. CASE m.status = None /\ m.error = None /\ m.appStatus # None
  <2>1. P = 128
    BY <1>5 DEF Present
  <2> QED BY <1>5, <2>1 DEF Bit
<1>6. CASE m.status # None /\ m.error = None /\ m.appStatus # None
  <2>1. P = 160
    BY <1>6 DEF Present
  <2> QED BY <1>6, <2>1 DEF Bit
<1>7. CASE m.status = None /\ m.error # None /\ m.appStatus # None
  <2>1. P = 192
    BY <1>7 DEF Present
  <2> QED BY <1>7, <2>1 DEF Bit
<1>8. CASE m.status # None /\ m.error # None /\ m.appStatus # None
  <2>1. P = 224
    BY <1>8 DEF Present
  <2> QED BY <1>8, <2>1 DEF Bit
<1> QED BY <1>1, <1>2, <1>3, <1>4, <1>5, <1>6, <1>7, <1>8, Zenon

-----------------------------------------------------------------------------
(* InvocationResponse(data, length) finds what was written.                  *)

\* Where the parts of a response are.
AppAt(m) == 12 + Len(Optional(m.status))
TimeAt(m) == AppAt(m) + Len(Optional(m.appStatus))
ResultsAt(m) == TimeAt(m) + 4 + Len(Optional(m.error))
TablePieces(m) == [i \in 1 .. Len(m.tables) |-> Prefixed(TableBytes(m.tables[i]))]

\* s is at the end of p: a step of the way through a response from its end.
Ends(V, p, s) == IsSeq(p) /\ IsSeq(s) /\ Holds(V, 0, p \o s)

\* Where a sequence ends with s, it holds what comes before it, and s.
LEMMA EndHeld ==
  ASSUME NEW V, NEW p, NEW s, IsSeq(V), Ends(V, p, s)
  PROVE  Holds(V, 0, p) /\ Holds(V, Len(p), s) /\ Len(p \o s) = Len(p) + Len(s)
<1>1. Holds(V, 0, p) /\ Holds(V, 0 + Len(p), s)
  BY HoldsBoth, Zenon DEF Ends
<1>2. Len(p) \in Nat /\ Len(p \o s) = Len(p) + Len(s)
  BY SeqLen, ConcatIs, Zenon DEF Ends
<1>3. 0 + Len(p) = Len(p)
  BY <1>2
<1> QED BY <1>1, <1>2, <1>3, Zenon

\* The tables of a message, each behind its length.
LEMMA TablesAre ==
  ASSUME NEW m \in Message
  PROVE  /\ Len(m.tables) \in Nat /\ DOMAIN m.tables = 1 .. Len(m.tables)
         /\ AllSeqs(TablePieces(m)) /\ Len(TablePieces(m)) = Len(m.tables)
         /\ IsSeq(FlattenSeq(TablePieces(m)))
         /\ \A i \in 1 .. Len(m.tables) : /\ m.tables[i] \in ServedTable
                                          /\ TablePieces(m)[i] = Prefixed(TableBytes(m.tables[i]))
                                          /\ IsSeq(TableBytes(m.tables[i]))
<1> DEFINE n == Len(m.tables)
           q == TablePieces(m)
<1>1. m.tables \in Seq(ServedTable)
  BY ResponseAssumption, Zenon
<1>2. n \in Nat /\ DOMAIN m.tables = 1 .. n /\ \A i \in 1 .. n : m.tables[i] \in ServedTable
  BY <1>1
<1>3. q = [i \in 1 .. n |-> Prefixed(TableBytes(m.tables[i]))]
  BY Zenon DEF TablePieces
<1> HIDE DEF q
<1>4. q = [i \in 1 .. n |-> q[i]]
  BY <1>3, Zenon
<1>5. ASSUME NEW i \in 1 .. n
      PROVE  /\ q[i] = Prefixed(TableBytes(m.tables[i])) /\ IsSeq(q[i])
             /\ IsSeq(TableBytes(m.tables[i]))
  <2>1. IsSeq(TableBytes(m.tables[i]))
    BY <1>2, TableBytesAre, Zenon
  <2> QED BY <1>3, <2>1, PrefixedIs, Zenon
<1> HIDE DEF n
<1>6. AllSeqs(q) /\ Len(q) = n
  BY <1>2, <1>4, <1>5, PartsAre, Zenon
<1>7. IsSeq(FlattenSeq(q))
  BY <1>6, StartIs, Zenon
<1> QED BY <1>2, <1>5, <1>6, <1>7, Zenon DEF n, q

\* Where the parts of a response are.
LEMMA MessageHolds ==
  ASSUME NEW m \in Message
  PROVE  LET V == MessageBytes(m)
         IN  /\ IsSeq(V) /\ Holds(V, 1, Bytes(m.clientData, 8)) /\ Holds(V, 9, Bytes(Present(m), 1))
             /\ Holds(V, 11, Optional(m.status)) /\ Holds(V, AppAt(m), Optional(m.appStatus))
             /\ Holds(V, TimeAt(m) + 4, Optional(m.error))
             /\ Holds(V, ResultsAt(m), Bytes(Len(m.tables), 2))
             /\ Holds(V, ResultsAt(m) + 2, FlattenSeq(TablePieces(m)))
             /\ AppAt(m) \in Nat /\ TimeAt(m) \in Nat /\ ResultsAt(m) \in Nat
<1> DEFINE a1 == Bytes(0, 1)
           a2 == Bytes(m.clientData, 8)
           a3 == Bytes(Present(m), 1)
           a4 == Bytes(1, 1)
           a5 == Optional(m.status)
           a6 == Bytes(0, 1)
           a7 == Optional(m.appStatus)
           a8 == Bytes(0, 4)
           a9 == Optional(m.error)
           a10 == Bytes(Len(m.tables), 2)
           a11 == FlattenSeq(TablePieces(m))
           d2 == a1 \o a2
           d3 == d2 \o a3
           d4 == d3 \o a4
           d5 == d4 \o a5
           d6 == d5 \o a6
           d7 == d6 \o a7
           d8 == d7 \o a8
           d9 == d8 \o a9
           d10 == d9 \o a10
           V == d10 \o a11
<1>1. MessageBytes(m) = V
  <2>1. DOMAIN m.tables = 1 .. Len(m.tables)
    BY TablesAre, Zenon
  <2> QED BY <2>1, Zenon DEF MessageBytes, Concat, TablePieces
<1>2. /\ IsSeq(a1) /\ IsSeq(a2) /\ IsSeq(a3) /\ IsSeq(a4) /\ IsSeq(a6) /\ IsSeq(a8) /\ IsSeq(a10)
      /\ Len(a1) = 1 /\ Len(a2) = 8 /\ Len(a3) = 1 /\ Len(a4) = 1 /\ Len(a6) = 1 /\ Len(a8) = 4
      /\ Len(a10) = 2
  BY BytesIs, Zenon
<1>3. /\ IsSeq(a5) /\ IsSeq(a7) /\ IsSeq(a9)
      /\ Len(a5) \in Nat /\ Len(a7) \in Nat /\ Len(a9) \in Nat
  BY ResponseAssumption, OptionalIs, Zenon
<1>4. IsSeq(a11)
  BY TablesAre, Zenon
<1> HIDE DEF a1, a2, a3, a4, a5, a6, a7, a8, a9, a10, a11
<1>5. IsSeq(d2)
  BY <1>2, ConcatIs, Zenon
<1> HIDE DEF d2
<1>6. IsSeq(d3)
  BY <1>2, <1>5, ConcatIs, Zenon
<1> HIDE DEF d3
<1>7. IsSeq(d4)
  BY <1>2, <1>6, ConcatIs, Zenon
<1> HIDE DEF d4
<1>8. IsSeq(d5)
  BY <1>3, <1>7, ConcatIs, Zenon
<1> HIDE DEF d5
<1>9. IsSeq(d6)
  BY <1>2, <1>8, ConcatIs, Zenon
<1> HIDE DEF d6
<1>10. IsSeq(d7)
  BY <1>3, <1>9, ConcatIs, Zenon
<1> HIDE DEF d7
<1>11. IsSeq(d8)
  BY <1>2, <1>10, ConcatIs, Zenon
<1> HIDE DEF d8
<1>12. IsSeq(d9)
  BY <1>3, <1>11, ConcatIs, Zenon
<1> HIDE DEF d9
<1>13. IsSeq(d10)
  BY <1>2, <1>12, ConcatIs, Zenon
<1> HIDE DEF d10
<1>14. IsSeq(V)
  BY <1>4, <1>13, ConcatIs, Zenon
<1>15. Holds(V, 0, V)
  BY <1>14, HoldsItself, Zenon
<1>16. Ends(V, d10, a11)
  BY <1>4, <1>13, <1>15, Zenon DEF Ends
<1> HIDE DEF V
<1>17. Holds(V, 0, d10) /\ Holds(V, Len(d10), a11)
  BY <1>14, <1>16, EndHeld, Zenon
<1>18. Holds(V, 0, d9) /\ Holds(V, Len(d9), a10) /\ Len(d10) = Len(d9) + Len(a10)
  <2>1. Ends(V, d9, a10)
    BY <1>2, <1>12, <1>17, Zenon DEF Ends, d10
  <2> QED BY <1>14, <2>1, EndHeld, Zenon DEF d10
<1>19. Holds(V, 0, d8) /\ Holds(V, Len(d8), a9) /\ Len(d9) = Len(d8) + Len(a9)
  <2>1. Ends(V, d8, a9)
    BY <1>3, <1>11, <1>18, Zenon DEF Ends, d9
  <2> QED BY <1>14, <2>1, EndHeld, Zenon DEF d9
<1>20. Holds(V, 0, d7) /\ Len(d8) = Len(d7) + Len(a8)
  <2>1. Ends(V, d7, a8)
    BY <1>2, <1>10, <1>19, Zenon DEF Ends, d8
  <2> QED BY <1>14, <2>1, EndHeld, Zenon DEF d8
<1>21. Holds(V, 0, d6) /\ Holds(V, Len(d6), a7) /\ Len(d7) = Len(d6) + Len(a7)
  <2>1. Ends(V, d6, a7)
    BY <1>3, <1>9, <1>20, Zenon DEF Ends, d7
  <2> QED BY <1>14, <2>1, EndHeld, Zenon DEF d7
<1>22. Holds(V, 0, d5) /\ Len(d6) = Len(d5) + Len(a6)
  <2>1. Ends(V, d5, a6)
    BY <1>2, <1>8, <1>21, Zenon DEF Ends, d6
  <2> QED BY <1>14, <2>1, EndHeld, Zenon DEF d6
<1>23. Holds(V, 0, d4) /\ Holds(V, Len(d4), a5) /\ Len(d5) = Len(d4) + Len(a5)
  <2>1. Ends(V, d4, a5)
    BY <1>3, <1>7, <1>22, Zenon DEF Ends, d5
  <2> QED BY <1>14, <2>1, EndHeld, Zenon DEF d5
<1>24. Holds(V, 0, d3) /\ Len(d4) = Len(d3) + Len(a4)
  <2>1. Ends(V, d3, a4)
    BY <1>2, <1>6, <1>23, Zenon DEF Ends, d4
  <2> QED BY <1>14, <2>1, EndHeld, Zenon DEF d4
<1>25. Holds(V, 0, d2) /\ Holds(V, Len(d2), a3) /\ Len(d3) = Len(d2) + Len(a3)
  <2>1. Ends(V, d2, a3)
    BY <1>2, <1>5, <1>24, Zenon DEF Ends, d3
  <2> QED BY <1>14, <2>1, EndHeld, Zenon DEF d3
<1>26. Holds(V, Len(a1), a2) /\ Len(d2) = Len(a1) + Len(a2)
  <2>1. Ends(V, a1, a2)
    BY <1>2, <1>25, Zenon DEF Ends, d2
  <2> QED BY <1>14, <2>1, EndHeld, Zenon DEF d2
<1>27. Len(a1) = 1 /\ Len(d2) = 9 /\ Len(d4) = 11
  BY <1>2, <1>24, <1>25, <1>26
<1>28. Len(d6) = 12 + Len(a5) /\ Len(d6) \in Nat
  BY <1>2, <1>3, <1>22, <1>23, <1>27
<1>29. /\ Len(d7) = (12 + Len(a5)) + Len(a7) /\ Len(d7) \in Nat
       /\ Len(d8) = ((12 + Len(a5)) + Len(a7)) + 4
  BY <1>2, <1>3, <1>20, <1>21, <1>28
<1>30. /\ Len(d9) = ((12 + Len(a5)) + Len(a7)) + 4 + Len(a9) /\ Len(d9) \in Nat
       /\ Len(d10) = (((12 + Len(a5)) + Len(a7)) + 4 + Len(a9)) + 2
  BY <1>2, <1>3, <1>18, <1>19, <1>29
<1>31. /\ Len(d6) = AppAt(m) /\ Len(d7) = TimeAt(m) /\ Len(d8) = TimeAt(m) + 4
       /\ Len(d9) = ResultsAt(m) /\ Len(d10) = ResultsAt(m) + 2
  BY <1>28, <1>29, <1>30, Zenon DEF AppAt, TimeAt, ResultsAt, a5, a7, a9
<1>32. /\ Holds(V, AppAt(m), a7) /\ Holds(V, TimeAt(m) + 4, a9) /\ Holds(V, ResultsAt(m), a10)
       /\ Holds(V, ResultsAt(m) + 2, a11) /\ Holds(V, 11, a5) /\ Holds(V, 9, a3) /\ Holds(V, 1, a2)
  BY <1>17, <1>18, <1>19, <1>21, <1>23, <1>25, <1>26, <1>27, <1>31, Zenon
<1>33. AppAt(m) \in Nat /\ TimeAt(m) \in Nat /\ ResultsAt(m) \in Nat
  BY <1>28, <1>29, <1>30, <1>31, Zenon
<1> QED BY <1>1, <1>14, <1>32, <1>33, Zenon DEF a2, a3, a5, a7, a9, a10, a11

\* The buffer as each table is sliced from it.
BufferAt(mem, w, results, n) ==
  CHOOSE b : b = [i \in 1 .. n |->
                    IF i = 1 THEN Limited(mem, [w EXCEPT !.position = results + 2])
                    ELSE Limited(mem, [Sliced(b[i - 1]) EXCEPT !.limit = w.limit])]

\* InvocationResponse(data, length) slices out each of the tables.
LEMMA TablesRead ==
  ASSUME NEW m \in Message, NEW i \in 1 .. Len(m.tables)
  PROVE  LET mem == MessageBytes(m)
             w == Window(0, Len(mem))
         IN  TableShows(TableOf(mem, Slice(BufferAt(mem, w, ResultsAt(m), Len(m.tables))[i])),
                        m.tables[i])
<1> DEFINE mem == MessageBytes(m)
           w == Window(0, Len(mem))
           n == Len(m.tables)
           q == TablePieces(m)
           at == ResultsAt(m) + 2
           Eq(f) == f = [k \in 1 .. n |->
                      IF k = 1 THEN Limited(mem, [w EXCEPT !.position = at])
                      ELSE Limited(mem, [Sliced(f[k - 1]) EXCEPT !.limit = w.limit])]
           b(k) == [w EXCEPT !.position = at + Start(q, k)]
           x == [k \in 1 .. n |-> Limited(mem, b(k))]
           r == BufferAt(mem, w, ResultsAt(m), n)
<1>0. /\ n \in Nat /\ AllSeqs(q) /\ Len(q) = n
      /\ \A k \in 1 .. n : /\ m.tables[k] \in ServedTable /\ q[k] = Prefixed(TableBytes(m.tables[k]))
                           /\ IsSeq(TableBytes(m.tables[k]))
  BY TablesAre, Zenon
<1>1. IsSeq(mem) /\ Holds(mem, at, FlattenSeq(q)) /\ ResultsAt(m) \in Nat
  BY MessageHolds, Zenon
<1>2. at \in Nat
  BY <1>1
<1>3. Shows(mem, w, mem)
  BY <1>1, WholeShown, Zenon
<1>4. /\ Start(q, 1) = 0
      /\ \A k \in 1 .. n + 1 : Start(q, k) \in Nat
      /\ \A k \in 1 .. n : Start(q, k + 1) = Start(q, k) + Len(q[k])
  BY <1>0, StartIs, Zenon
<1> HIDE DEF mem, w, n, q, at
<1>5. \A k \in 1 .. n : Holds(mem, at + Start(q, k), q[k])
  BY <1>0, <1>1, HoldsParts, Zenon
<1>6. ASSUME NEW k \in 1 .. n
      PROVE  /\ Shows(mem, Slice(x[k]), TableBytes(m.tables[k]))
             /\ [Sliced(x[k]) EXCEPT !.limit = w.limit] = b(k + 1)
  <2> DEFINE e == b(k)
             tb == TableBytes(m.tables[k])
  <2>1. Shows(mem, e, mem) /\ e.position = at + Start(q, k) /\ e.limit = w.limit
    <3>1. Moved(e, w, at + Start(q, k))
      BY Zenon DEF Moved
    <3> HIDE DEF e
    <3> QED BY <1>3, <3>1, ShowsMoved
  <2>2. IsSeq(tb) /\ q[k] = Prefixed(tb)
    BY <1>0, Zenon
  <2>3. Holds(mem, e.position, Prefixed(tb))
    BY <1>5, <2>1, <2>2, Zenon
  <2>4. [e EXCEPT !.position = (at + Start(q, k)) + Len(q[k])] = b(k + 1)
    <3>1. (at + Start(q, k)) + Len(q[k]) = at + Start(q, k + 1)
      <4>1. Start(q, k) \in Nat /\ Start(q, k + 1) = Start(q, k) + Len(q[k])
        BY <1>0, <1>4
      <4>2. Len(q[k]) \in Nat
        BY <1>0, SeqLen, Zenon DEF AllSeqs
      <4> QED BY <1>2, <4>1, <4>2
    <3>2. [e EXCEPT !.position = at + Start(q, k + 1)] = b(k + 1)
      BY Zenon
    <3> QED BY <3>1, <3>2, Zenon
  <2> HIDE DEF e, tb
  <2>5. /\ Shows(mem, Slice(Limited(mem, e)), tb)
        /\ [Sliced(Limited(mem, e)) EXCEPT !.limit = e.limit]
             = [e EXCEPT !.position = e.position + Len(Prefixed(tb))]
    <3>1. Cuts(mem, e, tb)
      BY <2>1, <2>2, <2>3, LimitedIs, Zenon
    <3> QED BY <3>1, Zenon DEF Cuts
  <2>6. x[k] = Limited(mem, e)
    BY Zenon DEF e
  <2> HIDE DEF x, b
  <2>7. [Sliced(x[k]) EXCEPT !.limit = w.limit] = b(k + 1)
    BY <2>1, <2>2, <2>4, <2>5, <2>6, Zenon
  <2> QED BY <2>5, <2>6, <2>7, Zenon DEF tb
<1>7. Eq(x)
  <2>1. ASSUME NEW k \in 1 .. n
        PROVE  x[k] = IF k = 1 THEN Limited(mem, [w EXCEPT !.position = at])
                      ELSE Limited(mem, [Sliced(x[k - 1]) EXCEPT !.limit = w.limit])
    <3>0. x[k] = Limited(mem, b(k))
      BY Zenon
    <3>1. CASE k = 1
      <4>1. at + Start(q, 1) = at
        BY <1>2, <1>4
      <4> QED BY <3>0, <3>1, <4>1, Zenon
    <3>2. CASE k # 1
      <4>1. k - 1 \in 1 .. n /\ (k - 1) + 1 = k
        BY <1>0, <3>2
      <4> HIDE DEF x, b
      <4>2. [Sliced(x[k - 1]) EXCEPT !.limit = w.limit] = b((k - 1) + 1)
        BY <1>6, <4>1, Zenon
      <4> QED BY <3>0, <3>2, <4>1, <4>2, Zenon
    <3> QED BY <3>1, <3>2, Zenon
  <2>2. x = [k \in 1 .. n |-> x[k]]
    BY Zenon
  <2> HIDE DEF x
  <2> QED BY <2>1, <2>2, Zenon
<1> HIDE DEF x
<1>8. Eq(r)
  <2>1. r = CHOOSE f : Eq(f)
    BY Zenon DEF BufferAt, at
  <2> HIDE DEF Eq, r
  <2> QED BY <1>7, <2>1, Zenon
<1> HIDE DEF r
<1>9. Alike(r, x, 1, n)
  <2>1. ASSUME NEW k \in 1 .. n PROVE /\ k = 1 => r[k] = x[k]
                                      /\ k # 1 /\ r[k - 1] = x[k - 1] => r[k] = x[k]
    <3>1. r[k] = IF k = 1 THEN Limited(mem, [w EXCEPT !.position = at])
                 ELSE Limited(mem, [Sliced(r[k - 1]) EXCEPT !.limit = w.limit])
      BY <1>8, Zenon
    <3>2. x[k] = IF k = 1 THEN Limited(mem, [w EXCEPT !.position = at])
                 ELSE Limited(mem, [Sliced(x[k - 1]) EXCEPT !.limit = w.limit])
      BY <1>7, Zenon
    <3> HIDE DEF Eq
    <3> QED BY <3>1, <3>2, Zenon
  <2>2. \A k \in 1 + 1 .. n : k \in 1 .. n /\ k # 1
    BY <1>0
  <2>3. 1 <= n => 1 \in 1 .. n
    BY <1>0
  <2>4. GoAlike(r, x, 1, n)
    BY <2>1, <2>2, <2>3, Zenon DEF GoAlike
  <2> QED BY <1>0, <2>4, Agreement, Zenon
<1>10. i \in 1 .. n
  BY Zenon DEF n
<1>11. r[i] = x[i]
  BY <1>9, <1>10, Zenon DEF Alike
<1>12. Shows(mem, Slice(r[i]), TableBytes(m.tables[i])) /\ m.tables[i] \in ServedTable
  BY <1>0, <1>6, <1>10, <1>11, Zenon
<1>13. TableShows(TableOf(mem, Slice(r[i])), m.tables[i])
  BY <1>12, TableRead, Zenon
<1> QED BY <1>13, Zenon DEF mem, w, n, r

ResponseShows(r, m) ==
  /\ DOMAIN r = {"m_clientData", "m_statusString", "m_appStatusString", "m_results"}
  /\ r.m_clientData = m.clientData
  /\ r.m_statusString = m.status
  /\ r.m_appStatusString = m.appStatus
  /\ DOMAIN r.m_results = 1 .. Len(m.tables)
  /\ \A k \in 1 .. Len(m.tables) : TableShows(r.m_results[k], m.tables[k])

\* InvocationResponse(data, length) makes of the bytes of a response the response
\* that was sent.
LEMMA ResponseRead ==
  ASSUME NEW m \in Message
  PROVE  ResponseShows(ResponseOf(MessageBytes(m)), m)
<1> DEFINE mem == MessageBytes(m)
           w == Window(0, Len(mem))
           present == GetAt(mem, w, 9, 1)
           app == (IF Bit(present, 32) THEN AfterString(mem, w, 11) ELSE 11) + 1
           time == IF Bit(present, 128) THEN AfterString(mem, w, app) ELSE app
           results == AfterError(mem, w, present, time + 4)
           n == GetAt(mem, w, results, 2)
           b == BufferAt(mem, w, results, n)
           r == ResponseOf(mem)
<1>0. /\ IsSeq(mem) /\ Holds(mem, 1, Bytes(m.clientData, 8)) /\ Holds(mem, 9, Bytes(Present(m), 1))
      /\ Holds(mem, 11, Optional(m.status)) /\ Holds(mem, AppAt(m), Optional(m.appStatus))
      /\ Holds(mem, TimeAt(m) + 4, Optional(m.error))
      /\ Holds(mem, ResultsAt(m), Bytes(Len(m.tables), 2))
      /\ TimeAt(m) \in Nat
  BY MessageHolds, Zenon
<1>1. r = [m_clientData |-> GetAt(mem, w, 1, 8),
           m_statusString |-> IF Bit(present, 32) THEN GetString(mem, w, 11) ELSE None,
           m_appStatusString |-> IF Bit(present, 128) THEN GetString(mem, w, app) ELSE None,
           m_results |-> [i \in 1 .. n |-> TableOf(mem, Slice(b[i]))]]
  BY Zenon DEF ResponseOf, BufferAt
<1>2. IsView(mem, w) /\ View(mem, w) = mem
  BY <1>0, WholeShown, Zenon DEF Shows
<1>3. /\ m.status \in Value \cup {None} /\ m.appStatus \in Value \cup {None}
      /\ m.error \in Value \cup {None}
  BY ResponseAssumption, Zenon
<1>4. /\ Len(Optional(m.status)) \in Nat /\ Len(Optional(m.appStatus)) \in Nat
      /\ Len(Optional(m.error)) \in Nat
  BY <1>3, OptionalIs, Zenon
<1>5. \A i \in 1 .. Len(m.tables) :
        TableShows(TableOf(mem, Slice(BufferAt(mem, w, ResultsAt(m), Len(m.tables))[i])), m.tables[i])
  BY TablesRead, Zenon
<1> HIDE DEF mem, w, r
<1>6. GetAt(mem, w, 9, 1) = Present(m) /\ GetAt(mem, w, 1, 8) = m.clientData
  BY <1>0, <1>2, GetAtHeld
<1>7. /\ Bit(present, 32) <=> m.status # None
      /\ Bit(present, 64) <=> m.error # None
      /\ Bit(present, 128) <=> m.appStatus # None
  BY <1>6, BitsAre
<1> HIDE DEF present
<1>8. /\ (IF Bit(present, 32) THEN GetString(mem, w, 11) ELSE None) = m.status
      /\ (IF Bit(present, 32) THEN AfterString(mem, w, 11) ELSE 11) = 11 + Len(Optional(m.status))
  <2>1. Found(mem, w, 11, m.status)
    BY <1>0, <1>2, <1>3, OptionRead, Zenon
  <2> QED BY <1>7, <2>1, Zenon DEF Found
<1>9. app = AppAt(m)
  BY <1>4, <1>8 DEF AppAt
<1> HIDE DEF app
<1>10. /\ (IF Bit(present, 128) THEN GetString(mem, w, app) ELSE None) = m.appStatus
       /\ (IF Bit(present, 128) THEN AfterString(mem, w, app) ELSE app)
            = app + Len(Optional(m.appStatus))
  <2>1. Found(mem, w, app, m.appStatus)
    BY <1>0, <1>2, <1>3, <1>9, OptionRead, Zenon
  <2> QED BY <1>7, <2>1 DEF Found
<1>11. time = TimeAt(m)
  BY <1>9, <1>10, Zenon DEF TimeAt
<1> HIDE DEF time
<1>12. results = ResultsAt(m)
  <2> DEFINE at == TimeAt(m) + 4
  <2>1. Skipped(mem, w, at, m.error)
    BY <1>0, <1>2, <1>3, ErrorRead, Zenon
  <2> HIDE DEF at
  <2>2. AfterError(mem, w, present, at) = at + Len(Optional(m.error))
    BY <1>7, <2>1, Zenon DEF AfterError, Skipped
  <2> QED BY <1>11, <2>2, Zenon DEF at, ResultsAt
<1> HIDE DEF results
<1>13. n = Len(m.tables)
  BY <1>0, <1>2, <1>12, GetAtHeld
<1> HIDE DEF n
<1> DEFINE T(i) == TableOf(mem, Slice(b[i]))
           f == [i \in 1 .. n |-> T(i)]
<1>14. ASSUME NEW i \in 1 .. Len(m.tables) PROVE TableShows(f[i], m.tables[i])
  <2>1. TableShows(T(i), m.tables[i])
    BY <1>5, <1>12, <1>13, Zenon
  <2>2. f[i] = T(i)
    BY <1>13, Zenon
  <2> QED BY <2>1, <2>2, Zenon
<1>15. DOMAIN f = 1 .. Len(m.tables)
  BY <1>13, Zenon
<1>16. r = [m_clientData |-> m.clientData, m_statusString |-> m.status,
            m_appStatusString |-> m.appStatus, m_results |-> f]
  BY <1>1, <1>6, <1>8, <1>10, Zenon
<1> HIDE DEF f
<1>17. /\ DOMAIN r = {"m_clientData", "m_statusString", "m_appStatusString", "m_results"}
       /\ r.m_clientData = m.clientData /\ r.m_statusString = m.status
       /\ r.m_appStatusString = m.appStatus /\ r.m_results = f
  BY <1>16, Zenon
<1>18. ResponseShows(r, m)
  BY <1>14, <1>15, <1>17, Zenon DEF ResponseShows
<1> QED BY <1>18, Zenon DEF r, mem

-----------------------------------------------------------------------------
(* A row: where its columns are, and what they hold.                         *)

\* The offsets of the columns of row j, from the start of the row.
Placed(offsets, t, j) ==
  \A c \in 1 .. Len(t.columns) : offsets[c] = Start(Fields(t.columns, t.rows[j]), c)

\* What Row::ensureCalculatedOffsets adds for one column.
After(r, type, at) == IF type \in Sized THEN AfterString(r.mem, r.m_data, at) ELSE at + Width(type)

\* What a read finds in a column of that type.
Stored(type, v) == IF type \in Sized THEN v ELSE Number(type, v)

\* What a getter gives back of a value that was sent.
Shown(type, v) == IF v # NullValue THEN v
                  ELSE IF type = WIRE_TYPE_STRING THEN Empty ELSE Least[type]

\* At the offset of column c is its value, and behind that the next column.
ColumnShown(r, getter, t, j, c) ==
  LET at == Start(Fields(t.columns, t.rows[j]), c)
      type == t.columns[c].type
  IN  /\ ColumnValue(r, getter, type, at) = Stored(type, t.rows[j][c])
      /\ After(r, type, at) = Start(Fields(t.columns, t.rows[j]), c + 1)

\* A getter at the offset of its column gets the value that was sent.
LEMMA ColumnAt ==
  ASSUME NEW t \in ServedTable, NEW j \in 1 .. Len(t.rows), NEW r, NEW c \in 1 .. Len(t.columns),
         Shows(r.mem, r.m_data, RowBytes(t.columns, t.rows[j])), NEW getter
  PROVE  ColumnShown(r, getter, t, j, c)
<1> DEFINE n == Len(t.columns)
           q == Fields(t.columns, t.rows[j])
           type == t.columns[c].type
           v == t.rows[j][c]
           V == View(r.mem, r.m_data)
           at == Start(q, c)
<1>0. /\ AllSeqs(q) /\ Len(q) = n /\ q[c] = Field(type, v)
      /\ RowBytes(t.columns, t.rows[j]) = FlattenSeq(q)
      /\ IsSeq(RowBytes(t.columns, t.rows[j]))
  BY RowIs, Zenon
<1>1. IsView(r.mem, r.m_data) /\ V = FlattenSeq(q) /\ IsSeq(V)
  BY <1>0, Zenon DEF Shows
<1>2. type \in WireTypes /\ v \in Value \cup {NullValue}
  BY ServedIs, Zenon
<1>3. n \in Nat
  BY ServedIs, Zenon
<1> HIDE DEF n, q, type, v, V
<1>4. c \in 1 .. n
  BY Zenon DEF n
<1>5. at \in Nat /\ Start(q, c + 1) = at + Len(q[c])
  <2>1. c \in 1 .. n + 1
    BY <1>3, <1>4
  <2> QED BY <1>0, <1>4, <2>1, StartIs, Zenon
<1>6. Holds(V, 0 + at, Field(type, v))
  <2>1. Holds(V, 0, FlattenSeq(q))
    BY <1>1, HoldsItself, Zenon
  <2> QED BY <1>0, <1>1, <1>4, <2>1, HoldsParts, Zenon
<1>7. Holds(V, at, Field(type, v))
  <2> HIDE DEF at
  <2>1. 0 + at = at
    BY <1>5
  <2> QED BY <1>6, <2>1, Zenon
<1> HIDE DEF at
<1>8. CASE type \in Sized
  <2>1. Field(type, v) = String(v)
    BY <1>8, Zenon DEF Field
  <2>2. /\ GetString(r.mem, r.m_data, at) = v
        /\ AfterString(r.mem, r.m_data, at) = at + Len(String(v))
    BY <1>1, <1>2, <1>7, <2>1, GetStringHeld, Zenon DEF V
  <2>3. ColumnValue(r, getter, type, at) = Stored(type, v)
    BY <1>8, <2>2, Zenon DEF ColumnValue, Stored
  <2>4. After(r, type, at) = Start(q, c + 1)
    BY <1>0, <1>5, <1>8, <2>1, <2>2, Zenon DEF After
  <2> QED BY <2>3, <2>4, Zenon DEF ColumnShown, q, type, v, at
<1>9. CASE type \notin Sized
  <2>1. /\ Field(type, v) = Bytes(Number(type, v), Width(type))
        /\ Len(Field(type, v)) = Width(type) /\ Width(type) \in Nat \ {0}
    BY <1>2, <1>9, FieldIs, WidthIs, Zenon
  <2>2. GetAt(r.mem, r.m_data, at, Width(type)) = Number(type, v)
    BY <1>1, <1>7, <2>1, GetAtHeld DEF V
  <2>3. ColumnValue(r, getter, type, at) = Stored(type, v)
    BY <1>9, <2>2, Zenon DEF ColumnValue, Stored
  <2>4. After(r, type, at) = Start(q, c + 1)
    BY <1>0, <1>5, <1>9, <2>1, Zenon DEF After
  <2> QED BY <2>3, <2>4, Zenon DEF ColumnShown, q, type, v, at
<1> QED BY <1>8, <1>9, Zenon

\* Row::ensureCalculatedOffsets finds every column of the row.
LEMMA OffsetsRead ==
  ASSUME NEW t \in ServedTable, NEW j \in 1 .. Len(t.rows), NEW r, r.m_columns = t.columns,
         Shows(r.mem, r.m_data, RowBytes(t.columns, t.rows[j])), r.m_data.position = 0
  PROVE  Placed(Offsets(r), t, j)
<1> DEFINE n == Len(t.columns)
           q == Fields(t.columns, t.rows[j])
           type(k) == t.columns[k].type
           Eq(f) == f = [k \in 1 .. n |-> IF k = 1 THEN 0 ELSE After(r, type(k - 1), f[k - 1])]
           x == [k \in 1 .. n |-> Start(q, k)]
           o == Offsets(r)
<1>0. n \in Nat /\ DOMAIN t.columns = 1 .. n
  BY ServedIs, Zenon
<1>1. o = CHOOSE f : Eq(f)
  BY <1>0 DEF Offsets, After
<1>2. AllSeqs(q) /\ Len(q) = n
  BY RowIs, Zenon
<1>3. \A k \in 1 .. n : After(r, type(k), Start(q, k)) = Start(q, k + 1)
  <2>1. \A k \in 1 .. n : ColumnShown(r, 0, t, j, k)
    BY ColumnAt, Zenon
  <2> QED BY <2>1, Zenon DEF ColumnShown
<1> HIDE DEF q, n, type
<1>4. Start(q, 1) = 0
  BY <1>2, StartIs, Zenon
<1>5. Eq(x)
  <2>1. ASSUME NEW k \in 1 .. n
        PROVE  x[k] = IF k = 1 THEN 0 ELSE After(r, type(k - 1), x[k - 1])
    <3>1. CASE k = 1
      BY <1>4, <3>1, Zenon
    <3>2. CASE k # 1
      <4>1. k - 1 \in 1 .. n /\ (k - 1) + 1 = k
        BY <1>0, <3>2
      <4>2. x[k - 1] = Start(q, k - 1) /\ x[k] = Start(q, k)
        BY <4>1, Zenon
      <4>3. After(r, type(k - 1), Start(q, k - 1)) = Start(q, (k - 1) + 1)
        BY <1>3, <4>1, Zenon
      <4> QED BY <3>2, <4>1, <4>2, <4>3, Zenon
    <3> QED BY <3>1, <3>2, Zenon
  <2>2. x = [k \in 1 .. n |-> x[k]]
    OBVIOUS
  <2> HIDE DEF x
  <2> QED BY <2>1, <2>2, Zenon
<1>6. Eq(o)
  <2> HIDE DEF Eq, o
  <2> QED BY <1>1, <1>5, Zenon
<1> HIDE DEF o
<1>7. Alike(o, x, 1, n)
  <2>1. ASSUME NEW k \in 1 .. n PROVE /\ k = 1 => o[k] = x[k]
                                      /\ k # 1 /\ o[k - 1] = x[k - 1] => o[k] = x[k]
    <3> HIDE DEF x
    <3>1. o[k] = IF k = 1 THEN 0 ELSE After(r, type(k - 1), o[k - 1])
      BY <1>6, Zenon
    <3>2. x[k] = IF k = 1 THEN 0 ELSE After(r, type(k - 1), x[k - 1])
      BY <1>5, Zenon
    <3> HIDE DEF Eq
    <3> QED BY <3>1, <3>2, Zenon
  <2>2. \A k \in 1 + 1 .. n : k \in 1 .. n /\ k # 1
    BY <1>0
  <2>3. 1 <= n => 1 \in 1 .. n
    BY <1>0
  <2> HIDE DEF x
  <2>4. GoAlike(o, x, 1, n)
    BY <2>1, <2>2, <2>3, Zenon DEF GoAlike
  <2> QED BY <1>0, <2>4, Agreement, Zenon
<1>8. ASSUME NEW c \in 1 .. n PROVE o[c] = Start(q, c)
  BY <1>7, Zenon DEF Alike
<1> QED BY <1>8, Zenon DEF Placed, n, q, o

-----------------------------------------------------------------------------
(* The inductive invariant: every window the application holds shows the     *)
(* part of the message that it stands for.                                   *)

\* An iterator shows the rows of its table and stands in front of the next one.
IterShows(it, m) ==
  LET t == m.tables[it.table]
  IN  /\ DOMAIN it = {"mem", "m_buffer", "table", "m_columns", "m_rowCount", "m_currentRow"}
      /\ it.table \in 1 .. Len(m.tables) /\ it.m_columns = t.columns
      /\ it.m_rowCount = Len(t.rows) /\ it.m_currentRow \in 0 .. Len(t.rows)
      /\ Shows(it.mem, it.m_buffer, Rows(t))
      /\ it.m_buffer.position = Start(RowPieces(t), it.m_currentRow + 1)

\* A row shows its row of the table; the offsets, once counted, are those of its
\* columns; wasNull() is about the column read last, and what was got is its value.
RowShows(r, m, v) ==
  LET t == m.tables[r.table]
  IN  /\ DOMAIN r = {"mem", "m_data", "m_columns", "m_offsets", "m_wasNull", "last", "table", "number"}
      /\ r.table \in 1 .. Len(m.tables) /\ r.number \in 1 .. Len(t.rows)
      /\ r.m_columns = t.columns
      /\ Shows(r.mem, r.m_data, RowBytes(t.columns, t.rows[r.number])) /\ r.m_data.position = 0
      /\ r.m_offsets # None => Placed(r.m_offsets, t, r.number)
      /\ r.m_wasNull <=> r.last # 0 /\ t.rows[r.number][r.last] = NullValue
      /\ v # None => v = Shown(t.columns[r.last].type, t.rows[r.number][r.last])

ResponseInv ==
  /\ answer \in Message
  /\ response # None => ResponseShows(response, answer)
  /\ DOMAIN iter = Iterator /\ \A i \in Iterator : iter[i] # None => IterShows(iter[i], answer)
  /\ (row = None /\ got = None) \/ RowShows(row, answer, got)

\* The table is unchanged wherever the position of its own buffer is moved to.
LEMMA TableMoved ==
  ASSUME NEW r, NEW t, TableShows(r, t), NEW p
  PROVE  TableShows([r EXCEPT !.m_buffer = [r.m_buffer EXCEPT !.position = p]], t)
<1> DEFINE v == [r.m_buffer EXCEPT !.position = p]
           s == [r EXCEPT !.m_buffer = v]
<1>1. Moved(v, r.m_buffer, p)
  BY Zenon DEF Moved
<1> HIDE DEF v
<1>2. Shows(r.mem, v, TableBytes(t)) /\ v.limit = r.m_buffer.limit
  BY <1>1, ShowsMoved DEF TableShows
<1>3. /\ DOMAIN s = DOMAIN r /\ s.mem = r.mem /\ s.m_buffer = v /\ s.m_columns = r.m_columns
      /\ s.m_rowCount = r.m_rowCount /\ s.m_rowStart = r.m_rowStart
  BY Zenon DEF TableShows
<1> HIDE DEF s
<1>4. TableShows(s, t)
  BY <1>2, <1>3, Zenon DEF TableShows
<1> QED BY <1>4, Zenon DEF s, v

\* A copy of a table through a stream.
LEMMA CopiedShows ==
  ASSUME NEW r, NEW t \in ServedTable, TableShows(r, t)
  PROVE  TableShows(Copied(r), t)
<1> DEFINE w == r.m_buffer
           mem == SubSeq(r.mem, w.base + 1, w.base + w.limit)
<1>1. Shows(r.mem, w, TableBytes(t))
  BY Zenon DEF TableShows
<1>2. mem = TableBytes(t)
  BY <1>1, Zenon DEF Shows, View
<1>3. Len(TableBytes(t)) = w.limit /\ IsSeq(TableBytes(t))
  BY <1>1, ViewIs DEF Shows
<1>4. Copied(r) = TableOf(mem, Window(0, w.limit))
  BY Zenon DEF Copied
<1> HIDE DEF mem, w
<1>5. Shows(mem, Window(0, Len(mem)), mem)
  BY <1>2, <1>3, WholeShown, Zenon
<1>6. Shows(mem, Window(0, w.limit), TableBytes(t))
  BY <1>2, <1>3, <1>5, Zenon
<1>7. TableShows(TableOf(mem, Window(0, w.limit)), t)
  BY <1>6, TableRead, Zenon
<1> QED BY <1>4, <1>7, Zenon

\* The slice that Table::iterator() makes.
LEMMA RowsShown ==
  ASSUME NEW r, NEW t \in ServedTable, TableShows(r, t)
  PROVE  LET at == [r.m_buffer EXCEPT !.position = r.m_rowStart + 4]
         IN  /\ Shows(r.mem, Slice(at), Rows(t)) /\ Slice(at).position = 0
             /\ Sliced(at) = [r.m_buffer EXCEPT !.position = r.m_buffer.limit]
<1> DEFINE b == r.m_buffer
           p == r.m_rowStart + 4
           at == [b EXCEPT !.position = p]
           n == Len(Rows(t))
<1>0. /\ DOMAIN b = {"base", "position", "limit", "capacity"} /\ IsView(r.mem, b)
      /\ View(r.mem, b) = TableBytes(t) /\ Holds(TableBytes(t), p, Rows(t))
      /\ r.m_rowStart \in Nat /\ p + n = b.limit
  BY Zenon DEF TableShows, Shows
<1>1. IsSeq(Rows(t)) /\ n \in Nat /\ p \in Nat /\ b.base \in Nat
  BY <1>0, RowsAre, SeqLen DEF IsView
<1> HIDE DEF b, p, n
<1>2. at.base = b.base /\ at.position = p /\ at.limit = b.limit
  BY <1>0, Zenon
<1>3. Sliced(at) = [b EXCEPT !.position = b.limit]
  BY <1>0, <1>2, Zenon DEF Sliced
<1> HIDE DEF at
<1>4. at.base + at.position = b.base + p /\ at.limit - at.position = n
  BY <1>0, <1>1, <1>2
<1>5. Slice(at) = Window(b.base + p, n)
  BY <1>4, Zenon DEF Slice
<1> DEFINE v == Slice(at)
<1>6. /\ DOMAIN v = {"base", "position", "limit", "capacity"} /\ v.position = 0
      /\ v.base = b.base + p /\ v.limit = n
  BY <1>5 DEF Window
<1> HIDE DEF v
<1>7. IsView(r.mem, v) /\ View(r.mem, v) = Rows(t)
  BY <1>0, <1>1, <1>6, SliceShows DEF n
<1>8. Shows(r.mem, v, Rows(t)) /\ v.position = 0
  BY <1>6, <1>7, Zenon DEF Shows
<1> QED BY <1>3, <1>8, Zenon DEF v, at, b, p

\* A table of a message is a table that the server may send.
LEMMA SentTable ==
  ASSUME NEW m \in Message, NEW k \in 1 .. Len(m.tables)
  PROVE  m.tables[k] \in ServedTable
BY TablesAre, Zenon

\* TableIterator::next(): the row counted to, and the iterator in front of the
\* one after it.
LEMMA NextRowIs ==
  ASSUME NEW m \in Message, NEW it, IterShows(it, m), it.m_currentRow < it.m_rowCount, NEW new,
         new = [mem |-> it.mem, m_data |-> Slice(Limited(it.mem, it.m_buffer)),
                m_columns |-> it.m_columns, m_offsets |-> None, m_wasNull |-> FALSE,
                last |-> 0, table |-> it.table, number |-> it.m_currentRow + 1],
         NEW on, on = [it EXCEPT !.m_buffer = PastRow(it, Limited(it.mem, it.m_buffer)),
                                 !.m_currentRow = it.m_currentRow + 1]
  PROVE  RowShows(new, m, None) /\ IterShows(on, m)
<1> DEFINE t == m.tables[it.table]
           q == RowPieces(t)
           j == it.m_currentRow + 1
           b == it.m_buffer
           bytes == RowBytes(t.columns, t.rows[j])
           l == Limited(it.mem, b)
<1>0. /\ DOMAIN it = {"mem", "m_buffer", "table", "m_columns", "m_rowCount", "m_currentRow"}
      /\ it.table \in 1 .. Len(m.tables) /\ it.m_columns = t.columns
      /\ it.m_rowCount = Len(t.rows) /\ it.m_currentRow \in 0 .. Len(t.rows)
      /\ Shows(it.mem, b, Rows(t)) /\ b.position = Start(q, j)
  BY Zenon DEF IterShows
<1>1. t \in ServedTable
  BY <1>0, SentTable, Zenon
<1> HIDE DEF t
<1>2. /\ AllSeqs(q) /\ Len(q) = Len(t.rows) /\ IsSeq(Rows(t))
      /\ \A k \in 1 .. Len(t.rows) : /\ q[k] = Prefixed(RowBytes(t.columns, t.rows[k]))
                                     /\ IsSeq(RowBytes(t.columns, t.rows[k]))
  BY <1>1, RowsAre, Zenon
<1>3. Len(t.rows) \in Nat
  BY <1>1, ServedIs, Zenon
<1>4. j \in 1 .. Len(t.rows) /\ j \in 0 .. Len(t.rows)
  BY <1>0, <1>3
<1>5. IsSeq(bytes) /\ q[j] = Prefixed(bytes)
  BY <1>2, <1>4, Zenon
<1> HIDE DEF q, j, bytes, b
<1>6. Holds(Rows(t), 0 + Start(q, j), q[j])
  <2>1. Holds(Rows(t), 0, FlattenSeq(q))
    BY <1>2, HoldsItself, Zenon DEF Rows, q
  <2> QED BY <1>2, <1>4, <2>1, HoldsParts, Zenon
<1>7. Start(q, j) \in Nat /\ Start(q, j + 1) = Start(q, j) + Len(q[j])
  <2>1. j \in 1 .. Len(t.rows) + 1
    BY <1>3, <1>4
  <2> QED BY <1>2, <1>4, <2>1, StartIs, Zenon
<1>8. Holds(Rows(t), b.position, Prefixed(bytes))
  <2>1. 0 + Start(q, j) = Start(q, j)
    BY <1>7
  <2> QED BY <1>0, <1>5, <1>6, <2>1, Zenon
<1>9. Cuts(it.mem, b, bytes)
  BY <1>0, <1>5, <1>8, LimitedIs, Zenon
<1>10. PastRow(it, l) = [b EXCEPT !.position = Start(q, j + 1)]
  <2>1. [Sliced(l) EXCEPT !.limit = b.limit] = [b EXCEPT !.position = b.position + Len(Prefixed(bytes))]
    BY <1>9, Zenon DEF Cuts
  <2>2. b.position + Len(Prefixed(bytes)) = Start(q, j + 1)
    BY <1>0, <1>5, <1>7, Zenon
  <2> HIDE DEF l
  <2> QED BY <2>1, <2>2, Zenon DEF PastRow, b
<1>11. Shows(it.mem, Slice(l), bytes) /\ Slice(l).position = 0
  BY <1>9, Zenon DEF Cuts
<1> HIDE DEF l
<1>12. /\ DOMAIN new = {"mem", "m_data", "m_columns", "m_offsets", "m_wasNull", "last", "table", "number"}
       /\ new.mem = it.mem /\ new.m_data = Slice(l) /\ new.m_columns = it.m_columns
       /\ new.m_offsets = None /\ new.m_wasNull = FALSE /\ new.last = 0 /\ new.table = it.table /\ new.number = j
  BY Zenon DEF l, j, b
<1>13. RowShows(new, m, None)
  <2>1. m.tables[new.table] = t
    BY <1>12, Zenon DEF t
  <2> QED BY <1>0, <1>4, <1>11, <1>12, <2>1, Zenon DEF RowShows, bytes
<1> DEFINE v == PastRow(it, l)
<1>14. Moved(v, b, Start(q, j + 1))
  BY <1>10, Zenon DEF Moved
<1> HIDE DEF v
<1>15. Shows(it.mem, v, Rows(t)) /\ v.position = Start(q, j + 1)
  BY <1>0, <1>14, ShowsMoved
<1>16. /\ DOMAIN on = DOMAIN it /\ on.mem = it.mem /\ on.table = it.table
       /\ on.m_columns = it.m_columns /\ on.m_rowCount = it.m_rowCount
       /\ on.m_buffer = v /\ on.m_currentRow = j
  <2>1. on = [it EXCEPT !.m_buffer = v, !.m_currentRow = j]
    BY Zenon DEF v, l, j, b
  <2> QED BY <1>0, <2>1, Zenon
<1>17. IterShows(on, m)
  <2>1. m.tables[on.table] = t
    BY <1>16, Zenon DEF t
  <2> QED BY <1>0, <1>4, <1>15, <1>16, <2>1, Zenon DEF IterShows, q
<1> QED BY <1>13, <1>17, Zenon

\* The test for null holds of exactly the nulls, and what is returned, if anything,
\* is what Shown says.
LEMMA ReadIs ==
  ASSUME NEW type \in WireTypes, NEW v \in Value \cup {NullValue}, NEW room,
         Returned(type, Stored(type, v), room) # None
  PROVE  Returned(type, Stored(type, v), room) = Shown(type, v)
<1>1. type = WIRE_TYPE_VARBINARY => v # NullValue
  <2> SUFFICES ASSUME type = WIRE_TYPE_VARBINARY, v = NullValue PROVE FALSE
    OBVIOUS
  <2>1. Stored(type, v) = NullValue
    BY Zenon DEF Stored, Sized
  <2> QED BY <2>1, Zenon DEF Returned
<1>2. CASE type = WIRE_TYPE_VARBINARY
  <2>1. Stored(type, v) = v
    BY <1>2, Zenon DEF Stored, Sized
  <2>2. type # WIRE_TYPE_STRING
    BY <1>2 DEF WIRE_TYPE_STRING, WIRE_TYPE_VARBINARY
  <2> QED BY <1>1, <1>2, <2>1, <2>2, Zenon DEF Returned, Shown
<1>3. CASE type = WIRE_TYPE_STRING
  <2>1. Stored(type, v) = v
    BY <1>3, Zenon DEF Stored, Sized
  <2>2. type # WIRE_TYPE_VARBINARY
    BY <1>3 DEF WIRE_TYPE_STRING, WIRE_TYPE_VARBINARY
  <2> QED BY <1>3, <2>1, <2>2, Zenon DEF Returned, Shown
<1>4. CASE type # WIRE_TYPE_VARBINARY /\ type # WIRE_TYPE_STRING
  BY <1>4, Zenon DEF Returned, Shown, Stored, Sized, Number
<1> QED BY <1>2, <1>3, <1>4, Zenon

\* A getter's test for null.
LEMMA TestIs ==
  ASSUME NEW type \in WireTypes, NEW v \in Value \cup {NullValue}
  PROVE  TestsNull(type, Stored(type, v)) <=> v = NullValue
<1>1. CASE type \in Sized
  BY <1>1, Zenon DEF TestsNull, Stored
<1>2. CASE type \notin Sized
  <2>1. Least[type] \notin Value
    BY <1>2, ResponseAssumption, Zenon
  <2>2. Stored(type, v) = IF v = NullValue THEN Least[type] ELSE v
    BY <1>2, Zenon DEF Stored, Number
  <2>3. TestsNull(type, Stored(type, v)) <=> Stored(type, v) = Least[type]
    BY <1>2, Zenon DEF TestsNull
  <2> QED BY <2>1, <2>2, <2>3, Zenon
<1> QED BY <1>1, <1>2, Zenon

\* A getter: the offsets, counted when they are not yet there, the test of the
\* value and what is returned of it.
LEMMA AfterReadIs ==
  ASSUME NEW m \in Message, NEW r, NEW old, RowShows(r, m, old), NEW getter,
         NEW c \in DOMAIN r.m_columns
  PROVE  /\ RowShows(AfterRead(r, getter, c), m, None)
         /\ \A room : LET type == r.m_columns[c].type
                         x == ColumnValue(r, getter, type, GetOffset(r).m_offsets[c])
                     IN  RowShows(AfterRead(r, getter, c), m, Returned(type, x, room))
<1> DEFINE t == m.tables[r.table]
           j == r.number
           type == r.m_columns[c].type
           offsets == IF r.m_offsets = None THEN Offsets(r) ELSE r.m_offsets
           x == ColumnValue(r, getter, type, GetOffset(r).m_offsets[c])
           null == TestsNull(type, x)
           new == AfterRead(r, getter, c)
<1>0. /\ DOMAIN r = {"mem", "m_data", "m_columns", "m_offsets", "m_wasNull", "last", "table", "number"}
      /\ r.table \in 1 .. Len(m.tables) /\ j \in 1 .. Len(t.rows) /\ r.m_columns = t.columns
      /\ Shows(r.mem, r.m_data, RowBytes(t.columns, t.rows[j])) /\ r.m_data.position = 0
      /\ r.m_offsets # None => Placed(r.m_offsets, t, j)
  BY Zenon DEF RowShows
<1>1. t \in ServedTable
  BY <1>0, SentTable, Zenon
<1> HIDE DEF t, j
<1>2. /\ c \in 1 .. Len(t.columns) /\ type = t.columns[c].type /\ type \in WireTypes
      /\ t.rows[j][c] \in Value \cup {NullValue}
  BY <1>0, <1>1, ServedIs, Zenon
<1> DEFINE at == GetOffset(r)
<1>3. /\ DOMAIN at = DOMAIN r /\ at.mem = r.mem /\ at.m_data = r.m_data
      /\ at.m_columns = r.m_columns /\ at.table = r.table /\ at.number = r.number
      /\ at.m_wasNull = FALSE /\ at.m_offsets = offsets
  BY <1>0, Zenon DEF GetOffset
<1>4. new = [at EXCEPT !.m_wasNull = IF getter = WIRE_TYPE_DECIMAL THEN null ELSE @ \/ null,
                       !.last = c]
  BY Zenon DEF AfterRead
<1> HIDE DEF at, offsets
<1>5. Placed(offsets, t, j)
  <2>1. CASE r.m_offsets = None
    <3>1. Placed(Offsets(r), t, j)
      BY <1>0, <1>1, OffsetsRead, Zenon
    <3> QED BY <2>1, <3>1, Zenon DEF offsets
  <2>2. CASE r.m_offsets # None
    BY <1>0, <2>2, Zenon DEF offsets
  <2> QED BY <2>1, <2>2, Zenon
<1>6. x = Stored(type, t.rows[j][c])
  <2>1. at.m_offsets[c] = Start(Fields(t.columns, t.rows[j]), c)
    BY <1>2, <1>3, <1>5, Zenon DEF Placed
  <2>2. ColumnShown(r, getter, t, j, c)
    BY <1>0, <1>1, <1>2, ColumnAt, Zenon
  <2> HIDE DEF type
  <2>3. ColumnValue(r, getter, type, Start(Fields(t.columns, t.rows[j]), c))
          = Stored(type, t.rows[j][c])
    BY <1>2, <2>2, Zenon DEF ColumnShown
  <2> QED BY <2>1, <2>3, Zenon DEF at
<1> HIDE DEF x, new, type
<1>7. null <=> t.rows[j][c] = NullValue
  BY <1>2, <1>6, TestIs, Zenon
<1> HIDE DEF null
<1>8. /\ DOMAIN new = DOMAIN r /\ new.mem = r.mem /\ new.m_data = r.m_data
      /\ new.m_columns = r.m_columns /\ new.table = r.table /\ new.number = j
      /\ new.m_offsets = offsets /\ new.last = c
      /\ new.m_wasNull = IF getter = WIRE_TYPE_DECIMAL THEN null ELSE FALSE \/ null
  BY <1>0, <1>3, <1>4, Zenon DEF j
<1>9. new.m_wasNull <=> t.rows[j][c] = NullValue
  BY <1>7, <1>8, Zenon
<1>10. m.tables[new.table] = t
  BY <1>8, Zenon DEF t
<1>11. c # 0
  BY <1>1, <1>2, ServedIs
<1>12. ASSUME NEW v, v # None => v = Shown(type, t.rows[j][c]) PROVE RowShows(new, m, v)
  BY <1>0, <1>2, <1>5, <1>8, <1>9, <1>10, <1>11, <1>12, Zenon DEF RowShows
<1>13. ASSUME NEW room PROVE RowShows(new, m, Returned(type, x, room))
  BY <1>2, <1>6, <1>12, ReadIs, Zenon
<1> QED BY <1>12, <1>13, Zenon DEF new, type, x

\* Nothing has been received at first.
LEMMA ResponseStarts == ResponseInit => ResponseInv
BY Zenon DEF ResponseInit, ResponseInv

\* A getter of a row, and a read of which only the flag is left.
LEMMA GetColumnKeeps ==
  ASSUME ResponseInv, NEW getter, NEW c, ReadColumn(getter, c),
         got' = None \/ \E room : GetColumn(getter, c, room)
  PROVE  ResponseInv'
<1>1. /\ row # None /\ c \in DOMAIN row.m_columns /\ row' = AfterRead(row, getter, c)
      /\ answer' = answer /\ response' = response /\ iter' = iter
  BY Zenon DEF ReadColumn, CanRead
<1>2. answer \in Message /\ RowShows(row, answer, got)
  BY <1>1, Zenon DEF ResponseInv
<1>3. CASE got' = None
  <2>1. RowShows(row', answer, None)
    BY <1>1, <1>2, AfterReadIs, Zenon
  <2> QED BY <1>1, <1>3, <2>1, Zenon DEF ResponseInv
<1>4. CASE \E room : GetColumn(getter, c, room)
  <2>1. RowShows(row', answer, got')
    BY <1>1, <1>2, <1>4, AfterReadIs, Zenon DEF GetColumn
  <2> QED BY <1>1, <2>1, Zenon DEF ResponseInv
<1> QED BY <1>3, <1>4, Zenon

\* A getter that throws.
LEMMA InvalidColumnKeeps ==
  ASSUME ResponseInv, NEW getter, NEW c, InvalidColumn(getter, c)
  PROVE  ResponseInv'
<1>1. /\ row # None /\ row' = row /\ got' = None
      /\ answer' = answer /\ response' = response /\ iter' = iter
  BY Zenon DEF InvalidColumn
<1>2. RowShows(row, answer, None)
  BY <1>1, Zenon DEF ResponseInv, RowShows
<1> QED BY <1>1, <1>2, Zenon DEF ResponseInv

\* A message arrives and is read.
LEMMA ReceiveKeeps == ResponseInv /\ Receive => ResponseInv'
<1> SUFFICES ASSUME ResponseInv, Receive PROVE ResponseInv'
  OBVIOUS
<1>1. /\ response' = ResponseOf(MessageBytes(answer)) /\ answer' = answer /\ iter' = iter
      /\ row' = row /\ got' = got
  BY Zenon DEF Receive
<1>2. ResponseShows(response', answer)
  BY <1>1, ResponseRead, Zenon DEF ResponseInv
<1> QED BY <1>1, <1>2, Zenon DEF ResponseInv

\* A step that puts other tables, which show the same, in the place of those of
\* the response.
Retabled(r, new, tables) == new = [r EXCEPT !.m_results = tables]

\* Tables that show what their predecessors showed may take their place.
LEMMA TablesReplaced ==
  ASSUME NEW m, NEW r, ResponseShows(r, m), NEW tables, DOMAIN tables = 1 .. Len(m.tables),
         \A k \in 1 .. Len(m.tables) : TableShows(tables[k], m.tables[k]), NEW new,
         Retabled(r, new, tables)
  PROVE  ResponseShows(new, m)
<1>1. /\ DOMAIN new = DOMAIN r /\ new.m_clientData = r.m_clientData
      /\ new.m_statusString = r.m_statusString /\ new.m_appStatusString = r.m_appStatusString
      /\ new.m_results = tables
  BY Zenon DEF ResponseShows, Retabled
<1> QED BY <1>1, Zenon DEF ResponseShows

\* operator<< of a response reads copies.
LEMMA StreamKeeps == ResponseInv /\ Stream => ResponseInv'
<1> SUFFICES ASSUME ResponseInv, Stream PROVE ResponseInv'
  OBVIOUS
<1> DEFINE old == response.m_results
           tables == [k \in DOMAIN old |-> Copied(old[k])]
<1>1. /\ response # None /\ answer' = answer /\ iter' = iter /\ row' = row /\ got' = got
      /\ response' = [response EXCEPT !.m_results = tables]
  BY Zenon DEF Stream
<1>2. /\ answer \in Message /\ ResponseShows(response, answer) /\ DOMAIN old = 1 .. Len(answer.tables)
      /\ \A k \in 1 .. Len(answer.tables) : TableShows(old[k], answer.tables[k])
  BY <1>1, Zenon DEF ResponseInv, ResponseShows
<1> HIDE DEF old
<1>3. ASSUME NEW k \in 1 .. Len(answer.tables) PROVE TableShows(tables[k], answer.tables[k])
  <2>1. TableShows(Copied(old[k]), answer.tables[k])
    BY <1>2, SentTable, CopiedShows, Zenon
  <2>2. tables[k] = Copied(old[k])
    BY <1>2, Zenon
  <2> QED BY <2>1, <2>2, Zenon
<1>4. DOMAIN tables = 1 .. Len(answer.tables)
  BY <1>2, Zenon
<1> HIDE DEF tables
<1>5. Retabled(response, response', tables)
  BY <1>1, Zenon DEF Retabled
<1>6. ResponseShows(response', answer)
  BY <1>2, <1>3, <1>4, <1>5, TablesReplaced, Zenon
<1> QED BY <1>1, <1>6, Zenon DEF ResponseInv

\* toString() of a response slices the buffers of its tables again.
LEMMA ResponseToStringKeeps == ResponseInv /\ ResponseToString => ResponseInv'
<1> SUFFICES ASSUME ResponseInv, ResponseToString PROVE ResponseInv'
  OBVIOUS
<1> DEFINE old == response.m_results
           Past(t) == [t EXCEPT !.m_buffer = [t.m_buffer EXCEPT !.position = t.m_buffer.limit]]
           tables == [k \in DOMAIN old |-> Past(old[k])]
<1>1. /\ response # None /\ answer' = answer /\ iter' = iter /\ row' = row /\ got' = got
      /\ response' = [response EXCEPT !.m_results = tables]
  BY Zenon DEF ResponseToString, Sliced
<1>2. /\ answer \in Message /\ ResponseShows(response, answer) /\ DOMAIN old = 1 .. Len(answer.tables)
      /\ \A k \in 1 .. Len(answer.tables) : TableShows(old[k], answer.tables[k])
  BY <1>1, Zenon DEF ResponseInv, ResponseShows
<1> HIDE DEF old
<1>3. ASSUME NEW k \in 1 .. Len(answer.tables) PROVE TableShows(tables[k], answer.tables[k])
  <2>1. TableShows(Past(old[k]), answer.tables[k])
    BY <1>2, TableMoved, Zenon
  <2>2. tables[k] = Past(old[k])
    BY <1>2, Zenon
  <2> QED BY <2>1, <2>2, Zenon
<1>4. DOMAIN tables = 1 .. Len(answer.tables)
  BY <1>2, Zenon
<1> HIDE DEF tables
<1>5. Retabled(response, response', tables)
  BY <1>1, Zenon DEF Retabled
<1>6. ResponseShows(response', answer)
  BY <1>2, <1>3, <1>4, <1>5, TablesReplaced, Zenon
<1> QED BY <1>1, <1>6, Zenon DEF ResponseInv

\* A new iterator of a table.
LEMMA IterateKeeps ==
  ASSUME ResponseInv, NEW i \in Iterator, NEW k \in Results, Iterate(i, k)
  PROVE  ResponseInv'
<1> DEFINE old == response.m_results
           r == old[k]
           t == answer.tables[k]
           at == [r.m_buffer EXCEPT !.position = r.m_rowStart + 4]
           new == [mem |-> r.mem, m_buffer |-> Slice(at), table |-> k, m_columns |-> r.m_columns,
                   m_rowCount |-> r.m_rowCount, m_currentRow |-> 0]
           tables == [old EXCEPT ![k] = [r EXCEPT !.m_buffer = Sliced(at)]]
<1>1. /\ iter' = [iter EXCEPT ![i] = new] /\ answer' = answer /\ row' = row /\ got' = got
      /\ response' = [response EXCEPT !.m_results[k].m_buffer = Sliced(at)]
  BY Zenon DEF Iterate
<1>2. response # None /\ k \in DOMAIN old
  BY Zenon DEF Results
<1>3. /\ answer \in Message /\ ResponseShows(response, answer) /\ DOMAIN old = 1 .. Len(answer.tables)
      /\ \A n \in 1 .. Len(answer.tables) : TableShows(old[n], answer.tables[n])
      /\ DOMAIN iter = Iterator /\ \A n \in Iterator : iter[n] # None => IterShows(iter[n], answer)
  BY <1>2, Zenon DEF ResponseInv, ResponseShows
<1>4. k \in 1 .. Len(answer.tables) /\ t \in ServedTable /\ TableShows(r, t)
  BY <1>2, <1>3, SentTable, Zenon
<1>5. /\ Shows(r.mem, Slice(at), Rows(t)) /\ Slice(at).position = 0
      /\ Sliced(at) = [r.m_buffer EXCEPT !.position = r.m_buffer.limit]
  <2> HIDE DEF r, t
  <2> QED BY <1>4, RowsShown, Zenon
<1>6. TableShows([r EXCEPT !.m_buffer = Sliced(at)], t)
  <2> HIDE DEF r, t, at
  <2>1. TableShows([r EXCEPT !.m_buffer = [r.m_buffer EXCEPT !.position = r.m_buffer.limit]], t)
    BY <1>4, TableMoved, Zenon
  <2> QED BY <1>5, <2>1, Zenon
<1>7. Retabled(response, response', tables)
  <2> HIDE DEF at
  <2> QED BY <1>1, <1>2, <1>3, Zenon DEF Retabled, ResponseShows
<1> HIDE DEF at
<1>8. ASSUME NEW n \in 1 .. Len(answer.tables) PROVE TableShows(tables[n], answer.tables[n])
  <2>1. CASE n = k
    <3>1. tables[n] = [r EXCEPT !.m_buffer = Sliced(at)]
      BY <1>2, <2>1, Zenon
    <3> QED BY <1>6, <2>1, <3>1, Zenon
  <2>2. CASE n # k
    <3>1. tables[n] = old[n]
      <4> HIDE DEF old, r
      <4> QED BY <1>3, <2>2, Zenon
    <3> QED BY <1>3, <3>1, Zenon
  <2> QED BY <2>1, <2>2, Zenon
<1>9. DOMAIN tables = 1 .. Len(answer.tables)
  <2> HIDE DEF old, r
  <2> QED BY <1>3, Zenon
<1> HIDE DEF tables
<1>10. ResponseShows(response', answer)
  <2> HIDE DEF old, r, t
  <2> QED BY <1>3, <1>7, <1>8, <1>9, TablesReplaced, Zenon
<1> HIDE DEF r, t, old
<1>11. /\ DOMAIN new = {"mem", "m_buffer", "table", "m_columns", "m_rowCount", "m_currentRow"}
       /\ new.mem = r.mem /\ new.m_buffer = Slice(at) /\ new.table = k
       /\ new.m_columns = r.m_columns /\ new.m_rowCount = r.m_rowCount /\ new.m_currentRow = 0
  OBVIOUS
<1>12. r.m_columns = t.columns /\ r.m_rowCount = Len(t.rows)
  BY <1>4, Zenon DEF TableShows
<1>13. Start(RowPieces(t), 0 + 1) = 0 /\ 0 \in 0 .. Len(t.rows)
  <2>1. AllSeqs(RowPieces(t)) /\ Len(t.rows) \in Nat
    BY <1>4, RowsAre, ServedIs, Zenon
  <2> QED BY <2>1, StartIs
<1> HIDE DEF new
<1>14. IterShows(new, answer)
  <2>1. answer.tables[new.table] = t
    BY <1>11, Zenon DEF t
  <2> QED BY <1>4, <1>5, <1>11, <1>12, <1>13, <2>1, Zenon DEF IterShows
<1>15. DOMAIN iter' = Iterator /\ \A n \in Iterator : iter'[n] # None => IterShows(iter'[n], answer)
  BY <1>1, <1>3, <1>14, Zenon
<1> QED BY <1>1, <1>10, <1>15, Zenon DEF ResponseInv

\* The next row of an iterator.
LEMMA NextRowKeeps ==
  ASSUME ResponseInv, NEW i \in Iterator, NextRow(i)
  PROVE  ResponseInv'
<1> DEFINE it == iter[i]
           b == Limited(it.mem, it.m_buffer)
           on == [it EXCEPT !.m_buffer = PastRow(it, b), !.m_currentRow = it.m_currentRow + 1]
           new == [mem |-> it.mem, m_data |-> Slice(b), m_columns |-> it.m_columns,
                   m_offsets |-> None, m_wasNull |-> FALSE, last |-> 0,
                   table |-> it.table, number |-> it.m_currentRow + 1]
<1>0. /\ answer \in Message
      /\ DOMAIN iter = Iterator /\ \A n \in Iterator : iter[n] # None => IterShows(iter[n], answer)
  BY Zenon DEF ResponseInv
<1>1. /\ it # None /\ it.m_currentRow < it.m_rowCount /\ row' = new /\ got' = None
      /\ answer' = answer /\ response' = response
  BY Zenon DEF NextRow, HasNext
<1>2. iter' = [iter EXCEPT ![i] = on]
  <2>1. iter' = [iter EXCEPT ![i].m_buffer = PastRow(it, b), ![i].m_currentRow = it.m_currentRow + 1]
    BY Zenon DEF NextRow
  <2> HIDE DEF b
  <2> QED BY <1>0, <2>1, Zenon
<1>3. IterShows(it, answer)
  BY <1>0, <1>1, Zenon
<1>4. RowShows(new, answer, None) /\ IterShows(on, answer)
  <2> HIDE DEF it
  <2> QED BY <1>0, <1>1, <1>3, NextRowIs, Zenon
<1> HIDE DEF new, on
<1>5. DOMAIN iter' = Iterator /\ \A n \in Iterator : iter'[n] # None => IterShows(iter'[n], answer)
  BY <1>0, <1>2, <1>4, Zenon
<1> QED BY <1>1, <1>4, <1>5, Zenon DEF ResponseInv

\* Every step preserves ResponseInv.
LEMMA ResponseSteps == ResponseInv /\ [ResponseNext]_responseVars => ResponseInv'
<1> SUFFICES ASSUME ResponseInv, [ResponseNext]_responseVars PROVE ResponseInv'
  OBVIOUS
<1>1. CASE Receive
  BY <1>1, ReceiveKeeps, Zenon
<1>2. CASE Stream
  BY <1>2, StreamKeeps, Zenon
<1>3. CASE ResponseToString
  BY <1>3, ResponseToStringKeeps, Zenon
<1>4. CASE RowToString
  BY <1>4, GetColumnKeeps, Zenon DEF RowToString
<1>5. ASSUME NEW i \in Iterator, NextRow(i) PROVE ResponseInv'
  BY <1>5, NextRowKeeps, Zenon
<1>6. ASSUME NEW i \in Iterator, NEW k \in Results, Iterate(i, k) PROVE ResponseInv'
  BY <1>6, IterateKeeps, Zenon
<1>7. ASSUME NEW c, IsNull(c) PROVE ResponseInv'
  BY <1>7, GetColumnKeeps, Zenon DEF IsNull
<1>8. ASSUME NEW c, NEW getter, NEW room, GetColumn(getter, c, room) PROVE ResponseInv'
  <2>1. ReadColumn(getter, c)
    BY <1>8, Zenon DEF GetColumn
  <2> QED BY <1>8, <2>1, GetColumnKeeps, Zenon
<1>9. ASSUME NEW c, NEW getter, InvalidColumn(getter, c) PROVE ResponseInv'
  BY <1>9, InvalidColumnKeeps, Zenon
<1>10. ASSUME NEW name, NEW getter, NEW room, GetByName(getter, name, room) PROVE ResponseInv'
  BY <1>8, <1>9, <1>10, Zenon DEF GetByName
<1>11. CASE UNCHANGED responseVars
  BY <1>11, Zenon DEF responseVars, ResponseInv
<1> QED BY <1>1, <1>2, <1>3, <1>4, <1>5, <1>6, <1>7, <1>8, <1>9, <1>10, <1>11, Zenon DEF ResponseNext

\* What the client holds of a response shows, at any time, the bytes the server
\* sent: the inductive invariant of Response, for all messages and sizes.
THEOREM ShownAlways == ResponseSpec => []ResponseInv
BY ResponseStarts, ResponseSteps, PTL DEF ResponseSpec

\* A response is read as the server sent it: status, strings, tables, columns and
\* rows, whatever was iterated, printed or copied before.
THEOREM ResponseAsSentAlways == ResponseSpec => []ResponseAsSent
<1>1. ResponseInv => ResponseAsSent
  <2> SUFFICES ASSUME ResponseInv, response # None PROVE ResponseAsSent
    BY Zenon DEF ResponseAsSent
  <2>1. answer \in Message /\ ResponseShows(response, answer)
    BY Zenon DEF ResponseInv
  <2>2. DOMAIN answer.tables = 1 .. Len(answer.tables)
    BY <2>1, TablesAre, Zenon
  <2>3. Results = 1 .. Len(answer.tables)
    BY <2>1, Zenon DEF Results, ResponseShows
  <2>4. \A k \in Results : /\ response.m_results[k].m_columns = answer.tables[k].columns
                           /\ response.m_results[k].m_rowCount = Len(answer.tables[k].rows)
    BY <2>1, <2>3, Zenon DEF ResponseShows, TableShows
  <2> QED BY <2>1, <2>2, <2>4, Zenon DEF ResponseAsSent, ResponseShows
<1> QED BY <1>1, ShownAlways, PTL

\* A getter returns the value of its row and column that the server sent, of
\* whichever iterator and after whichever other getters, those that threw included;
\* of a null, the least number of the column's type or the empty string.
THEOREM GotAsSentAlways == ResponseSpec => []GotAsSent
<1>1. ResponseInv => GotAsSent
  BY Zenon DEF ResponseInv, GotAsSent, RowShows, Sent, Shown
<1> QED BY <1>1, ShownAlways, PTL

\* wasNull() tells whether the server sent a null in the column that was read last,
\* whatever was read before and whichever getters threw since.
THEOREM WasNullOfLastAlways == ResponseSpec => []WasNullOfLast
<1>1. ResponseInv => WasNullOfLast
  BY Zenon DEF ResponseInv, WasNullOfLast, RowShows, Sent
<1> QED BY <1>1, ShownAlways, PTL
=============================================================================
