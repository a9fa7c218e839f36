------------------------------ MODULE Response ------------------------------
(***************************************************************************)
(* A response as the application reads it: InvocationResponse.hpp takes the *)
(* message apart, Table.cpp the head of each table, TableIterator.h its     *)
(* rows and Row.hpp the columns of a row.  All of them are windows on the   *)
(* bytes of one message and move positions in them.  What the server writes *)
(* is external: the layout that this code reads.                            *)
(***************************************************************************)
EXTENDS ByteBuffer, WireType

CONSTANTS
  NullValue,     \* SQL null; a string that is null has the length -1
  Least,         \* the number of each type that stands for null: INT8_MIN, ...
  Message,       \* the responses the server may send
  Iterator,      \* iterators the application may have
  None

\* A table has rows as long as its list of columns.
ServedTable ==
  {t \in [columns : Seq([name : Value, type : WireTypes]), rows : Seq(Seq(Value \cup {NullValue}))] :
     \A i \in DOMAIN t.rows : Len(t.rows[i]) = Len(t.columns)}

ASSUME ResponseAssumption ==
  /\ NullValue \notin Value \cup {None}
  /\ \A t \in WireTypes \ Sized : Least[t] \notin Value
  /\ \A m \in Message : /\ m.status \in Value \cup {None} /\ m.appStatus \in Value \cup {None}
                         /\ m.error \in Value \cup {None} /\ m.tables \in Seq(ServedTable)

VARIABLES
  answer,       \* what the server sent
  response,      \* the InvocationResponse
  iter,          \* TableIterator: mem, window, m_currentRow, and the table
  row,           \* Row: mem, window, columns, m_offsets, m_wasNull, its place, the column
                 \* read last (0 before any)
  got            \* what the last getter returned, None when it threw or copied nothing

responseVars == <<answer, response, iter, row, got>>

-----------------------------------------------------------------------------
(* The server's layout (external).                                          *)

String(v) == IF v = NullValue THEN Bytes(-1, 4) ELSE Bytes(Size[v], 4) \o Bytes(v, Size[v])
Number(t, v) == IF v = NullValue THEN Least[t] ELSE v
Field(t, v) == IF t \in Sized THEN String(v) ELSE Bytes(Number(t, v), Width(t))
Prefixed(bytes) == Bytes(Len(bytes), 4) \o bytes
Concat(Op(_), s) == FlattenSeq([i \in DOMAIN s |-> Op(s[i])])

RowBytes(columns, values) ==
  FlattenSeq([i \in DOMAIN columns |-> Field(columns[i].type, values[i])])

TableBytes(t) ==
  LET TypeByte(c) == Bytes(c.type, 1)
      NameBytes(c) == String(c.name)
      OneRow(values) == Prefixed(RowBytes(t.columns, values))
  IN  Prefixed(Bytes(0, 1) \o Bytes(Len(t.columns), 2) \o Concat(TypeByte, t.columns)
               \o Concat(NameBytes, t.columns))
      \o Bytes(Len(t.rows), 4) \o Concat(OneRow, t.rows)

Optional(v) == IF v = None THEN <<>> ELSE String(v)
Present(m) == (IF m.status = None THEN 0 ELSE 32) + (IF m.error = None THEN 0 ELSE 64)
              + (IF m.appStatus = None THEN 0 ELSE 128)

MessageBytes(m) ==
  LET OneTable(t) == Prefixed(TableBytes(t))
  IN  Bytes(0, 1) \o Bytes(m.clientData, 8) \o Bytes(Present(m), 1) \o Bytes(1, 1)
      \o Optional(m.status) \o Bytes(0, 1) \o Optional(m.appStatus) \o Bytes(0, 4)
      \o Optional(m.error) \o Bytes(Len(m.tables), 2) \o Concat(OneTable, m.tables)

-----------------------------------------------------------------------------
(* Table::Table(buffer): the columns and where the rows are.                *)

\* A string at an index of the window w, and the index after it.
GetString(mem, w, at) == LET n == GetAt(mem, w, at, 4)
                         IN  IF n = -1 THEN NullValue ELSE GetAt(mem, w, at + 4, n)
AfterString(mem, w, at) == at + StringWidth(GetAt(mem, w, at, 4))

\* Fault: the types are read one byte late.
ColumnType_Late(mem, w, i) == GetAt(mem, w, 7 + i, 1)

ColumnType(mem, w, i) == GetAt(mem, w, 6 + i, 1)

TableOf(mem, w) ==
  LET n == GetAt(mem, w, 5, 2)
      at[i \in 1 .. n] == IF i = 1 THEN 7 + n ELSE AfterString(mem, w, at[i - 1])
      m_rowStart == GetAt(mem, w, 0, 4) + 4
  IN  [mem |-> mem, m_buffer |-> [w EXCEPT !.position = w.limit],
       m_columns |-> [i \in 1 .. n |-> [type |-> ColumnType(mem, w, i),
                                        name |-> GetString(mem, w, at[i])]],
       m_rowStart |-> m_rowStart, m_rowCount |-> GetAt(mem, w, m_rowStart, 4)]

-----------------------------------------------------------------------------
(* InvocationResponse(data, length): optional strings, an exception that is *)
(* skipped, and the tables, each the slice up to a limit set for it.        *)

Bit(byte, mask) == (byte \div mask) % 2 = 1

AfterError(mem, w, present, at) ==
  IF Bit(present, 64) THEN at + 4 + GetAt(mem, w, at, 4) ELSE at

\* The buffer with the limit at the end of the table whose length is next.
Limited(mem, b) ==
  LET start == b.position + 4
  IN  [b EXCEPT !.position = start, !.limit = start + GetAt(mem, b, b.position, 4)]

ResponseOf(mem) ==
  LET w == Window(0, Len(mem))
      present == GetAt(mem, w, 9, 1)
      status == 11
      app == (IF Bit(present, 32) THEN AfterString(mem, w, status) ELSE status) + 1
      time == IF Bit(present, 128) THEN AfterString(mem, w, app) ELSE app
      results == AfterError(mem, w, present, time + 4)
      n == GetAt(mem, w, results, 2)
      b[i \in 1 .. n] ==
        IF i = 1 THEN Limited(mem, [w EXCEPT !.position = results + 2])
        ELSE Limited(mem, [Sliced(b[i - 1]) EXCEPT !.limit = w.limit])
  IN  [m_clientData |-> GetAt(mem, w, 1, 8),
       m_statusString |-> IF Bit(present, 32) THEN GetString(mem, w, status) ELSE None,
       m_appStatusString |-> IF Bit(present, 128) THEN GetString(mem, w, app) ELSE None,
       m_results |-> [i \in 1 .. n |-> TableOf(mem, Slice(b[i]))]]

-----------------------------------------------------------------------------
ResponseInit ==
  /\ answer \in Message /\ response = None /\ row = None /\ got = None
  /\ iter = [i \in Iterator |-> None]

Receive == /\ response = None /\ response' = ResponseOf(MessageBytes(answer))
           /\ UNCHANGED <<answer, iter, row, got>>

Results == IF response = None THEN {} ELSE DOMAIN response.m_results

\* operator >> and the constructors from a stream: each table is made again
\* from a copy of its bytes.
Copied(t) == LET w == t.m_buffer
             IN  TableOf(SubSeq(t.mem, w.base + 1, w.base + w.limit), Window(0, w.limit))
Stream == /\ response # None
          /\ response' = [response EXCEPT !.m_results = [k \in DOMAIN @ |-> Copied(@[k])]]
          /\ UNCHANGED <<answer, iter, row, got>>

\* Table::iterator() moves the position of the table's own buffer.
Iterate(i, k) ==
  LET t == response.m_results[k]
      at == [t.m_buffer EXCEPT !.position = t.m_rowStart + 4]
  IN  /\ iter' = [iter EXCEPT ![i] = [mem |-> t.mem, m_buffer |-> Slice(at), table |-> k,
                                      m_columns |-> t.m_columns,
                                      m_rowCount |-> t.m_rowCount, m_currentRow |-> 0]]
      /\ response' = [response EXCEPT !.m_results[k].m_buffer = Sliced(at)]
      /\ UNCHANGED <<answer, row, got>>

\* InvocationResponse::toString() iterates over all of its tables.
ResponseToString ==
  /\ response # None
  /\ LET Past(t) == [t EXCEPT !.m_buffer = Sliced(t.m_buffer)]
     IN  response' = [response EXCEPT !.m_results = [k \in DOMAIN @ |-> Past(@[k])]]
  /\ UNCHANGED <<answer, iter, row, got>>

HasNext(i) == iter[i] # None /\ iter[i].m_currentRow < iter[i].m_rowCount

PastRow(it, b) == [Sliced(b) EXCEPT !.limit = it.m_buffer.limit]

\* TableIterator::next().
NextRow(i) ==
  LET it == iter[i]
      b == Limited(it.mem, it.m_buffer)
  IN  /\ HasNext(i)
      /\ iter' = [iter EXCEPT ![i].m_buffer = PastRow(it, b),
                              ![i].m_currentRow = it.m_currentRow + 1]
      /\ row' = [mem |-> it.mem, m_data |-> Slice(b), m_columns |-> it.m_columns,
                 m_offsets |-> None, m_wasNull |-> FALSE, last |-> 0,
                 table |-> it.table, number |-> it.m_currentRow + 1]
      /\ got' = None /\ UNCHANGED <<answer, response>>

-----------------------------------------------------------------------------
\* ensureCalculatedOffsets.
Offsets(r) ==
  LET After(t, at) == IF t \in Sized THEN AfterString(r.mem, r.m_data, at) ELSE at + Width(t)
      offset[i \in DOMAIN r.m_columns] ==
        IF i = 1 THEN r.m_data.position ELSE After(r.m_columns[i - 1].type, offset[i - 1])
  IN  offset

\* validateType: the getter of an integer also reads narrower columns.
Integer == <<6, 5, 4, 3>>
Readable(t, getter) ==
  \/ t = getter
  \/ \E i, j \in DOMAIN Integer : i < j /\ getter = Integer[i] /\ t = Integer[j]

\* Fault: a null is remembered.
GetOffset_KeepsFlag(r) == [r EXCEPT !.m_offsets = IF @ = None THEN Offsets(r) ELSE @]

\* getOffset takes the flag back before each read.
GetOffset(r) == [r EXCEPT !.m_wasNull = FALSE,
                          !.m_offsets = IF @ = None THEN Offsets(r) ELSE @]

\* Fault: as wide as the getter.
ColumnValue_Getter(r, getter, t, at) ==
  IF t \in Sized THEN GetString(r.mem, r.m_data, at)
  ELSE GetAt(r.mem, r.m_data, at, Width(getter))

\* Read as wide as the column.
ColumnValue(r, getter, t, at) ==
  IF t \in Sized THEN GetString(r.mem, r.m_data, at)
  ELSE GetAt(r.mem, r.m_data, at, Width(t))

\* Each getter's test of what it read: a number is compared with the least one of
\* the column's type, whatever the getter's; the length of a string with -1.
TestsNull(t, v) == IF t \in Sized THEN v = NullValue ELSE v = Least[t]

\* getDecimal assigns the flag, the other getters only set it.
AfterRead(r, getter, c) ==
  LET t == r.m_columns[c].type
      at == GetOffset(r)
      null == TestsNull(t, ColumnValue(r, getter, t, at.m_offsets[c]))
  IN  [at EXCEPT !.m_wasNull = IF getter = WIRE_TYPE_DECIMAL THEN null ELSE @ \/ null,
                 !.last = c]

\* A null string comes back empty; of a null binary value, or one for which there
\* is no room, getBytes copies nothing.
Returned(t, v, room) ==
  IF t = WIRE_TYPE_VARBINARY /\ (~room \/ v = NullValue) THEN None
  ELSE IF t = WIRE_TYPE_STRING /\ v = NullValue THEN Empty ELSE v

\* validateType, before getOffset.
CanRead(getter, c) ==
  c \in DOMAIN row.m_columns /\ Readable(row.m_columns[c].type, getter)

ReadColumn(getter, c) ==
  /\ row # None /\ CanRead(getter, c) /\ row' = AfterRead(row, getter, c)
  /\ UNCHANGED <<answer, response, iter>>

\* A getter for a column.
GetColumn(getter, c, room) ==
  /\ ReadColumn(getter, c)
  /\ LET t == row.m_columns[c].type
     IN  got' = Returned(t, ColumnValue(row, getter, t, GetOffset(row).m_offsets[c]), room)

\* InvalidColumnException, from which the application goes on.
InvalidColumn(getter, c) == /\ row # None /\ ~CanRead(getter, c)
                            /\ got' = None /\ UNCHANGED <<answer, response, iter, row>>

\* isNull: the getter of the column's type, but getInt64 for SMALLINT; of what it
\* reads only the flag is left.
IsNull(c) == /\ row # None /\ c \in DOMAIN row.m_columns
             /\ LET t == row.m_columns[c].type
                IN  ReadColumn(IF t = 4 THEN 6 ELSE t, c)
             /\ got' = None

\* The getters by name: the first column of that name; 0 is none.
Named(name) == {c \in DOMAIN row.m_columns : row.m_columns[c].name = name}
IndexByName(name) == IF Named(name) = {} THEN 0
                     ELSE CHOOSE c \in Named(name) : \A d \in Named(name) : c <= d
GetByName(getter, name, room) ==
  row # None /\ (GetColumn(getter, IndexByName(name), room)
                 \/ InvalidColumn(getter, IndexByName(name)))

\* Row::toString(): isNull and the getter of each column, the last one last; each
\* read overwrites what the one before it left.
RowToString == /\ row # None
               /\ LET c == Len(row.m_columns) IN ReadColumn(row.m_columns[c].type, c)
               /\ got' = None

Getter == {3, 4, 5, 6, 8, 9, 11, 22, 25}
\* Whether there is room for the value, which only getVarbinary is told.
Room(getter) == IF getter = WIRE_TYPE_VARBINARY THEN BOOLEAN ELSE {TRUE}
Indexes == IF row = None THEN {} ELSE 0 .. Len(row.m_columns) + 1

ResponseNext ==
  \/ Receive \/ Stream \/ ResponseToString \/ RowToString
  \/ \E i \in Iterator : NextRow(i) \/ \E k \in Results : Iterate(i, k)
  \/ \E c \in Indexes :
       \/ IsNull(c)
       \/ \E getter \in Getter : \/ InvalidColumn(getter, c)
                                \/ \E room \in Room(getter) : GetColumn(getter, c, room)
  \/ \E getter \in Getter, name \in Value :
       \E room \in Room(getter) : GetByName(getter, name, room)

ResponseSpec == ResponseInit /\ [][ResponseNext]_responseVars

-----------------------------------------------------------------------------
\* The response has the id, the strings and the tables that were sent, the
\* columns and the number of rows of each included: what is optional before
\* them, and a copy through a stream, moves nothing.
ResponseAsSent ==
  response # None =>
    /\ response.m_clientData = answer.clientData
    /\ response.m_statusString = answer.status
    /\ response.m_appStatusString = answer.appStatus
    /\ DOMAIN response.m_results = DOMAIN answer.tables
    /\ \A k \in Results : /\ response.m_results[k].m_columns = answer.tables[k].columns
                          /\ response.m_results[k].m_rowCount = Len(answer.tables[k].rows)

\* What was sent in a column of the row that next() counted to.
Sent(c) == answer.tables[row.table].rows[row.number][c]

\* A getter returns what was sent in its column of the row that next() counted
\* to, whatever other iterators of the table are in use, whatever was read before,
\* whichever getters threw and whichever strings to the left of the column are
\* null; for a null it returns the least number of the column's type, however wide
\* the getter is, or the empty string.
GotAsSent ==
  got # None =>
    LET t == row.m_columns[row.last].type
    IN  got = IF Sent(row.last) # NullValue THEN Sent(row.last)
              ELSE IF t = WIRE_TYPE_STRING THEN Empty ELSE Least[t]

\* wasNull() tells whether the server sent a null in the column that was read
\* last: no null read earlier shows through, no getter misses the null of a column
\* narrower than its own type, and a getter that throws, which reads nothing,
\* leaves the answer as it was.
WasNullOfLast ==
  row # None => (row.m_wasNull <=> row.last # 0 /\ Sent(row.last) = NullValue)
=============================================================================
