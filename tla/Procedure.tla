----------------------------- MODULE Procedure ------------------------------
(***************************************************************************)
(* include/ParameterSet.hpp and include/Procedure.hpp: the parameters of a *)
(* procedure are written one by one into a growing buffer, over any number *)
(* of invocations and resets, and each invocation copies that buffer into  *)
(* the message for the server.  invoke() also reads the partition key back *)
(* out of the message (src/Distributer.cpp).                               *)
(***************************************************************************)
EXTENDS ByteBuffer, WireType

CONSTANTS
  Name, NameSize,    \* the name of the procedure and its length
  Signature,         \* the parameter lists a Procedure may be constructed with
  Type,              \* the wire types in use
  MaxItems,          \* bound: length of an array
  MaxGiven,          \* bound: parameters added between two resets
  MaxMessages,       \* bound: invocations
  Capacity           \* of the buffer to begin with, 8192 in the code

ASSUME ProcedureAssumption ==
  /\ NameSize \in Nat /\ (NameSize = 0 => Name = Empty)
  /\ Type \subseteq WireTypes /\ Signature \subseteq Seq([type : Type, array : BOOLEAN])
  /\ MaxItems \in Nat /\ MaxGiven \in Nat /\ MaxMessages \in Nat /\ Capacity \in Nat \ {0, 1}

VARIABLES
  m_parameters, m_dynamicParamCount, m_currentParam, m_buffer,
  asked,             \* params() was called: the application has the pointer
  given,             \* the parameters added since the last reset
  message, sent,     \* the last message, and the parameters it should hold
  bare,              \* it was sent before params() was ever called, with no list
  m_nextRequestId,
  alive              \* FALSE: an exception the throw() lists do not name

vars == <<m_parameters, m_dynamicParamCount, m_currentParam, m_buffer, asked,
          given, message, sent, bare, m_nextRequestId, alive>>

-----------------------------------------------------------------------------
\* One value as putBytes, putInt8 .. putInt64, putDouble or Decimal write it.
Item(t, v) == IF t \in Sized THEN Bytes(Size[v], 4) \o Bytes(v, Size[v])
              ELSE Bytes(v, Width(t))
Items(p) == FlattenSeq([i \in DOMAIN p.values |-> Item(p.type, p.values[i])])

Parameter == [type : Type, array : {FALSE}, values : [1 .. 1 -> Value]]
             \cup [type : Type, array : {TRUE},
                   values : UNION {[1 .. n -> Value] : n \in 0 .. MaxItems}]
Null == [type |-> WIRE_TYPE_NULL, array |-> FALSE, values |-> <<>>]

CountWidth(t) == IF t = WIRE_TYPE_TINYINT THEN 4 ELSE 2

\* What an add function writes.
Encoding(p) ==
  IF p.array
  THEN Bytes(WIRE_TYPE_ARRAY, 1) \o Bytes(p.type, 1)
       \o Bytes(Len(p.values), CountWidth(p.type)) \o Items(p)
  ELSE Bytes(p.type, 1) \o Items(p)

\* Fault: the type byte is forgotten.
Reserved_Type(p) == Len(Items(p))

\* What it makes room for first: two bytes short for an array of doubles.
Reserved(p) ==
  IF p.array
  THEN Len(Items(p)) + (IF p.type = WIRE_TYPE_FLOAT THEN 2 ELSE 2 + CountWidth(p.type))
  ELSE 1 + Len(Items(p))

-----------------------------------------------------------------------------
Count == Bytes(Len(m_parameters), 2)

Init ==
  /\ \/ m_parameters \in Signature /\ m_dynamicParamCount = FALSE
        /\ m_buffer = Put(NewBuffer(Capacity), Count)
     \/ m_parameters = <<>> /\ m_dynamicParamCount = TRUE
        /\ m_buffer = NewBuffer(Capacity)
  /\ m_currentParam = 0 /\ asked = FALSE /\ given = <<>>
  /\ message = <<>> /\ sent = <<>> /\ bare = FALSE /\ m_nextRequestId = 0 /\ alive = TRUE

Reset == /\ m_currentParam' = 0 /\ given' = <<>>
         /\ m_buffer' = Put(Clear(m_buffer), Count)

Params ==
  /\ alive /\ Reset /\ asked' = TRUE
  /\ UNCHANGED <<m_parameters, m_dynamicParamCount, message, sent,
                 bare, m_nextRequestId, alive>>

-----------------------------------------------------------------------------
(* validateType: a list that may still grow takes the new parameter, and    *)
(* the count at the head of the buffer follows.                             *)

Grows == m_dynamicParamCount /\ m_currentParam + 1 > Len(m_parameters)

Grown(t, a) == IF Grows THEN Append(m_parameters, [type |-> t, array |-> a])
               ELSE m_parameters
\* Fault: the count at the head stays.
Counted_Not(list) == m_buffer

Counted(list) == IF Grows THEN [m_buffer EXCEPT !.mem = PutAt(@, 0, Bytes(Len(list), 2))]
                 ELSE m_buffer

Accepts(list, t, a) ==
  /\ m_currentParam < Len(list)
  /\ list[m_currentParam + 1] = [type |-> t, array |-> a]

Adding == alive /\ asked /\ Len(given) < MaxGiven
          /\ UNCHANGED <<m_dynamicParamCount, asked, message, sent, bare, m_nextRequestId>>

\* The put functions on b, after room was made: what does not fit throws an
\* exception the add function does not declare.
Write(b, p) ==
  LET room == EnsureRemaining(b, Reserved(p))
  IN  IF Fits(room, Encoding(p))
      THEN /\ m_buffer' = Put(room, Encoding(p)) /\ given' = Append(given, p)
           /\ m_currentParam' = m_currentParam + 1 /\ UNCHANGED alive
      ELSE alive' = FALSE /\ m_buffer' = room /\ UNCHANGED <<given, m_currentParam>>

\* The add function for p; for a null pointer to bytes, addNull instead.
Add(p, t, a) ==
  /\ Adding
  /\ m_parameters' = Grown(t, a) /\ Accepts(Grown(t, a), t, a)
  /\ Write(Counted(Grown(t, a)), p)

\* ParamMismatchException; the list may have grown all the same.
AddThrows(t, a) ==
  /\ Adding
  /\ m_parameters' = Grown(t, a) /\ ~Accepts(Grown(t, a), t, a)
  /\ m_buffer' = Counted(Grown(t, a)) /\ UNCHANGED <<given, m_currentParam, alive>>

\* addNull() takes one parameter too many.  After that it throws a pointer,
\* which it does not declare.
AddNull ==
  /\ Adding /\ UNCHANGED m_parameters
  /\ IF m_currentParam > Len(m_parameters)
     THEN alive' = FALSE /\ UNCHANGED <<m_buffer, given, m_currentParam>>
     ELSE Write(m_buffer, Null)

-----------------------------------------------------------------------------
SerializedSize == 5 + 4 + NameSize + Len(m_buffer.mem) + 8

SerializeTo(clientData) ==
  LET body == Bytes(0, 1) \o Bytes(NameSize, 4) \o Bytes(Name, NameSize)
              \o Bytes(clientData, 8) \o m_buffer.mem
  IN  Bytes(Len(body), 4) \o body

\* invoke(): UninitializedParamsException unless all parameters are set.
Invoke ==
  /\ alive /\ m_nextRequestId < MaxMessages /\ m_currentParam = Len(m_parameters)
  /\ m_nextRequestId' = m_nextRequestId + 1
  /\ message' = SerializeTo(m_nextRequestId) /\ sent' = given
  /\ bare' = (m_dynamicParamCount /\ ~asked)
  /\ alive' = (Len(message') <= SerializedSize)
  /\ Reset /\ m_dynamicParamCount' = FALSE
  /\ UNCHANGED <<m_parameters, asked>>

\* Fault: the client data is not skipped.
KeyOffset_Early(size) == 5 + 4 + size + 2

\* getHashedPartitionForParameter: past the name, the client data, the count.
KeyOffset(size) == 5 + 4 + size + 8 + 2

\* The partition key the client reads: parseParameter at that offset.
Key(mem) ==
  LET at == KeyOffset(Get(mem, 5, 4))
      t == Get(mem, at, 1)
  IN  CASE t \in {3, 4, 5, 6, 8, 11} -> Get(mem, at + 1, Width(t))
        [] t = WIRE_TYPE_STRING -> Get(mem, at + 5, Get(mem, at + 1, 4))
        [] OTHER -> Garbage

Next ==
  \/ Params \/ AddNull \/ Invoke
  \/ \E p \in Parameter : Add(p, p.type, p.array)
  \/ \E t \in Type \cap Sized : Add(Null, t, FALSE)
  \/ \E t \in Type, a \in BOOLEAN : AddThrows(t, a)

Spec == Init /\ [][Next]_vars

-----------------------------------------------------------------------------
(* The server reads a message (external): a type byte, for an array its     *)
(* element type and count, and values as wide as their type says.           *)
ReadItem(mem, at, t) ==
  IF t \notin Sized THEN [value |-> Get(mem, at, Width(t)), end |-> at + Width(t)]
  ELSE LET size == Get(mem, at, 4)
       IN  [value |-> Get(mem, at + 4, size), end |-> at + 4 + size]

ReadItems(mem, at, t, n) ==
  LET read[k \in 0 .. n] ==
        IF k = 0 THEN [values |-> <<>>, end |-> at]
        ELSE LET item == ReadItem(mem, read[k - 1].end, t)
             IN  [values |-> Append(read[k - 1].values, item.value), end |-> item.end]
  IN  read[n]

ReadParameter(mem, at) ==
  LET t == Get(mem, at, 1)
      array == t = WIRE_TYPE_ARRAY
      e == IF array THEN Get(mem, at + 1, 1) ELSE t
      n == IF array THEN Get(mem, at + 2, CountWidth(e)) ELSE IF t = WIRE_TYPE_NULL THEN 0 ELSE 1
      read == ReadItems(mem, IF array THEN at + 2 + CountWidth(e) ELSE at + 1, e, n)
  IN  [parameter |-> [type |-> e, array |-> array, values |-> read.values], end |-> read.end]

ReadParameters(mem, at, n) ==
  LET read[k \in 0 .. n] ==
        IF k = 0 THEN [list |-> <<>>, end |-> at]
        ELSE LET next == ReadParameter(mem, read[k - 1].end)
             IN  [list |-> Append(read[k - 1].list, next.parameter), end |-> next.end]
  IN  read[n]

\* The server reads from the last message its own length, the id of the request
\* and exactly the parameters given for it, of the types in the list.  A
\* Procedure whose params() was never called and that has no list sends no count.
MessageReadable ==
  message # <<>> /\ ~bare =>
    LET at == 5 + 4 + NameSize
        n == Get(message, at + 8, 2)
        read == ReadParameters(message, at + 10, n)
    IN  /\ Get(message, 0, 4) = Len(message) - 4
        /\ Get(message, 9, NameSize) = Name /\ Get(message, at, 8) = m_nextRequestId - 1
        /\ n = Len(sent) /\ read.list = sent /\ read.end = Len(message)

\* The partition key the client reads back out of a message is its first
\* parameter, whatever the length of the name.
KeyIsFirst ==
  sent # <<>> /\ ~sent[1].array /\ sent[1].type \notin {1, 22, 25}
    => Key(message) = sent[1].values[1]

\* "@throws ParamMismatchException Supplied parameter is the wrong type for this
\* position or too many have been set": no add function throws anything else.
OnlyDeclaredThrows == [][alive => alive']_vars

\* The two that do: addNull() after a null that was one too many, and addDouble() of
\* an array for which there are one or two bytes less than it takes.
NullTooMany == AddNull /\ m_currentParam > Len(m_parameters)
DoublesTooLong(p) ==
  /\ p.array /\ p.type = WIRE_TYPE_FLOAT /\ Add(p, p.type, p.array)
  /\ m_buffer'.capacity - Len(m_buffer'.mem) - 8 * Len(p.values) \in {2, 3}

\* Every other call keeps to what it declares, whatever was added before and however
\* full the buffer is: the room an add function makes is enough for what it writes,
\* and that of invoke() for the message.
EndsOnlyAtEdges ==
  [][alive /\ ~alive' => NullTooMany \/ \E p \in Parameter : DoublesTooLong(p)]_vars
=============================================================================
