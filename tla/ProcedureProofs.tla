--------------------------- MODULE ProcedureProofs --------------------------
(***************************************************************************)
(* The server reads every invocation as it was meant, for every list of    *)
(* parameters, every size of a value and every name of a procedure.        *)
(*                                                                         *)
(* The first part is about ByteBuffer and serves the proofs about          *)
(* responses as well: induction, sequences, what a sequence of bytes holds *)
(* where, and what FlattenSeq and EnsureCapacity compute. The second part  *)
(* describes the buffer and the message of a Procedure (BufferInv,         *)
(* MessageInv).                                                            *)
(***************************************************************************)
EXTENDS Procedure, WellFoundedInduction, TLAPS

-----------------------------------------------------------------------------
(* Induction over the natural numbers, with a set in the place of a         *)
(* predicate.                                                               *)

\* A set that has 0 and, with every number, the next one has them all.
LEMMA SetInduction ==
  ASSUME NEW T, 0 \in T, \A n \in Nat : n \in T => n + 1 \in T
  PROVE  \A n \in Nat : n \in T
<1> DEFINE R == OpToRel(<, Nat)
           M == Nat \ T
<1>1. SUFFICES ASSUME M # {} PROVE FALSE
  OBVIOUS
<1>2. IsWellFoundedOn(R, Nat)
  BY NatLessThanWellFounded, Zenon
<1>3. \A i, j \in Nat : i < j => <<i, j>> \in R
  BY Zenon DEF OpToRel
<1> HIDE DEF R
<1>4. PICK x \in M : \A y \in M : ~ (<<y, x>> \in R)
  BY <1>1, <1>2, WFMin, Zenon
<1>5. x # 0 /\ x \in Nat
  OBVIOUS
<1>6. x - 1 \in Nat /\ x - 1 < x /\ (x - 1) + 1 = x
  BY <1>5
<1>7. x - 1 \in T
  BY <1>3, <1>4, <1>5, <1>6, Zenon
<1> QED BY <1>6, <1>7, Zenon

\* f and g begin alike, and go on alike as long as they are alike.
GoAlike(f, g, m, n) ==
  /\ m <= n => f[m] = g[m]
  /\ \A k \in m + 1 .. n : f[k - 1] = g[k - 1] => f[k] = g[k]

\* Two such functions are the same from m to n.
Alike(f, g, m, n) == \A k \in m .. n : f[k] = g[k]

\* Functions that begin alike and go on alike are alike: what a recursive function
\* computes is proved by comparing it with the intended one.
LEMMA Agreement ==
  ASSUME NEW m \in Nat, NEW n \in Nat, NEW f, NEW g, GoAlike(f, g, m, n)
  PROVE  Alike(f, g, m, n)
<1> USE DEF GoAlike, Alike
<1> DEFINE T == {k \in Nat : m + k <= n => f[m + k] = g[m + k]}
<1>1. 0 \in T
  OBVIOUS
<1>2. ASSUME NEW k \in Nat, k \in T PROVE k + 1 \in T
  <2>1. SUFFICES ASSUME m + (k + 1) <= n PROVE f[m + (k + 1)] = g[m + (k + 1)]
    OBVIOUS
  <2>2. f[m + k] = g[m + k]
    BY <1>2, <2>1
  <2>3. (m + (k + 1)) - 1 = m + k /\ m + (k + 1) \in m + 1 .. n
    BY <2>1
  <2> QED BY <2>2, <2>3, Zenon
<1> HIDE DEF T
<1>3. \A k \in Nat : k \in T
  BY <1>1, <1>2, SetInduction, Zenon
<1> USE DEF T
<1>4. ASSUME NEW k \in m .. n PROVE f[k] = g[k]
  <2>1. k - m \in Nat /\ m + (k - m) = k /\ k <= n
    OBVIOUS
  <2> QED BY <1>3, <2>1, Zenon
<1> QED BY <1>4, Zenon

-----------------------------------------------------------------------------
(* Sequences of anything.                                                   *)

IsSeq(s) == \E S : s \in Seq(S)

\* A sequence is a function on 1 .. Len.
LEMMA SeqLen ==
  ASSUME NEW s, IsSeq(s)
  PROVE  Len(s) \in Nat /\ DOMAIN s = 1 .. Len(s) /\ s = [i \in 1 .. Len(s) |-> s[i]]
<1>1. PICK S : s \in Seq(S)
  BY Zenon DEF IsSeq
<1> QED BY <1>1

\* Sequences of the same length with the same elements are the same.
LEMMA SeqSame ==
  ASSUME NEW s, NEW t, IsSeq(s), IsSeq(t), Len(s) = Len(t), \A i \in 1 .. Len(s) : s[i] = t[i]
  PROVE  s = t
<1>1. s = [i \in 1 .. Len(s) |-> s[i]]
  BY SeqLen, Zenon
<1>2. t = [i \in 1 .. Len(s) |-> t[i]]
  BY SeqLen, Zenon
<1>3. [i \in 1 .. Len(s) |-> s[i]] = [i \in 1 .. Len(s) |-> t[i]]
  BY Zenon
<1> QED BY <1>1, <1>2, <1>3, Zenon

\* What \o does.
LEMMA ConcatIs ==
  ASSUME NEW s, NEW t, IsSeq(s), IsSeq(t)
  PROVE  /\ IsSeq(s \o t) /\ Len(s \o t) = Len(s) + Len(t)
         /\ \A i \in 1 .. Len(s) + Len(t) :
              (s \o t)[i] = IF i <= Len(s) THEN s[i] ELSE t[i - Len(s)]
<1>1. PICK S : s \in Seq(S)
  BY Zenon DEF IsSeq
<1>2. PICK T : t \in Seq(T)
  BY Zenon DEF IsSeq
<1>3. s \in Seq(S \cup T)
  BY <1>1
<1>4. t \in Seq(S \cup T)
  BY <1>2
<1> QED BY <1>3, <1>4 DEF IsSeq

\* \o is associative.
LEMMA ConcatAssoc ==
  ASSUME NEW s, NEW t, NEW u, IsSeq(s), IsSeq(t), IsSeq(u)
  PROVE  (s \o t) \o u = s \o (t \o u)
<1>1. PICK S : s \in Seq(S)
  BY Zenon DEF IsSeq
<1>2. PICK T : t \in Seq(T)
  BY Zenon DEF IsSeq
<1>3. PICK U : u \in Seq(U)
  BY Zenon DEF IsSeq
<1> DEFINE A == S \cup T \cup U
<1>4. s \in Seq(A) /\ t \in Seq(A) /\ u \in Seq(A)
  BY <1>1, <1>2, <1>3
<1> HIDE DEF A
<1> QED BY <1>4

\* The empty sequence.
LEMMA EmptyIs == IsSeq(<<>>) /\ Len(<<>>) = 0
BY DEF IsSeq

\* A function on 1 .. n is a sequence.
LEMMA FunctionIs ==
  ASSUME NEW n \in Nat, NEW f, f = [i \in 1 .. n |-> f[i]]
  PROVE  IsSeq(f) /\ Len(f) = n
<1> DEFINE S == {f[i] : i \in 1 .. n}
<1>1. f \in [1 .. n -> S]
  OBVIOUS
<1>2. f \in Seq(S)
  BY <1>1
<1>3. Len(f) \in Nat /\ DOMAIN f = 1 .. Len(f)
  BY <1>2
<1>4. 1 .. n = 1 .. Len(f)
  BY <1>1, <1>3, Zenon
<1>5. n = Len(f)
  BY <1>3, <1>4
<1> QED BY <1>2, <1>5, Zenon DEF IsSeq

\* A value takes as many bytes as its width says.
LEMMA BytesIs ==
  ASSUME NEW v, NEW width \in Nat
  PROVE  IsSeq(Bytes(v, width)) /\ Len(Bytes(v, width)) = width
BY FunctionIs, Zenon DEF Bytes

\* What Get compares the bytes with.
LEMMA ByteAt ==
  ASSUME NEW v, NEW width \in Nat, NEW k \in 1 .. width
  PROVE  Bytes(v, width)[k] = <<v, width, k>>
BY Zenon DEF Bytes

-----------------------------------------------------------------------------
(* What is where in a message.                                              *)

\* The bytes are in mem, the first of them at the offset at.
Holds(mem, at, bytes) ==
  /\ at \in Nat /\ at + Len(bytes) <= Len(mem)
  /\ \A i \in 1 .. Len(bytes) : mem[at + i] = bytes[i]

\* A sequence holds itself at 0.
LEMMA HoldsItself ==
  ASSUME NEW mem, IsSeq(mem)
  PROVE  Holds(mem, 0, mem)
BY SeqLen DEF Holds

\* Two pieces, one behind the other.
LEMMA HoldsBoth ==
  ASSUME NEW mem, NEW at, NEW s, NEW t, IsSeq(mem), IsSeq(s), IsSeq(t), Holds(mem, at, s \o t)
  PROVE  Holds(mem, at, s) /\ Holds(mem, at + Len(s), t)
<1>1. Len(s) \in Nat /\ Len(t) \in Nat /\ Len(mem) \in Nat
  BY SeqLen, Zenon
<1>2. Len(s \o t) = Len(s) + Len(t)
  BY ConcatIs, Zenon
<1>3. at \in Nat
  BY Zenon DEF Holds
<1>4. Holds(mem, at, s)
  <2>1. ASSUME NEW i \in 1 .. Len(s) PROVE mem[at + i] = s[i]
    <3>1. i \in 1 .. Len(s) + Len(t) /\ i <= Len(s)
      BY <1>1
    <3>2. (s \o t)[i] = s[i]
      BY <3>1, ConcatIs, Zenon
    <3> QED BY <1>2, <3>1, <3>2, Zenon DEF Holds
  <2> QED BY <1>1, <1>2, <1>3, <2>1 DEF Holds
<1>5. Holds(mem, at + Len(s), t)
  <2>1. ASSUME NEW i \in 1 .. Len(t) PROVE mem[(at + Len(s)) + i] = t[i]
    <3>1. /\ Len(s) + i \in 1 .. Len(s) + Len(t) /\ ~(Len(s) + i <= Len(s))
          /\ (Len(s) + i) - Len(s) = i /\ (at + Len(s)) + i = at + (Len(s) + i)
      BY <1>1, <1>3
    <3>2. (s \o t)[Len(s) + i] = t[i]
      BY <3>1, ConcatIs
    <3> QED BY <1>2, <3>1, <3>2, Zenon DEF Holds
  <2> QED BY <1>1, <1>2, <1>3, <2>1 DEF Holds
<1> QED BY <1>4, <1>5, Zenon

\* A value is read as it was written.
LEMMA GetHeld ==
  ASSUME NEW mem, NEW at, NEW v, NEW width \in Nat, width # 0 \/ v = Empty,
         IsSeq(mem), Holds(mem, at, Bytes(v, width))
  PROVE  Get(mem, at, width) = v
<1>1. CASE width = 0
  BY <1>1, Zenon DEF Get
<1>2. CASE width # 0
  <2> DEFINE bytes == SubSeq(mem, at + 1, at + width)
  <2>1. PICK S : mem \in Seq(S)
    BY Zenon DEF IsSeq
  <2>2. at \in Nat /\ at + width <= Len(mem)
    BY BytesIs, Zenon DEF Holds
  <2>3. \A i \in at + 1 .. at + width : mem[i] \in S
    BY <2>1, <2>2
  <2>4. /\ bytes \in Seq(S) /\ Len(bytes) = width
        /\ \A i \in 1 .. width : bytes[i] = mem[(at + 1) + i - 1]
    BY <1>2, <2>2, <2>3
  <2> HIDE DEF bytes
  <2>5. ASSUME NEW i \in 1 .. width PROVE bytes[i] = Bytes(v, width)[i]
    <3>1. (at + 1) + i - 1 = at + i
      BY <2>2
    <3> QED BY <2>4, <3>1, BytesIs, Zenon DEF Holds
  <2>6. bytes = Bytes(v, width)
    BY <2>4, <2>5, BytesIs, SeqSame, Zenon DEF IsSeq
  <2>7. Head(bytes)[1] = v
    BY <1>2, <2>6 DEF Bytes
  <2> QED BY <1>2, <2>6, <2>7, Zenon DEF Get, bytes
<1> QED BY <1>1, <1>2, Zenon

-----------------------------------------------------------------------------
(* FlattenSeq, part by part.                                                *)

\* The first parts of seqs, concatenated: what FlattenSeq computes on its way.
Joined(seqs) ==
  CHOOSE g : g = [i \in 1 .. Len(seqs) |-> IF i = 1 THEN seqs[i] ELSE g[i - 1] \o seqs[i]]

\* Where part k begins; behind the last part, where all of them end.
Start(seqs, k) == IF k = 1 THEN 0 ELSE Len(Joined(seqs)[k - 1])

\* The recursion of FlattenSeq has a solution.
LEMMA JoinedExists ==
  ASSUME NEW seqs, NEW n \in Nat
  PROVE  \E g : g = [i \in 1 .. n |-> IF i = 1 THEN seqs[i] ELSE g[i - 1] \o seqs[i]]
<1> DEFINE Eq(g, m) == g = [i \in 1 .. m |-> IF i = 1 THEN seqs[i] ELSE g[i - 1] \o seqs[i]]
           T == {m \in Nat : \E g : Eq(g, m)}
<1>1. 0 \in T
  <2>1. Eq([i \in 1 .. 0 |-> 0], 0)
    OBVIOUS
  <2> QED BY <2>1, Zenon
<1>2. ASSUME NEW m \in Nat, m \in T PROVE m + 1 \in T
  <2>1. PICK g : Eq(g, m)
    BY <1>2, Zenon
  <2> DEFINE h == [i \in 1 .. m + 1 |-> IF i = m + 1 THEN IF i = 1 THEN seqs[i] ELSE g[m] \o seqs[i]
                                        ELSE g[i]]
  <2>2. ASSUME NEW i \in 1 .. m + 1
        PROVE  h[i] = IF i = 1 THEN seqs[i] ELSE h[i - 1] \o seqs[i]
    <3>1. CASE i = m + 1
      <4>1. CASE i = 1
        BY <3>1, <4>1, Zenon
      <4>2. CASE i # 1
        <5>1. i - 1 \in 1 .. m + 1 /\ i - 1 # m + 1 /\ i - 1 = m
          BY <3>1, <4>2
        <5>2. h[i - 1] = g[m]
          BY <5>1, Zenon
        <5> QED BY <3>1, <4>2, <5>2, Zenon
      <4> QED BY <4>1, <4>2, Zenon
    <3>2. CASE i # m + 1
      <4>1. i \in 1 .. m /\ (i # 1 => i - 1 \in 1 .. m + 1 /\ i - 1 # m + 1)
        BY <3>2
      <4>2. h[i] = g[i] /\ (i # 1 => h[i - 1] = g[i - 1])
        BY <3>2, <4>1, Zenon
      <4>3. g[i] = IF i = 1 THEN seqs[i] ELSE g[i - 1] \o seqs[i]
        BY <2>1, <4>1, Zenon
      <4> QED BY <4>2, <4>3, Zenon
    <3> QED BY <3>1, <3>2, Zenon
  <2>3. h = [i \in 1 .. m + 1 |-> h[i]]
    OBVIOUS
  <2> HIDE DEF h
  <2>4. h = [i \in 1 .. m + 1 |-> IF i = 1 THEN seqs[i] ELSE h[i - 1] \o seqs[i]]
    BY <2>2, <2>3, Zenon
  <2>5. Eq(h, m + 1)
    BY <2>4, Zenon
  <2> HIDE DEF Eq
  <2> QED BY <2>5
<1> HIDE DEF T
<1>3. n \in T
  BY <1>1, <1>2, SetInduction, Zenon
<1> QED BY <1>3, Zenon DEF T

\* So Joined satisfies it.
LEMMA JoinedIs ==
  ASSUME NEW seqs, IsSeq(seqs), NEW i \in 1 .. Len(seqs)
  PROVE  Joined(seqs)[i] = IF i = 1 THEN seqs[i] ELSE Joined(seqs)[i - 1] \o seqs[i]
<1> DEFINE J == Joined(seqs)
<1>1. J = [k \in 1 .. Len(seqs) |-> IF k = 1 THEN seqs[k] ELSE J[k - 1] \o seqs[k]]
  <2>1. Len(seqs) \in Nat
    BY SeqLen, Zenon
  <2>2. \E g : g = [k \in 1 .. Len(seqs) |-> IF k = 1 THEN seqs[k] ELSE g[k - 1] \o seqs[k]]
    BY <2>1, JoinedExists, Zenon
  <2> QED BY <2>2, Zenon DEF Joined
<1> HIDE DEF J
<1>2. J[i] = IF i = 1 THEN seqs[i] ELSE J[i - 1] \o seqs[i]
  BY <1>1, Zenon
<1> QED BY <1>2, Zenon DEF J

\* FlattenSeq is the last of them.
LEMMA FlattenJoined ==
  ASSUME NEW seqs, Len(seqs) # 0
  PROVE  FlattenSeq(seqs) = Joined(seqs)[Len(seqs)]
BY Zenon DEF FlattenSeq, Joined

AllSeqs(seqs) == IsSeq(seqs) /\ \A i \in 1 .. Len(seqs) : IsSeq(seqs[i])

\* Sequences joined are a sequence.
LEMMA JoinedSeq ==
  ASSUME NEW seqs, AllSeqs(seqs)
  PROVE  \A i \in 1 .. Len(seqs) : IsSeq(Joined(seqs)[i])
<1> DEFINE J == Joined(seqs)
           T == {k \in Nat : k + 1 \in 1 .. Len(seqs) => IsSeq(J[k + 1])}
<1>0. Len(seqs) \in Nat
  BY SeqLen, Zenon DEF AllSeqs
<1>1. 0 \in T
  <2>1. SUFFICES ASSUME 1 \in 1 .. Len(seqs) PROVE IsSeq(J[1])
    OBVIOUS
  <2> QED BY <2>1, JoinedIs, Zenon DEF AllSeqs
<1>2. ASSUME NEW k \in Nat, k \in T PROVE k + 1 \in T
  <2>1. SUFFICES ASSUME k + 2 \in 1 .. Len(seqs) PROVE IsSeq(J[k + 2])
    OBVIOUS
  <2>2. IsSeq(J[k + 1]) /\ IsSeq(seqs[k + 2])
    BY <1>0, <1>2, <2>1 DEF AllSeqs
  <2>3. k + 2 # 1 /\ (k + 2) - 1 = k + 1
    OBVIOUS
  <2>4. J[k + 2] = J[k + 1] \o seqs[k + 2]
    BY <2>1, <2>3, JoinedIs, Zenon DEF AllSeqs
  <2> QED BY <2>2, <2>4, ConcatIs
<1> HIDE DEF T
<1>3. \A k \in Nat : k \in T
  BY <1>1, <1>2, SetInduction, Zenon
<1>4. ASSUME NEW i \in 1 .. Len(seqs) PROVE IsSeq(J[i])
  <2>1. i - 1 \in Nat /\ (i - 1) + 1 = i
    BY <1>0
  <2>2. i - 1 \in T
    BY <1>3, <2>1, Zenon
  <2> QED BY <2>1, <2>2, Zenon DEF T
<1> QED BY <1>4, Zenon

\* A part begins where the part before it ends, and the last one ends at the end.
LEMMA StartIs ==
  ASSUME NEW seqs, AllSeqs(seqs)
  PROVE  /\ Len(seqs) \in Nat
         /\ IsSeq(FlattenSeq(seqs)) /\ Len(FlattenSeq(seqs)) = Start(seqs, Len(seqs) + 1)
         /\ Start(seqs, 1) = 0
         /\ \A k \in 1 .. Len(seqs) + 1 : Start(seqs, k) \in Nat
         /\ \A k \in 1 .. Len(seqs) : Start(seqs, k + 1) = Start(seqs, k) + Len(seqs[k])
<1>0. Len(seqs) \in Nat
  BY SeqLen, Zenon DEF AllSeqs
<1>1. IsSeq(FlattenSeq(seqs)) /\ Len(FlattenSeq(seqs)) = Start(seqs, Len(seqs) + 1)
  <2>1. CASE Len(seqs) = 0
    BY <2>1 DEF FlattenSeq, AllSeqs, Start
  <2>2. CASE Len(seqs) # 0
    <3>1. Len(seqs) \in 1 .. Len(seqs) /\ Len(seqs) + 1 # 1 /\ (Len(seqs) + 1) - 1 = Len(seqs)
      BY <1>0, <2>2
    <3> QED BY <2>2, <3>1, FlattenJoined, JoinedSeq, Zenon DEF Start
  <2> QED BY <2>1, <2>2, Zenon
<1>2. Start(seqs, 1) = 0
  BY Zenon DEF Start
<1>3. ASSUME NEW k \in 1 .. Len(seqs) + 1 PROVE Start(seqs, k) \in Nat
  <2>1. CASE k = 1
    BY <2>1, <1>2
  <2>2. CASE k # 1
    <3>1. k - 1 \in 1 .. Len(seqs)
      BY <1>0, <2>2
    <3>2. IsSeq(Joined(seqs)[k - 1])
      BY <3>1, JoinedSeq, Zenon
    <3> QED BY <2>2, <3>2, SeqLen, Zenon DEF Start
  <2> QED BY <2>1, <2>2, Zenon
<1>4. ASSUME NEW k \in 1 .. Len(seqs)
      PROVE  Start(seqs, k + 1) = Start(seqs, k) + Len(seqs[k])
  <2>1. Start(seqs, k + 1) = Len(Joined(seqs)[k])
    BY <1>0 DEF Start
  <2>2. IsSeq(seqs[k]) /\ Len(seqs[k]) \in Nat
    BY SeqLen, Zenon DEF AllSeqs
  <2>3. CASE k = 1
    <3>1. Joined(seqs)[k] = seqs[k]
      BY <2>3, JoinedIs, Zenon DEF AllSeqs
    <3> QED BY <1>2, <2>1, <2>2, <2>3, <3>1
  <2>4. CASE k # 1
    <3>1. k - 1 \in 1 .. Len(seqs)
      BY <1>0, <2>4
    <3>2. IsSeq(Joined(seqs)[k - 1])
      BY <3>1, JoinedSeq, Zenon
    <3>3. Joined(seqs)[k] = Joined(seqs)[k - 1] \o seqs[k]
      BY <2>4, JoinedIs, Zenon DEF AllSeqs
    <3>4. Len(Joined(seqs)[k]) = Len(Joined(seqs)[k - 1]) + Len(seqs[k])
      BY <2>2, <3>2, <3>3, ConcatIs, Zenon
    <3> QED BY <2>1, <2>4, <3>4, Zenon DEF Start
  <2> QED BY <2>3, <2>4, Zenon
<1> QED BY <1>0, <1>1, <1>2, <1>3, <1>4, Zenon

\* Each part is where it begins.
LEMMA HoldsParts ==
  ASSUME NEW mem, NEW at, NEW seqs, AllSeqs(seqs), IsSeq(mem), Holds(mem, at, FlattenSeq(seqs))
  PROVE  \A k \in 1 .. Len(seqs) : Holds(mem, at + Start(seqs, k), seqs[k])
<1> DEFINE n == Len(seqs)
           J == Joined(seqs)
           T == {i \in Nat : n - i \in 1 .. n => Holds(mem, at, J[n - i])}
<1>0. n \in Nat /\ at \in Nat
  BY SeqLen, Zenon DEF AllSeqs, Holds
<1>1. 0 \in T
  BY <1>0, FlattenJoined
<1>2. ASSUME NEW k \in 1 .. n, k # 1, Holds(mem, at, J[k])
      PROVE  Holds(mem, at, J[k - 1]) /\ Holds(mem, at + Len(J[k - 1]), seqs[k])
  <2>1. J[k] = J[k - 1] \o seqs[k]
    BY <1>2, JoinedIs, Zenon DEF AllSeqs
  <2>2. k - 1 \in 1 .. n
    BY <1>0, <1>2
  <2>3. IsSeq(J[k - 1]) /\ IsSeq(seqs[k])
    BY <2>2, JoinedSeq, Zenon DEF AllSeqs
  <2> QED BY <1>2, <2>1, <2>3, HoldsBoth, Zenon
<1>3. ASSUME NEW i \in Nat, i \in T PROVE i + 1 \in T
  <2>1. SUFFICES ASSUME n - (i + 1) \in 1 .. n PROVE Holds(mem, at, J[n - (i + 1)])
    OBVIOUS
  <2>2. n - i \in 1 .. n /\ n - i # 1 /\ (n - i) - 1 = n - (i + 1)
    BY <1>0, <2>1
  <2>3. Holds(mem, at, J[(n - i) - 1])
    BY <1>2, <1>3, <2>2, Zenon
  <2> QED BY <2>2, <2>3, Zenon
<1> HIDE DEF T
<1>4. \A i \in Nat : i \in T
  BY <1>1, <1>3, SetInduction, Zenon
<1>5. ASSUME NEW k \in 1 .. n PROVE Holds(mem, at, J[k])
  <2>1. n - k \in Nat /\ n - (n - k) = k
    BY <1>0
  <2>2. n - k \in T
    BY <1>4, <2>1, Zenon
  <2> QED BY <2>1, <2>2, Zenon DEF T
<1>6. ASSUME NEW k \in 1 .. n PROVE Holds(mem, at + Start(seqs, k), seqs[k])
  <2>1. CASE k = 1
    <3>1. J[k] = seqs[k]
      BY <2>1, JoinedIs, Zenon DEF AllSeqs
    <3>2. at + Start(seqs, k) = at
      BY <1>0, <2>1 DEF Start
    <3> QED BY <1>5, <3>1, <3>2, Zenon
  <2>2. CASE k # 1
    BY <1>2, <1>5, <2>2, Zenon DEF Start
  <2> QED BY <2>1, <2>2, Zenon
<1> QED BY <1>6, Zenon

\* One part more.
LEMMA FlattenAppend ==
  ASSUME NEW seqs, NEW s, AllSeqs(seqs), IsSeq(s), NEW more, IsSeq(more),
         Len(more) = Len(seqs) + 1, \A i \in 1 .. Len(seqs) : more[i] = seqs[i],
         more[Len(seqs) + 1] = s
  PROVE  FlattenSeq(more) = FlattenSeq(seqs) \o s
<1> DEFINE n == Len(seqs)
           F == Joined(seqs)
           G == Joined(more)
<1>0. n \in Nat
  BY SeqLen, Zenon DEF AllSeqs
<1>1. 1 <= n => F[1] = G[1]
  <2>1. SUFFICES ASSUME 1 <= n PROVE F[1] = G[1]
    OBVIOUS
  <2>2. 1 \in 1 .. Len(seqs) /\ 1 \in 1 .. Len(more)
    BY <1>0, <2>1
  <2>3. F[1] = seqs[1]
    BY <2>2, JoinedIs, Zenon DEF AllSeqs
  <2>4. G[1] = more[1]
    BY <2>2, JoinedIs, Zenon
  <2> QED BY <2>2, <2>3, <2>4, Zenon
<1>2. ASSUME NEW k \in 1 + 1 .. n, F[k - 1] = G[k - 1] PROVE F[k] = G[k]
  <2>1. k \in 1 .. Len(seqs) /\ k \in 1 .. Len(more) /\ k # 1
    BY <1>0
  <2>2. F[k] = F[k - 1] \o seqs[k]
    BY <2>1, JoinedIs, Zenon DEF AllSeqs
  <2>3. G[k] = G[k - 1] \o more[k]
    BY <2>1, JoinedIs, Zenon
  <2> QED BY <1>2, <2>1, <2>2, <2>3, Zenon
<1> HIDE DEF F, G
<1>3. \A k \in 1 .. n : F[k] = G[k]
  <2> HIDE DEF n
  <2>1. GoAlike(F, G, 1, n)
    BY <1>1, <1>2, Zenon DEF GoAlike
  <2>2. 1 \in Nat
    OBVIOUS
  <2>3. Alike(F, G, 1, n)
    BY <1>0, <2>1, <2>2, Agreement, Zenon
  <2> QED BY <2>3, Zenon DEF Alike
<1> USE DEF F, G
<1>4. n + 1 \in 1 .. Len(more) /\ Len(more) # 0 /\ (n + 1) - 1 = n
  BY <1>0
<1>5. FlattenSeq(more) = G[n + 1]
  BY <1>4, FlattenJoined, Zenon
<1>6. CASE n = 0
  <2>1. FlattenSeq(seqs) = <<>>
    BY <1>6 DEF FlattenSeq, AllSeqs, IsSeq
  <2>2. G[n + 1] = s
    BY <1>4, <1>6, JoinedIs
  <2>3. s = <<>> \o s
    BY DEF IsSeq
  <2> QED BY <1>5, <2>1, <2>2, <2>3, Zenon
<1>7. CASE n # 0
  <2>1. n \in 1 .. n /\ n + 1 # 1
    BY <1>0, <1>7
  <2>2. FlattenSeq(seqs) = F[n]
    BY <1>7, FlattenJoined, Zenon
  <2>3. G[n + 1] = G[(n + 1) - 1] \o more[n + 1]
    BY <1>4, <2>1, JoinedIs, Zenon
  <2> QED BY <1>3, <1>4, <1>5, <2>1, <2>2, <2>3, Zenon
<1> QED BY <1>6, <1>7, Zenon

\* What Append does.
LEMMA AppendIs ==
  ASSUME NEW s, NEW e, IsSeq(s)
  PROVE  /\ IsSeq(Append(s, e)) /\ Len(Append(s, e)) = Len(s) + 1
         /\ \A i \in 1 .. Len(s) : Append(s, e)[i] = s[i]
         /\ Append(s, e)[Len(s) + 1] = e
<1>1. PICK S : s \in Seq(S)
  BY Zenon DEF IsSeq
<1>2. s \in Seq(S \cup {e})
  BY <1>1
<1> QED BY <1>2 DEF IsSeq

\* The first k elements of a sequence grow by the next one.
LEMMA PrefixAppend ==
  ASSUME NEW s, NEW k \in Nat \ {0}
  PROVE  Append([i \in 1 .. k - 1 |-> s[i]], s[k]) = [i \in 1 .. k |-> s[i]]
<1> DEFINE p == [i \in 1 .. k - 1 |-> s[i]]
           q == [i \in 1 .. k |-> s[i]]
<1>1. IsSeq(p) /\ Len(p) = k - 1
  BY FunctionIs
<1>2. IsSeq(q) /\ Len(q) = k
  BY FunctionIs, Zenon
<1> DEFINE a == Append(p, s[k])
<1>3. IsSeq(a) /\ Len(a) = k /\ (\A i \in 1 .. k - 1 : a[i] = p[i]) /\ a[k] = s[k]
  <2> HIDE DEF p
  <2>1. (k - 1) + 1 = k
    OBVIOUS
  <2> QED BY <1>1, <2>1, AppendIs
<1> HIDE DEF a
<1>4. ASSUME NEW i \in 1 .. k PROVE a[i] = q[i]
  <2>1. CASE i = k
    BY <1>3, <2>1, Zenon
  <2>2. CASE i \in 1 .. k - 1
    BY <1>3, <2>2, Zenon
  <2> QED BY <2>1, <2>2
<1>5. a = q
  BY <1>2, <1>3, <1>4, SeqSame, Zenon
<1> QED BY <1>5, Zenon DEF a

\* A put over the head of a buffer replaces the head and nothing else.
LEMMA PutAtHead ==
  ASSUME NEW s, NEW t, NEW u, IsSeq(s), IsSeq(t), IsSeq(u), Len(s) = Len(t)
  PROVE  PutAt(s \o u, 0, t) = t \o u
<1> DEFINE m == s \o u
           n == Len(s) + Len(u)
           p == PutAt(m, 0, t)
<1>1. Len(s) \in Nat /\ Len(u) \in Nat
  BY SeqLen, Zenon
<1>2. Len(m) = n
  BY ConcatIs, Zenon
<1>3. p = [i \in 1 .. n |-> IF i \in 0 + 1 .. 0 + Len(t) THEN t[i - 0] ELSE m[i]]
  BY <1>2, Zenon DEF PutAt
<1>4. IsSeq(t \o u) /\ Len(t \o u) = n
  BY ConcatIs, Zenon
<1> HIDE DEF p
<1>5. IsSeq(p) /\ Len(p) = n
  <2>1. n \in Nat
    BY <1>1
  <2>2. p = [i \in 1 .. n |-> p[i]]
    BY <1>3, Zenon
  <2> HIDE DEF n
  <2> QED BY <2>1, <2>2, FunctionIs, Zenon
<1>6. ASSUME NEW i \in 1 .. n PROVE p[i] = (t \o u)[i]
  <2>1. (t \o u)[i] = IF i <= Len(t) THEN t[i] ELSE u[i - Len(t)]
    BY ConcatIs, Zenon
  <2>2. m[i] = IF i <= Len(s) THEN s[i] ELSE u[i - Len(s)]
    BY ConcatIs, Zenon
  <2>3. p[i] = IF i \in 0 + 1 .. 0 + Len(t) THEN t[i - 0] ELSE m[i]
    BY <1>3, Zenon
  <2>4. i - 0 = i /\ (i \in 0 + 1 .. 0 + Len(t) <=> i <= Len(t))
    BY <1>1
  <2> QED BY <2>1, <2>2, <2>3, <2>4
<1>7. p = t \o u
  BY <1>4, <1>5, <1>6, SeqSame, Zenon
<1> QED BY <1>7, Zenon DEF p

-----------------------------------------------------------------------------
(* Room in a buffer.                                                        *)

\* The recursion of EnsureCapacity has a solution.
LEMMA DoubledExists ==
  ASSUME NEW c \in Nat, NEW n \in Nat
  PROVE  \E g : g = [i \in 0 .. n |-> IF i = 0 THEN c ELSE 2 * g[i - 1]]
<1> DEFINE Eq(g, m) == g = [i \in 0 .. m |-> IF i = 0 THEN c ELSE 2 * g[i - 1]]
           T == {m \in Nat : \E g : Eq(g, m)}
<1>1. 0 \in T
  <2>1. Eq([i \in 0 .. 0 |-> c], 0)
    OBVIOUS
  <2> QED BY <2>1, Zenon
<1>2. ASSUME NEW m \in Nat, m \in T PROVE m + 1 \in T
  <2>1. PICK g : Eq(g, m)
    BY <1>2, Zenon
  <2> DEFINE h == [i \in 0 .. m + 1 |-> IF i = m + 1 THEN 2 * g[m] ELSE g[i]]
  <2>2. ASSUME NEW i \in 0 .. m + 1 PROVE h[i] = IF i = 0 THEN c ELSE 2 * h[i - 1]
    <3>1. CASE i = m + 1
      <4>1. i # 0 /\ i - 1 \in 0 .. m + 1 /\ i - 1 # m + 1 /\ i - 1 = m
        BY <3>1
      <4>2. h[i - 1] = g[m]
        BY <4>1, Zenon
      <4> QED BY <3>1, <4>1, <4>2, Zenon
    <3>2. CASE i # m + 1
      <4>1. i \in 0 .. m /\ (i # 0 => i - 1 \in 0 .. m + 1 /\ i - 1 # m + 1)
        BY <3>2
      <4>2. h[i] = g[i] /\ (i # 0 => h[i - 1] = g[i - 1])
        BY <3>2, <4>1, Zenon
      <4>3. g[i] = IF i = 0 THEN c ELSE 2 * g[i - 1]
        BY <2>1, <4>1, Zenon
      <4> QED BY <4>2, <4>3, Zenon
    <3> QED BY <3>1, <3>2, Zenon
  <2>3. h = [i \in 0 .. m + 1 |-> h[i]]
    OBVIOUS
  <2> HIDE DEF h
  <2>4. h = [i \in 0 .. m + 1 |-> IF i = 0 THEN c ELSE 2 * h[i - 1]]
    BY <2>2, <2>3, Zenon
  <2>5. Eq(h, m + 1)
    BY <2>4, Zenon
  <2> HIDE DEF Eq
  <2> QED BY <2>5
<1> HIDE DEF T
<1>3. n \in T
  BY <1>1, <1>2, SetInduction, Zenon
<1> QED BY <1>3, Zenon DEF T

\* ensureRemaining() makes the room it is asked for and keeps what was written.
LEMMA EnsureRemainingIs ==
  ASSUME NEW b, DOMAIN b = {"mem", "capacity"}, IsSeq(b.mem), b.capacity \in Nat \ {0},
         NEW amount \in Nat
  PROVE  LET r == EnsureRemaining(b, amount)
         IN  /\ DOMAIN r = {"mem", "capacity"} /\ r.mem = b.mem /\ r.capacity \in Nat \ {0}
             /\ r.capacity - Len(r.mem) >= amount
<1>0. Len(b.mem) \in Nat
  BY SeqLen, Zenon
<1>1. CASE ~(b.capacity - Len(b.mem) < amount)
  BY <1>0, <1>1 DEF EnsureRemaining
<1>2. CASE b.capacity - Len(b.mem) < amount
  <2> DEFINE c == b.capacity
             size == Len(b.mem) + amount
             doubled == CHOOSE g : g = [i \in 0 .. size |-> IF i = 0 THEN c ELSE 2 * g[i - 1]]
             Enough(n) == doubled[n] >= size
             times == CHOOSE n \in 0 .. size : Enough(n) /\ (n = 0 \/ ~Enough(n - 1))
  <2>1. size \in Nat /\ c \in Nat \ {0}
    BY <1>0
  <2> HIDE DEF size, c
  <2>2. doubled = [i \in 0 .. size |-> IF i = 0 THEN c ELSE 2 * doubled[i - 1]]
    <3>1. \E g : g = [i \in 0 .. size |-> IF i = 0 THEN c ELSE 2 * g[i - 1]]
      BY <2>1, DoubledExists, Zenon
    <3> QED BY <3>1, Zenon
  <2> HIDE DEF doubled
  <2>3. \A n \in 0 .. size : doubled[n] \in Nat /\ doubled[n] > n
    <3> DEFINE T == {n \in Nat : n \in 0 .. size => doubled[n] \in Nat /\ doubled[n] > n}
    <3>1. 0 \in T
      BY <2>1, <2>2
    <3>2. ASSUME NEW n \in Nat, n \in T PROVE n + 1 \in T
      <4>1. SUFFICES ASSUME n + 1 \in 0 .. size
                     PROVE  doubled[n + 1] \in Nat /\ doubled[n + 1] > n + 1
        OBVIOUS
      <4>2. n \in 0 .. size /\ n + 1 # 0 /\ (n + 1) - 1 = n
        BY <2>1, <4>1
      <4>3. doubled[n + 1] = 2 * doubled[n]
        BY <2>2, <4>1, <4>2, Zenon
      <4>4. doubled[n] \in Nat /\ doubled[n] > n
        BY <3>2, <4>2, Zenon
      <4> QED BY <4>3, <4>4
    <3> HIDE DEF T
    <3>3. \A n \in Nat : n \in T
      BY <3>1, <3>2, SetInduction, Zenon
    <3> QED BY <2>1, <3>3 DEF T
  <2>4. \E n \in 0 .. size : Enough(n) /\ (n = 0 \/ ~Enough(n - 1))
    <3>1. SUFFICES ASSUME \A n \in 0 .. size : Enough(n) => n # 0 /\ Enough(n - 1)
                   PROVE  FALSE
      OBVIOUS
    <3> DEFINE T == {n \in Nat : n \in 0 .. size => ~Enough(n)}
    <3>2. 0 \in T
      BY <2>1, <3>1, Zenon
    <3>3. ASSUME NEW n \in Nat, n \in T PROVE n + 1 \in T
      <4>1. SUFFICES ASSUME n + 1 \in 0 .. size PROVE ~Enough(n + 1)
        OBVIOUS
      <4>2. n \in 0 .. size /\ (n + 1) - 1 = n
        BY <2>1, <4>1
      <4>3. ~Enough(n)
        BY <3>3, <4>2, Zenon
      <4> QED BY <3>1, <4>1, <4>2, <4>3, Zenon
    <3>4. size \in 0 .. size /\ Enough(size)
      BY <2>1, <2>3
    <3> HIDE DEF T
    <3>5. size \in T
      BY <2>1, <3>2, <3>3, SetInduction, Zenon
    <3> QED BY <2>1, <3>4, <3>5, Zenon DEF T
  <2>5. times \in 0 .. size /\ Enough(times)
    BY <2>4, Zenon
  <2>6. EnsureRemaining(b, amount) = [b EXCEPT !.capacity = doubled[times]]
    BY <1>2, Zenon DEF EnsureRemaining, EnsureCapacity, doubled, size, c
  <2> HIDE DEF times
  <2>7. doubled[times] \in Nat /\ doubled[times] > 0 /\ doubled[times] >= size
    BY <2>1, <2>3, <2>5
  <2> QED BY <1>0, <2>6, <2>7 DEF size
<1> QED BY <1>1, <1>2, Zenon

-----------------------------------------------------------------------------
(* What a procedure writes.                                                 *)

Written == Parameter \cup {Null}
Encodings(list) == [i \in 1 .. Len(list) |-> Encoding(list[i])]

\* What is in the buffer and in the message.
BufferOf(n, list) == Bytes(n, 2) \o FlattenSeq(Encodings(list))
Body(id, rest) ==
  Bytes(0, 1) \o Bytes(NameSize, 4) \o Bytes(Name, NameSize) \o Bytes(id, 8) \o rest
Invocation(id, rest) == Bytes(Len(Body(id, rest)), 4) \o Body(id, rest)

\* The application holds no pointer to the parameters, and there is no count.
Untouched == m_dynamicParamCount /\ ~asked

\* The buffer holds the number of the parameters in the list and what was given.
BufferInv ==
  /\ m_parameters \in Seq([type : Type, array : BOOLEAN])
  /\ given \in Seq(Written) /\ m_currentParam = Len(given)
  /\ DOMAIN m_buffer = {"mem", "capacity"} /\ m_buffer.capacity \in Nat \ {0}
  /\ m_buffer.mem = IF Untouched THEN <<>> ELSE BufferOf(Len(m_parameters), given)
  /\ Untouched => given = <<>>

\* The last message holds the number of the parameters given for it and them.
MessageInv ==
  /\ sent \in Seq(Written) /\ m_nextRequestId \in Nat
  /\ message = <<>> \/ bare => sent = <<>>
  /\ message # <<>> /\ ~bare =>
       message = Invocation(m_nextRequestId - 1, BufferOf(Len(sent), sent))

-----------------------------------------------------------------------------
(* What the server reads where an add function wrote.                       *)

\* A type of fixed size takes at least one byte.
LEMMA WidthIs ==
  ASSUME NEW t \in WireTypes \ Sized
  PROVE  Width(t) \in Nat \ {0}
BY DEF Width, WireTypes, Sized, WIRE_TYPE_STRING, WIRE_TYPE_VARBINARY

\* How many bytes a value of a type takes.
LEMMA ItemIs ==
  ASSUME NEW t \in WireTypes, NEW v \in Value
  PROVE  /\ IsSeq(Item(t, v))
         /\ Len(Item(t, v)) = IF t \in Sized THEN 4 + Size[v] ELSE Width(t)
<1>1. CASE t \in Sized
  <2>1. Size[v] \in Nat
    BY SizeAssumption, Zenon
  <2> QED BY <1>1, <2>1, BytesIs, ConcatIs DEF Item
<1>2. CASE t \notin Sized
  BY <1>2, WidthIs, BytesIs, Zenon DEF Item
<1> QED BY <1>1, <1>2, Zenon

\* The server reads a value where it was written.
LEMMA ReadItemIs ==
  ASSUME NEW mem, NEW at, NEW t \in WireTypes, NEW v \in Value, IsSeq(mem),
         Holds(mem, at, Item(t, v))
  PROVE  ReadItem(mem, at, t) = [value |-> v, end |-> at + Len(Item(t, v))]
<1>0. at \in Nat
  BY Zenon DEF Holds
<1>1. CASE t \in Sized
  <2> DEFINE n == Size[v]
  <2>1. n \in Nat /\ (n = 0 => v = Empty)
    BY SizeAssumption, Zenon
  <2> HIDE DEF n
  <2>2. /\ IsSeq(Bytes(n, 4)) /\ Len(Bytes(n, 4)) = 4
        /\ IsSeq(Bytes(v, n)) /\ Len(Bytes(v, n)) = n
    BY <2>1, BytesIs, Zenon
  <2>3. Item(t, v) = Bytes(n, 4) \o Bytes(v, n)
    BY <1>1, Zenon DEF Item, n
  <2>4. Holds(mem, at, Bytes(n, 4)) /\ Holds(mem, at + 4, Bytes(v, n))
    BY <2>2, <2>3, HoldsBoth, Zenon
  <2>5. Get(mem, at, 4) = n
    BY <2>4, GetHeld
  <2>6. Get(mem, at + 4, n) = v
    BY <2>1, <2>4, GetHeld, Zenon
  <2>7. Len(Item(t, v)) = 4 + n
    BY <1>1, ItemIs, Zenon DEF n
  <2>8. at + Len(Item(t, v)) = at + 4 + n
    BY <1>0, <2>1, <2>7
  <2> QED BY <1>1, <2>5, <2>6, <2>8, Zenon DEF ReadItem
<1>2. CASE t \notin Sized
  <2>1. Width(t) \in Nat \ {0}
    BY <1>2, WidthIs, Zenon
  <2>2. Get(mem, at, Width(t)) = v
    BY <1>2, <2>1, GetHeld, Zenon DEF Item
  <2>3. Len(Item(t, v)) = Width(t)
    BY <1>2, ItemIs, Zenon
  <2> QED BY <1>2, <2>2, <2>3, Zenon DEF ReadItem
<1> QED BY <1>1, <1>2, Zenon

\* The values of an array, or the one value, each as it is written.
Pieces(t, values) == [i \in DOMAIN values |-> Item(t, values[i])]

\* A list of values of the type t; a null has none.
Valued(t, values) == values \in Seq(Value) /\ (values = <<>> \/ t \in WireTypes)

\* The values of an array, each as its bytes.
LEMMA PiecesAre ==
  ASSUME NEW t, NEW values, Valued(t, values)
  PROVE  /\ AllSeqs(Pieces(t, values)) /\ Len(Pieces(t, values)) = Len(values)
         /\ \A i \in 1 .. Len(values) : Pieces(t, values)[i] = Item(t, values[i])
<1> DEFINE q == Pieces(t, values)
<1>1. values \in Seq(Value) /\ Len(values) \in Nat /\ DOMAIN values = 1 .. Len(values)
  BY DEF Valued
<1>2. q = [i \in 1 .. Len(values) |-> Item(t, values[i])]
  BY <1>1, Zenon DEF Pieces
<1> HIDE DEF q
<1>3. q = [i \in 1 .. Len(values) |-> q[i]]
  BY <1>2, Zenon
<1>4. IsSeq(q) /\ Len(q) = Len(values)
  BY <1>1, <1>3, FunctionIs, Zenon
<1>5. ASSUME NEW i \in 1 .. Len(values) PROVE q[i] = Item(t, values[i]) /\ IsSeq(q[i])
  <2>1. values[i] \in Value
    BY <1>1
  <2>2. t \in WireTypes
    BY <1>1 DEF Valued
  <2> QED BY <1>2, <2>1, <2>2, ItemIs, Zenon
<1> QED BY <1>4, <1>5, Zenon DEF q, AllSeqs

\* A list of values is read value by value, to its end.
LEMMA ReadItemsIs ==
  ASSUME NEW mem, NEW at, NEW t, NEW values, Valued(t, values), IsSeq(mem),
         Holds(mem, at, FlattenSeq(Pieces(t, values)))
  PROVE  ReadItems(mem, at, t, Len(values))
           = [values |-> values, end |-> at + Len(FlattenSeq(Pieces(t, values)))]
<1> DEFINE n == Len(values)
           q == Pieces(t, values)
           Eq(f) == f = [k \in 0 .. n |->
                      IF k = 0 THEN [values |-> <<>>, end |-> at]
                      ELSE LET item == ReadItem(mem, f[k - 1].end, t)
                           IN  [values |-> Append(f[k - 1].values, item.value),
                                end |-> item.end]]
           w == [k \in 0 .. n |-> [values |-> [i \in 1 .. k |-> values[i]],
                                   end |-> at + Start(q, k + 1)]]
<1>0. at \in Nat /\ n \in Nat /\ values \in Seq(Value)
  BY DEF Holds, Valued
<1>1. /\ AllSeqs(q) /\ Len(q) = n
      /\ \A i \in 1 .. n : q[i] = Item(t, values[i])
  BY PiecesAre, Zenon
<1>2. /\ Start(q, 1) = 0 /\ Len(FlattenSeq(q)) = Start(q, n + 1)
      /\ \A k \in 1 .. n + 1 : Start(q, k) \in Nat
      /\ \A k \in 1 .. n : Start(q, k + 1) = Start(q, k) + Len(q[k])
  BY <1>1, StartIs, Zenon
<1>3. \A k \in 1 .. n : Holds(mem, at + Start(q, k), q[k])
  BY <1>1, HoldsParts, Zenon
<1>4. ASSUME NEW k \in 1 .. n
      PROVE  ReadItem(mem, at + Start(q, k), t) = [value |-> values[k], end |-> at + Start(q, k + 1)]
  <2>1. values[k] \in Value /\ t \in WireTypes
    BY <1>0 DEF Valued
  <2>2. Holds(mem, at + Start(q, k), Item(t, values[k]))
    BY <1>1, <1>3, Zenon
  <2>3. ReadItem(mem, at + Start(q, k), t)
          = [value |-> values[k], end |-> at + Start(q, k) + Len(Item(t, values[k]))]
    BY <2>1, <2>2, ReadItemIs, Zenon
  <2>4. Len(Item(t, values[k])) \in Nat /\ Start(q, k) \in Nat
    BY <1>0, <1>2, <2>1, ItemIs, SeqLen
  <2>5. at + Start(q, k) + Len(Item(t, values[k])) = at + Start(q, k + 1)
    BY <1>0, <1>1, <1>2, <2>4
  <2> QED BY <2>3, <2>5, Zenon
<1>5. Eq(w)
  <2>1. ASSUME NEW k \in 0 .. n
        PROVE  w[k] = IF k = 0 THEN [values |-> <<>>, end |-> at]
                      ELSE LET item == ReadItem(mem, w[k - 1].end, t)
                           IN  [values |-> Append(w[k - 1].values, item.value),
                                end |-> item.end]
    <3>1. CASE k = 0
      <4>1. [i \in 1 .. 0 |-> values[i]] = <<>>
        OBVIOUS
      <4>2. at + Start(q, 0 + 1) = at
        BY <1>0, <1>2
      <4> QED BY <1>0, <3>1, <4>1, <4>2, Zenon
    <3>2. CASE k # 0
      <4>1. k \in 1 .. n /\ k - 1 \in 0 .. n /\ (k - 1) + 1 = k /\ k \in Nat \ {0}
        BY <1>0, <3>2
      <4> DEFINE before == [i \in 1 .. k - 1 |-> values[i]]
                 after == [i \in 1 .. k |-> values[i]]
      <4>2. w[k - 1] = [values |-> before, end |-> at + Start(q, k)]
        BY <4>1, Zenon
      <4>3. w[k] = [values |-> after, end |-> at + Start(q, k + 1)]
        OBVIOUS
      <4>4. Append(before, values[k]) = after
        BY <4>1, PrefixAppend, Zenon
      <4>5. ReadItem(mem, at + Start(q, k), t) = [value |-> values[k], end |-> at + Start(q, k + 1)]
        BY <1>4, <4>1, Zenon
      <4> HIDE DEF w, before, after, q, n
      <4>6. w[k - 1].end = at + Start(q, k) /\ w[k - 1].values = before
        BY <4>2
      <4> DEFINE item == ReadItem(mem, w[k - 1].end, t)
      <4>7. item.value = values[k] /\ item.end = at + Start(q, k + 1)
        BY <4>5, <4>6
      <4>8. w[k] = [values |-> Append(w[k - 1].values, item.value), end |-> item.end]
        BY <4>3, <4>4, <4>6, <4>7, Zenon
      <4> QED BY <3>2, <4>8, Zenon
    <3> QED BY <3>1, <3>2, Zenon
  <2>2. w = [k \in 0 .. n |-> w[k]]
    OBVIOUS
  <2> HIDE DEF w
  <2> QED BY <2>1, <2>2, Zenon
<1> DEFINE r == CHOOSE f : Eq(f)
<1>6. Eq(r)
  <2> HIDE DEF Eq
  <2> QED BY <1>5, Zenon
<1> HIDE DEF r
<1>7. r[n] = w[n]
  <2>1. r[0] = w[0]
    <3>1. 0 \in 0 .. n
      BY <1>0
    <3>2. r[0] = [values |-> <<>>, end |-> at]
      BY <1>6, <3>1, Zenon
    <3>3. w[0] = [values |-> <<>>, end |-> at]
      <4> HIDE DEF w
      <4> QED BY <1>5, <3>1, Zenon
    <3> QED BY <3>2, <3>3, Zenon
  <2>2. ASSUME NEW k \in 0 + 1 .. n, r[k - 1] = w[k - 1] PROVE r[k] = w[k]
    <3>1. k \in 0 .. n /\ k # 0
      BY <1>0
    <3> HIDE DEF w
    <3> QED BY <1>5, <1>6, <2>2, <3>1, Zenon
  <2>3. 0 \in Nat /\ n \in 0 .. n
    BY <1>0
  <2> HIDE DEF w, n
  <2>4. GoAlike(r, w, 0, n)
    BY <2>1, <2>2, Zenon DEF GoAlike
  <2>5. Alike(r, w, 0, n)
    BY <1>0, <2>3, <2>4, Agreement, Zenon
  <2> QED BY <2>3, <2>5, Zenon DEF Alike
<1>8. ReadItems(mem, at, t, n) = r[n]
  BY Zenon DEF ReadItems, r
<1>9. w[n] = [values |-> values, end |-> at + Len(FlattenSeq(q))]
  <2>1. n \in 0 .. n
    BY <1>0
  <2>2. [i \in 1 .. n |-> values[i]] = values
    BY <1>0
  <2> QED BY <1>2, <2>1, <2>2, Zenon
<1> QED BY <1>7, <1>8, <1>9, Zenon

\* A function on 1 .. n into Value is a list of values.
LEMMA ListIs ==
  ASSUME NEW n \in Nat, NEW f \in [1 .. n -> Value]
  PROVE  f \in Seq(Value) /\ Len(f) = n
OBVIOUS

\* A parameter that was added: its values have its type, and only an array has
\* more than one of them.
LEMMA WrittenIs ==
  ASSUME NEW p \in Written
  PROVE  /\ Valued(p.type, p.values) /\ Len(p.values) \in Nat
         /\ p = [type |-> p.type, array |-> p.array, values |-> p.values]
         /\ p.array \in BOOLEAN /\ (p.array => p.type \in WireTypes)
         /\ ~p.array => \/ p.type = WIRE_TYPE_NULL /\ Len(p.values) = 0
                        \/ p.type \in WireTypes /\ Len(p.values) = 1
<1>0. Type \subseteq WireTypes /\ MaxItems \in Nat
  BY ProcedureAssumption, Zenon
<1>1. CASE p = Null
  BY <1>1 DEF Null, Valued
<1>2. CASE p \in [type : Type, array : {FALSE}, values : [1 .. 1 -> Value]]
  <2>1. p.values \in [1 .. 1 -> Value] /\ 1 \in Nat
    BY <1>2, Zenon
  <2>2. p.values \in Seq(Value) /\ Len(p.values) = 1
    BY <2>1, ListIs, Zenon
  <2>3. p.type \in WireTypes /\ p.array = FALSE
    BY <1>0, <1>2, Zenon
  <2>4. p = [type |-> p.type, array |-> p.array, values |-> p.values]
    BY <1>2, Zenon
  <2>5. Valued(p.type, p.values)
    BY <2>2, <2>3, Zenon DEF Valued
  <2> QED BY <2>1, <2>2, <2>3, <2>4, <2>5, Zenon
<1>3. CASE p \in [type : Type, array : {TRUE},
                  values : UNION {[1 .. n -> Value] : n \in 0 .. MaxItems}]
  <2>1. PICK n \in 0 .. MaxItems : p.values \in [1 .. n -> Value]
    BY <1>3, Zenon
  <2>2. p.values \in Seq(Value) /\ Len(p.values) = n
    BY <1>0, <2>1
  <2>3. p.type \in WireTypes /\ p.array = TRUE
    BY <1>0, <1>3, Zenon
  <2>4. p = [type |-> p.type, array |-> p.array, values |-> p.values]
    BY <1>3, Zenon
  <2>5. Valued(p.type, p.values) /\ n \in Nat
    BY <1>0, <2>2, <2>3 DEF Valued
  <2> QED BY <2>2, <2>3, <2>4, <2>5, Zenon
<1> QED BY <1>1, <1>2, <1>3, Zenon DEF Written, Parameter

\* The pieces of what an add function writes.
LEMMA EncodingIs ==
  ASSUME NEW p \in Written
  PROVE  /\ IsSeq(Items(p)) /\ IsSeq(Encoding(p)) /\ Len(Items(p)) \in Nat
         /\ Len(Encoding(p)) = Len(Items(p)) + IF p.array THEN 2 + CountWidth(p.type) ELSE 1
<1>1. Items(p) = FlattenSeq(Pieces(p.type, p.values))
  BY Zenon DEF Items, Pieces
<1>2. IsSeq(Items(p)) /\ Len(Items(p)) \in Nat
  BY <1>1, WrittenIs, PiecesAre, StartIs, SeqLen, Zenon
<1>3. CASE p.array
  <2> DEFINE c == CountWidth(p.type)
             a == Bytes(WIRE_TYPE_ARRAY, 1)
             b == Bytes(p.type, 1)
             d == Bytes(Len(p.values), c)
  <2>0. c \in Nat
    BY Zenon DEF CountWidth
  <2>1. IsSeq(a) /\ Len(a) = 1 /\ IsSeq(b) /\ Len(b) = 1 /\ IsSeq(d) /\ Len(d) = c
    BY <2>0, BytesIs, Zenon
  <2>2. Encoding(p) = ((a \o b) \o d) \o Items(p)
    BY <1>3, Zenon DEF Encoding
  <2> HIDE DEF a, b, c, d
  <2>3. IsSeq(a \o b) /\ Len(a \o b) = 2
    <3>1. IsSeq(a \o b) /\ Len(a \o b) = Len(a) + Len(b)
      BY <2>1, ConcatIs, Zenon
    <3> QED BY <2>1, <3>1
  <2>4. IsSeq((a \o b) \o d) /\ Len((a \o b) \o d) = 2 + c
    BY <2>1, <2>3, ConcatIs
  <2>5. IsSeq(Encoding(p)) /\ Len(Encoding(p)) = (2 + c) + Len(Items(p))
    BY <1>2, <2>2, <2>4, ConcatIs, Zenon
  <2>6. (2 + c) + Len(Items(p)) = Len(Items(p)) + (2 + c)
    BY <1>2, <2>0
  <2> QED BY <1>2, <1>3, <2>5, <2>6, Zenon DEF c
<1>4. CASE ~p.array
  <2>1. Encoding(p) = Bytes(p.type, 1) \o Items(p)
    BY <1>4, Zenon DEF Encoding
  <2>2. IsSeq(Encoding(p)) /\ Len(Encoding(p)) = 1 + Len(Items(p))
    BY <1>2, <2>1, BytesIs, ConcatIs
  <2> QED BY <1>2, <1>4, <2>2
<1> QED BY <1>3, <1>4, Zenon

\* The server reads a parameter as it was given, and as many bytes as it takes.
LEMMA ReadParameterIs ==
  ASSUME NEW mem, NEW at, NEW p \in Written, IsSeq(mem), Holds(mem, at, Encoding(p))
  PROVE  ReadParameter(mem, at) = [parameter |-> p, end |-> at + Len(Encoding(p))]
<1> DEFINE s == FlattenSeq(Pieces(p.type, p.values))
<1>0. at \in Nat /\ Valued(p.type, p.values) /\ IsSeq(Items(p)) /\ Len(Items(p)) \in Nat
      /\ Items(p) = s
  BY WrittenIs, EncodingIs, Zenon DEF Holds, Items, Pieces
<1> HIDE DEF s
<1>1. CASE p.array
  <2> DEFINE c == CountWidth(p.type)
             n == Len(p.values)
             a == Bytes(WIRE_TYPE_ARRAY, 1)
             b == Bytes(p.type, 1)
             d == Bytes(n, c)
  <2>0. c \in Nat \ {0} /\ n \in Nat
    BY WrittenIs DEF CountWidth
  <2>1. IsSeq(a) /\ Len(a) = 1 /\ IsSeq(b) /\ Len(b) = 1 /\ IsSeq(d) /\ Len(d) = c
    BY <2>0, BytesIs, Zenon
  <2>2. Encoding(p) = ((a \o b) \o d) \o Items(p)
    BY <1>1, Zenon DEF Encoding
  <2> HIDE DEF a, b, c, d
  <2>3. IsSeq(a \o b) /\ Len(a \o b) = 2
    <3>1. IsSeq(a \o b) /\ Len(a \o b) = Len(a) + Len(b)
      BY <2>1, ConcatIs, Zenon
    <3> QED BY <2>1, <3>1
  <2>4. IsSeq((a \o b) \o d) /\ Len((a \o b) \o d) = 2 + c
    BY <2>1, <2>3, ConcatIs
  <2>5. Holds(mem, at, (a \o b) \o d) /\ Holds(mem, at + (2 + c), Items(p))
    BY <1>0, <2>2, <2>4, HoldsBoth, Zenon
  <2>6. Holds(mem, at, a \o b) /\ Holds(mem, at + 2, d)
    BY <2>1, <2>3, <2>5, HoldsBoth, Zenon
  <2>7. Holds(mem, at, a) /\ Holds(mem, at + 1, b)
    BY <2>1, <2>6, HoldsBoth, Zenon
  <2>8. Get(mem, at, 1) = WIRE_TYPE_ARRAY
    BY <2>7, GetHeld DEF a
  <2>9. Get(mem, at + 1, 1) = p.type
    BY <2>7, GetHeld DEF b
  <2>10. Get(mem, at + 2, c) = n
    BY <2>0, <2>6, GetHeld, Zenon DEF d
  <2>11. at + (2 + c) = at + 2 + c
    BY <1>0, <2>0
  <2>12. ReadItems(mem, at + 2 + c, p.type, n)
           = [values |-> p.values, end |-> at + 2 + c + Len(Items(p))]
    BY <1>0, <2>5, <2>11, ReadItemsIs DEF s
  <2>13. at + 2 + c + Len(Items(p)) = at + Len(Encoding(p))
    BY <1>0, <1>1, <2>0, EncodingIs DEF c
  <2>14. ReadParameter(mem, at)
           = [parameter |-> [type |-> p.type, array |-> TRUE, values |-> p.values],
              end |-> at + 2 + c + Len(Items(p))]
    <3> DEFINE read == ReadItems(mem, at + 2 + c, p.type, n)
    <3>1. ReadParameter(mem, at)
            = [parameter |-> [type |-> p.type, array |-> TRUE, values |-> read.values],
               end |-> read.end]
      BY <2>8, <2>9, <2>10, Zenon DEF ReadParameter, c
    <3>2. read.values = p.values /\ read.end = at + 2 + c + Len(Items(p))
      BY <2>12
    <3> QED BY <3>1, <3>2, Zenon
  <2>15. p = [type |-> p.type, array |-> TRUE, values |-> p.values]
    BY <1>1, WrittenIs, Zenon
  <2> QED BY <2>13, <2>14, <2>15, Zenon
<1>2. CASE ~p.array
  <2> DEFINE n == Len(p.values)
  <2>1. Encoding(p) = Bytes(p.type, 1) \o Items(p)
    BY <1>2, Zenon DEF Encoding
  <2>2. IsSeq(Bytes(p.type, 1)) /\ Len(Bytes(p.type, 1)) = 1
    BY BytesIs, Zenon
  <2>3. Holds(mem, at, Bytes(p.type, 1)) /\ Holds(mem, at + 1, Items(p))
    BY <1>0, <2>1, <2>2, HoldsBoth, Zenon
  <2>4. Get(mem, at, 1) = p.type
    BY <2>3, GetHeld
  <2>5. p.type # WIRE_TYPE_ARRAY /\ n = IF p.type = WIRE_TYPE_NULL THEN 0 ELSE 1
    <3>1. WIRE_TYPE_NULL \notin WireTypes /\ WIRE_TYPE_ARRAY \notin WireTypes
          /\ WIRE_TYPE_ARRAY # WIRE_TYPE_NULL
      BY DEF WireTypes, Sized, WIRE_TYPE_NULL, WIRE_TYPE_ARRAY, WIRE_TYPE_STRING,
             WIRE_TYPE_VARBINARY
    <3>2. \/ p.type = WIRE_TYPE_NULL /\ n = 0
          \/ p.type \in WireTypes /\ n = 1
      BY <1>2, WrittenIs, Zenon
    <3>3. CASE p.type = WIRE_TYPE_NULL /\ n = 0
      BY <3>1, <3>3, Zenon
    <3>4. CASE p.type \in WireTypes /\ n = 1
      BY <3>1, <3>4, Zenon
    <3> QED BY <3>2, <3>3, <3>4, Zenon
  <2>6. ReadItems(mem, at + 1, p.type, n)
          = [values |-> p.values, end |-> at + 1 + Len(Items(p))]
    BY <1>0, <2>3, ReadItemsIs DEF s
  <2>7. at + 1 + Len(Items(p)) = at + Len(Encoding(p))
    BY <1>0, <1>2, EncodingIs
  <2>8. ReadParameter(mem, at)
          = [parameter |-> [type |-> p.type, array |-> FALSE, values |-> p.values],
             end |-> at + 1 + Len(Items(p))]
    <3> DEFINE read == ReadItems(mem, at + 1, p.type, n)
    <3>1. ReadParameter(mem, at)
            = [parameter |-> [type |-> p.type, array |-> FALSE, values |-> read.values],
               end |-> read.end]
      BY <2>4, <2>5, Zenon DEF ReadParameter
    <3>2. read.values = p.values /\ read.end = at + 1 + Len(Items(p))
      BY <2>6
    <3> QED BY <3>1, <3>2, Zenon
  <2>9. p = [type |-> p.type, array |-> FALSE, values |-> p.values]
    BY <1>2, WrittenIs, Zenon
  <2> QED BY <2>7, <2>8, <2>9, Zenon
<1> QED BY <1>1, <1>2, Zenon

\* The parameters, each as its bytes.
LEMMA EncodingsAre ==
  ASSUME NEW list \in Seq(Written)
  PROVE  /\ AllSeqs(Encodings(list)) /\ Len(Encodings(list)) = Len(list)
         /\ \A i \in 1 .. Len(list) : Encodings(list)[i] = Encoding(list[i]) /\ list[i] \in Written
<1> DEFINE q == Encodings(list)
<1>1. Len(list) \in Nat
  OBVIOUS
<1>2. q = [i \in 1 .. Len(list) |-> Encoding(list[i])]
  BY Zenon DEF Encodings
<1> HIDE DEF q
<1>3. q = [i \in 1 .. Len(list) |-> q[i]]
  BY <1>2, Zenon
<1>4. IsSeq(q) /\ Len(q) = Len(list)
  BY <1>1, <1>3, FunctionIs, Zenon
<1>5. ASSUME NEW i \in 1 .. Len(list)
      PROVE  q[i] = Encoding(list[i]) /\ IsSeq(q[i]) /\ list[i] \in Written
  <2>1. list[i] \in Written
    OBVIOUS
  <2> QED BY <1>2, <2>1, EncodingIs, Zenon
<1> QED BY <1>4, <1>5, Zenon DEF q, AllSeqs

\* The parameters of a message are read one by one, to the end of the last.
LEMMA ReadParametersIs ==
  ASSUME NEW mem, NEW at, NEW list \in Seq(Written), IsSeq(mem),
         Holds(mem, at, FlattenSeq(Encodings(list)))
  PROVE  ReadParameters(mem, at, Len(list))
           = [list |-> list, end |-> at + Len(FlattenSeq(Encodings(list)))]
<1> DEFINE n == Len(list)
           q == Encodings(list)
           Eq(f) == f = [k \in 0 .. n |->
                      IF k = 0 THEN [list |-> <<>>, end |-> at]
                      ELSE LET next == ReadParameter(mem, f[k - 1].end)
                           IN  [list |-> Append(f[k - 1].list, next.parameter),
                                end |-> next.end]]
           w == [k \in 0 .. n |-> [list |-> [i \in 1 .. k |-> list[i]],
                                   end |-> at + Start(q, k + 1)]]
<1>0. at \in Nat /\ n \in Nat
  BY DEF Holds
<1>1. /\ AllSeqs(q) /\ Len(q) = n
      /\ \A i \in 1 .. n : q[i] = Encoding(list[i]) /\ list[i] \in Written
  BY EncodingsAre, Zenon
<1>2. /\ Start(q, 1) = 0 /\ Len(FlattenSeq(q)) = Start(q, n + 1)
      /\ \A k \in 1 .. n + 1 : Start(q, k) \in Nat
      /\ \A k \in 1 .. n : Start(q, k + 1) = Start(q, k) + Len(q[k])
  BY <1>1, StartIs, Zenon
<1>3. \A k \in 1 .. n : Holds(mem, at + Start(q, k), q[k])
  BY <1>1, HoldsParts, Zenon
<1>4. ASSUME NEW k \in 1 .. n
      PROVE  ReadParameter(mem, at + Start(q, k))
               = [parameter |-> list[k], end |-> at + Start(q, k + 1)]
  <2>1. ReadParameter(mem, at + Start(q, k))
          = [parameter |-> list[k], end |-> at + Start(q, k) + Len(Encoding(list[k]))]
    BY <1>1, <1>3, ReadParameterIs, Zenon
  <2>2. Len(Encoding(list[k])) \in Nat /\ Start(q, k) \in Nat
    BY <1>0, <1>1, <1>2, EncodingIs, SeqLen
  <2>3. at + Start(q, k) + Len(Encoding(list[k])) = at + Start(q, k + 1)
    BY <1>0, <1>1, <1>2, <2>2
  <2> QED BY <2>1, <2>3, Zenon
<1>5. Eq(w)
  <2>1. ASSUME NEW k \in 0 .. n
        PROVE  w[k] = IF k = 0 THEN [list |-> <<>>, end |-> at]
                      ELSE LET next == ReadParameter(mem, w[k - 1].end)
                           IN  [list |-> Append(w[k - 1].list, next.parameter),
                                end |-> next.end]
    <3>1. CASE k = 0
      <4>1. [i \in 1 .. 0 |-> list[i]] = <<>>
        OBVIOUS
      <4>2. at + Start(q, 0 + 1) = at
        BY <1>0, <1>2
      <4> QED BY <1>0, <3>1, <4>1, <4>2, Zenon
    <3>2. CASE k # 0
      <4>1. k \in 1 .. n /\ k - 1 \in 0 .. n /\ (k - 1) + 1 = k /\ k \in Nat \ {0}
        BY <1>0, <3>2
      <4> DEFINE before == [i \in 1 .. k - 1 |-> list[i]]
                 after == [i \in 1 .. k |-> list[i]]
      <4>2. w[k - 1] = [list |-> before, end |-> at + Start(q, k)]
        BY <4>1, Zenon
      <4>3. w[k] = [list |-> after, end |-> at + Start(q, k + 1)]
        OBVIOUS
      <4>4. Append(before, list[k]) = after
        BY <4>1, PrefixAppend, Zenon
      <4>5. ReadParameter(mem, at + Start(q, k))
              = [parameter |-> list[k], end |-> at + Start(q, k + 1)]
        BY <1>4, <4>1, Zenon
      <4> HIDE DEF w, before, after, q, n
      <4>6. w[k - 1].end = at + Start(q, k) /\ w[k - 1].list = before
        BY <4>2
      <4> DEFINE next == ReadParameter(mem, w[k - 1].end)
      <4>7. next.parameter = list[k] /\ next.end = at + Start(q, k + 1)
        BY <4>5, <4>6
      <4>8. w[k] = [list |-> Append(w[k - 1].list, next.parameter), end |-> next.end]
        BY <4>3, <4>4, <4>6, <4>7, Zenon
      <4> QED BY <3>2, <4>8, Zenon
    <3> QED BY <3>1, <3>2, Zenon
  <2>2. w = [k \in 0 .. n |-> w[k]]
    OBVIOUS
  <2> HIDE DEF w
  <2> QED BY <2>1, <2>2, Zenon
<1> DEFINE r == CHOOSE f : Eq(f)
<1>6. Eq(r)
  <2> HIDE DEF Eq
  <2> QED BY <1>5, Zenon
<1> HIDE DEF r
<1>7. r[n] = w[n]
  <2>1. r[0] = w[0]
    <3>1. 0 \in 0 .. n
      BY <1>0
    <3>2. r[0] = [list |-> <<>>, end |-> at]
      BY <1>6, <3>1, Zenon
    <3>3. w[0] = [list |-> <<>>, end |-> at]
      <4> HIDE DEF w
      <4> QED BY <1>5, <3>1, Zenon
    <3> QED BY <3>2, <3>3, Zenon
  <2>2. ASSUME NEW k \in 0 + 1 .. n, r[k - 1] = w[k - 1] PROVE r[k] = w[k]
    <3>1. k \in 0 .. n /\ k # 0
      BY <1>0
    <3> HIDE DEF w
    <3> QED BY <1>5, <1>6, <2>2, <3>1, Zenon
  <2>3. 0 \in Nat /\ n \in 0 .. n
    BY <1>0
  <2> HIDE DEF w, n
  <2>4. GoAlike(r, w, 0, n)
    BY <2>1, <2>2, Zenon DEF GoAlike
  <2>5. Alike(r, w, 0, n)
    BY <1>0, <2>3, <2>4, Agreement, Zenon
  <2> QED BY <2>3, <2>5, Zenon DEF Alike
<1>8. ReadParameters(mem, at, n) = r[n]
  BY Zenon DEF ReadParameters, r
<1>9. w[n] = [list |-> list, end |-> at + Len(FlattenSeq(q))]
  <2>1. n \in 0 .. n
    BY <1>0
  <2>2. [i \in 1 .. n |-> list[i]] = list
    OBVIOUS
  <2> QED BY <1>2, <2>1, <2>2, Zenon
<1> QED BY <1>7, <1>8, <1>9, Zenon

-----------------------------------------------------------------------------
(* What is where in a message.                                              *)

\* The count of parameters, then the parameters.
LEMMA BufferIs ==
  ASSUME NEW n, NEW list \in Seq(Written)
  PROVE  /\ IsSeq(Bytes(n, 2)) /\ Len(Bytes(n, 2)) = 2
         /\ IsSeq(FlattenSeq(Encodings(list))) /\ Len(FlattenSeq(Encodings(list))) \in Nat
         /\ IsSeq(BufferOf(n, list))
         /\ Len(BufferOf(n, list)) = 2 + Len(FlattenSeq(Encodings(list)))
<1>1. IsSeq(Bytes(n, 2)) /\ Len(Bytes(n, 2)) = 2
  BY BytesIs, Zenon
<1>2. IsSeq(FlattenSeq(Encodings(list)))
  BY EncodingsAre, StartIs, Zenon
<1>3. Len(FlattenSeq(Encodings(list))) \in Nat
  BY <1>2, SeqLen, Zenon
<1>4. /\ IsSeq(BufferOf(n, list))
      /\ Len(BufferOf(n, list)) = Len(Bytes(n, 2)) + Len(FlattenSeq(Encodings(list)))
  BY <1>1, <1>2, ConcatIs, Zenon DEF BufferOf
<1> QED BY <1>1, <1>2, <1>3, <1>4, Zenon

\* The parts of the message m: its length, the name, the id and the rest.
Parts(m, id, rest) ==
  /\ IsSeq(m) /\ Len(m) = 17 + NameSize + Len(rest)
  /\ Get(m, 0, 4) = Len(m) - 4 /\ Get(m, 5, 4) = NameSize
  /\ Get(m, 9, NameSize) = Name /\ Get(m, 9 + NameSize, 8) = id
  /\ Holds(m, 17 + NameSize, rest)

\* The count alone, and no parameter.
LEMMA EmptyBuffer ==
  ASSUME NEW n
  PROVE  <<>> \o Bytes(n, 2) = BufferOf(n, <<>>)
<1>1. FlattenSeq(Encodings(<<>>)) = <<>>
  BY DEF FlattenSeq, Encodings
<1>2. PICK S : Bytes(n, 2) \in Seq(S)
  BY BytesIs, Zenon DEF IsSeq
<1>3. <<>> \o Bytes(n, 2) = Bytes(n, 2) /\ Bytes(n, 2) \o <<>> = Bytes(n, 2)
  BY <1>2
<1> QED BY <1>1, <1>3, Zenon DEF BufferOf

\* Where the parts of an invocation are.
LEMMA MessageIs ==
  ASSUME NEW id, NEW rest, IsSeq(rest)
  PROVE  Parts(Invocation(id, rest), id, rest)
<1> DEFINE m == Invocation(id, rest)
           body == Body(id, rest)
           a == Bytes(0, 1)
           b == Bytes(NameSize, 4)
           c == Bytes(Name, NameSize)
           d == Bytes(id, 8)
           l == Bytes(Len(body), 4)
<1>0. NameSize \in Nat /\ (NameSize = 0 => Name = Empty) /\ Len(rest) \in Nat
  BY ProcedureAssumption, SeqLen, Zenon
<1>1. /\ IsSeq(a) /\ Len(a) = 1 /\ IsSeq(b) /\ Len(b) = 4
      /\ IsSeq(c) /\ Len(c) = NameSize /\ IsSeq(d) /\ Len(d) = 8
      /\ IsSeq(l) /\ Len(l) = 4
  BY <1>0, BytesIs, Zenon
<1>2. body = (((a \o b) \o c) \o d) \o rest /\ m = l \o body
  BY Zenon DEF Body, Invocation
<1> HIDE DEF a, b, c, d, l, m, body
<1>3. IsSeq(a \o b) /\ Len(a \o b) = 5
  <2>1. IsSeq(a \o b) /\ Len(a \o b) = Len(a) + Len(b)
    BY <1>1, ConcatIs, Zenon
  <2> QED BY <1>1, <2>1
<1>4. IsSeq((a \o b) \o c) /\ Len((a \o b) \o c) = 5 + NameSize
  <2>1. IsSeq((a \o b) \o c) /\ Len((a \o b) \o c) = Len(a \o b) + Len(c)
    BY <1>1, <1>3, ConcatIs, Zenon
  <2> QED BY <1>1, <1>3, <2>1, Zenon
<1>5. IsSeq(((a \o b) \o c) \o d) /\ Len(((a \o b) \o c) \o d) = 13 + NameSize
  <2>1. IsSeq(((a \o b) \o c) \o d) /\ Len(((a \o b) \o c) \o d) = Len((a \o b) \o c) + Len(d)
    BY <1>1, <1>4, ConcatIs, Zenon
  <2> QED BY <1>0, <1>1, <1>4, <2>1
<1>6. IsSeq(body) /\ Len(body) = 13 + NameSize + Len(rest)
  <2>1. IsSeq(body) /\ Len(body) = Len(((a \o b) \o c) \o d) + Len(rest)
    BY <1>2, <1>5, ConcatIs, Zenon
  <2> QED BY <1>5, <2>1, Zenon
<1>7. IsSeq(m) /\ Len(m) = 4 + Len(body)
  <2>1. IsSeq(m) /\ Len(m) = Len(l) + Len(body)
    BY <1>1, <1>2, <1>6, ConcatIs, Zenon
  <2> QED BY <1>1, <2>1, Zenon
<1>8. Holds(m, 0, l) /\ Holds(m, 4, body)
  <2>1. Holds(m, 0, l \o body)
    BY <1>2, <1>7, HoldsItself, Zenon
  <2>2. Holds(m, 0, l) /\ Holds(m, 0 + Len(l), body)
    BY <1>1, <1>6, <1>7, <2>1, HoldsBoth, Zenon
  <2> QED BY <1>1, <2>2
<1>9. Holds(m, 4, ((a \o b) \o c) \o d) /\ Holds(m, 17 + NameSize, rest)
  <2>1. /\ Holds(m, 4, ((a \o b) \o c) \o d)
        /\ Holds(m, 4 + Len(((a \o b) \o c) \o d), rest)
    BY <1>2, <1>5, <1>7, <1>8, HoldsBoth, Zenon
  <2>2. 4 + (13 + NameSize) = 17 + NameSize
    BY <1>0
  <2> QED BY <1>5, <2>1, <2>2, Zenon
<1>10. Holds(m, 4, (a \o b) \o c) /\ Holds(m, 9 + NameSize, d)
  <2>1. Holds(m, 4, (a \o b) \o c) /\ Holds(m, 4 + Len((a \o b) \o c), d)
    BY <1>1, <1>4, <1>7, <1>9, HoldsBoth, Zenon
  <2>2. 4 + (5 + NameSize) = 9 + NameSize
    BY <1>0
  <2> QED BY <1>4, <2>1, <2>2, Zenon
<1>11. Holds(m, 4, a \o b) /\ Holds(m, 9, c)
  <2>1. Holds(m, 4, a \o b) /\ Holds(m, 4 + Len(a \o b), c)
    BY <1>1, <1>3, <1>7, <1>10, HoldsBoth, Zenon
  <2> QED BY <1>3, <2>1
<1>12. Holds(m, 5, b)
  <2>1. Holds(m, 4 + Len(a), b)
    BY <1>1, <1>7, <1>11, HoldsBoth, Zenon
  <2> QED BY <1>1, <2>1
<1>13. Get(m, 0, 4) = Len(body)
  BY <1>7, <1>8, GetHeld DEF l
<1>14. Get(m, 5, 4) = NameSize
  BY <1>7, <1>12, GetHeld DEF b
<1>15. Get(m, 9, NameSize) = Name
  BY <1>0, <1>7, <1>11, GetHeld, Zenon DEF c
<1>16. Get(m, 9 + NameSize, 8) = id
  BY <1>7, <1>10, GetHeld DEF d
<1>17. Len(body) = Len(m) - 4 /\ Len(m) = 17 + NameSize + Len(rest)
  BY <1>0, <1>6, <1>7
<1> QED BY <1>7, <1>9, <1>13, <1>14, <1>15, <1>16, <1>17, Zenon DEF m, Parts

\* A message that is laid out so is read as MessageReadable and KeyIsFirst say.
LEMMA LaidOutReadable == MessageInv => MessageReadable /\ KeyIsFirst
<1> SUFFICES ASSUME MessageInv PROVE MessageReadable /\ KeyIsFirst
  OBVIOUS
<1>0. NameSize \in Nat /\ sent \in Seq(Written) /\ Len(sent) \in Nat
  BY ProcedureAssumption DEF MessageInv
<1>1. CASE message = <<>> \/ bare
  <2>1. sent = <<>>
    BY <1>1, Zenon DEF MessageInv
  <2> QED BY <1>1, <2>1, Zenon DEF MessageReadable, KeyIsFirst
<1>2. CASE message # <<>> /\ ~bare
  <2> DEFINE c == Bytes(Len(sent), 2)
             s == FlattenSeq(Encodings(sent))
             rest == BufferOf(Len(sent), sent)
             id == m_nextRequestId - 1
  <2>1. message = Invocation(id, rest)
    BY <1>2, Zenon DEF MessageInv
  <2>2. /\ IsSeq(c) /\ Len(c) = 2 /\ IsSeq(s) /\ Len(s) \in Nat
        /\ IsSeq(rest) /\ Len(rest) = 2 + Len(s) /\ rest = c \o s
    BY <1>0, BufferIs, Zenon DEF BufferOf
  <2> HIDE DEF id, rest, c, s
  <2>3. /\ IsSeq(message) /\ Len(message) = 17 + NameSize + Len(rest)
        /\ Get(message, 0, 4) = Len(message) - 4 /\ Get(message, 5, 4) = NameSize
        /\ Get(message, 9, NameSize) = Name /\ Get(message, 9 + NameSize, 8) = id
        /\ Holds(message, 17 + NameSize, rest)
    <3>1. Parts(message, id, rest)
      BY <2>1, <2>2, MessageIs, Zenon
    <3> QED BY <3>1, Zenon DEF Parts
  <2>4. Holds(message, 17 + NameSize, c) /\ Holds(message, 19 + NameSize, s)
    <3>1. /\ Holds(message, 17 + NameSize, c)
          /\ Holds(message, 17 + NameSize + Len(c), s)
      BY <2>2, <2>3, HoldsBoth, Zenon
    <3>2. 17 + NameSize + 2 = 19 + NameSize
      BY <1>0
    <3> QED BY <2>2, <3>1, <3>2, Zenon
  <2>5. Get(message, 17 + NameSize, 2) = Len(sent)
    BY <2>3, <2>4, GetHeld DEF c
  <2>6. MessageReadable
    <3> DEFINE at == 5 + 4 + NameSize
               n == Get(message, at + 8, 2)
               read == ReadParameters(message, at + 10, n)
    <3>1. at = 9 + NameSize /\ at + 8 = 17 + NameSize /\ at + 10 = 19 + NameSize
      BY <1>0
    <3>2. n = Len(sent)
      BY <2>5, <3>1, Zenon
    <3>3. read = [list |-> sent, end |-> 19 + NameSize + Len(s)]
      <4>1. ReadParameters(message, 19 + NameSize, Len(sent))
              = [list |-> sent, end |-> 19 + NameSize + Len(s)]
        BY <1>0, <2>3, <2>4, ReadParametersIs, Zenon DEF s
      <4> QED BY <3>1, <3>2, <4>1, Zenon
    <3>4. 19 + NameSize + Len(s) = Len(message)
      <4>1. Len(s) \in Nat /\ Len(rest) = 2 + Len(s) /\ Len(message) = 17 + NameSize + Len(rest)
        BY <2>2, <2>3, Zenon
      <4> QED BY <1>0, <4>1
    <3> HIDE DEF read
    <3>5. read.list = sent /\ read.end = Len(message)
      BY <3>3, <3>4, Zenon
    <3>6. Get(message, at, 8) = m_nextRequestId - 1
      BY <2>3, <3>1, Zenon DEF id
    <3> HIDE DEF n, at
    <3> QED BY <2>3, <3>2, <3>5, <3>6, Zenon DEF MessageReadable, at, n, read
  <2>7. KeyIsFirst
    <3> DEFINE p == sent[1]
               at == 19 + NameSize
               q == Encodings(sent)
               r == Pieces(p.type, p.values)
               v == p.values[1]
    <3> SUFFICES ASSUME sent # <<>>, ~p.array, p.type \notin {1, 22, 25}
                 PROVE  Key(message) = v
      BY Zenon DEF KeyIsFirst
    <3>1. 1 \in 1 .. Len(sent) /\ p \in Written
      BY <1>0
    <3>2. p.type \in WireTypes /\ Len(p.values) = 1 /\ Valued(p.type, p.values)
      BY <3>1, WrittenIs, Zenon DEF WIRE_TYPE_NULL
    <3>3. v \in Value
      BY <3>2 DEF Valued
    <3>4. Holds(message, at, Encoding(p))
      <4>1. AllSeqs(q) /\ Len(q) = Len(sent) /\ q[1] = Encoding(p)
        BY <1>0, <3>1, EncodingsAre, Zenon
      <4>2. Start(q, 1) = 0 /\ at + 0 = at
        BY <1>0 DEF Start
      <4>3. Holds(message, at + Start(q, 1), q[1])
        BY <2>3, <2>4, <3>1, <4>1, HoldsParts, Zenon DEF s
      <4> QED BY <4>1, <4>2, <4>3, Zenon
    <3>5. Holds(message, at, Bytes(p.type, 1)) /\ Holds(message, at + 1, Items(p))
      <4>1. Encoding(p) = Bytes(p.type, 1) \o Items(p)
        BY Zenon DEF Encoding
      <4>2. IsSeq(Bytes(p.type, 1)) /\ Len(Bytes(p.type, 1)) = 1 /\ IsSeq(Items(p))
        BY <3>1, BytesIs, EncodingIs, Zenon
      <4> HIDE DEF at
      <4> QED BY <2>3, <3>4, <4>1, <4>2, HoldsBoth, Zenon
    <3>6. Holds(message, at + 1, Item(p.type, v))
      <4>1. AllSeqs(r) /\ Len(r) = 1 /\ r[1] = Item(p.type, v)
        BY <3>2, PiecesAre
      <4>2. Start(r, 1) = 0 /\ at + 1 + 0 = at + 1 /\ 1 \in 1 .. 1
        BY <1>0 DEF Start
      <4>3. Items(p) = FlattenSeq(r)
        BY Zenon DEF Items, Pieces
      <4>4. Holds(message, at + 1 + Start(r, 1), r[1])
        BY <2>3, <3>5, <4>1, <4>2, <4>3, HoldsParts, Zenon
      <4> QED BY <4>1, <4>2, <4>4, Zenon
    <3>7. Get(message, at, 1) = p.type
      BY <2>3, <3>5, GetHeld
    <3>8. ReadItem(message, at + 1, p.type).value = v
      BY <2>3, <3>2, <3>3, <3>6, ReadItemIs
    <3>9. KeyOffset(Get(message, 5, 4)) = at /\ (at + 1) + 4 = at + 5
      BY <1>0, <2>3 DEF KeyOffset
    <3>10. (p.type \in {3, 4, 5, 6, 8, 11} /\ p.type \notin Sized) \/ p.type = WIRE_TYPE_STRING
      BY <3>2, Zenon DEF WireTypes, Sized, WIRE_TYPE_STRING, WIRE_TYPE_VARBINARY
    <3> HIDE DEF at, p, v
    <3>11. CASE p.type \in {3, 4, 5, 6, 8, 11} /\ p.type \notin Sized
      <4>1. Get(message, at + 1, Width(p.type)) = v
        BY <3>8, <3>11, Zenon DEF ReadItem
      <4>2. p.type # WIRE_TYPE_STRING
        BY <3>11 DEF WIRE_TYPE_STRING
      <4> QED BY <3>7, <3>9, <3>11, <4>1, <4>2, Zenon DEF Key
    <3>12. CASE p.type = WIRE_TYPE_STRING
      <4>1. p.type \in Sized /\ p.type \notin {3, 4, 5, 6, 8, 11}
        BY <3>12 DEF Sized, WIRE_TYPE_STRING
      <4>2. Get(message, at + 5, Get(message, at + 1, 4)) = v
        BY <3>8, <3>9, <4>1, Zenon DEF ReadItem
      <4> QED BY <3>7, <3>9, <3>12, <4>1, <4>2, Zenon DEF Key
    <3> QED BY <3>10, <3>11, <3>12, Zenon
  <2> QED BY <2>6, <2>7, Zenon
<1> QED BY <1>1, <1>2, Zenon

-----------------------------------------------------------------------------
(* What the operations keep.                                                *)

\* One more parameter is written behind the others.
LEMMA BufferGrows ==
  ASSUME NEW n, NEW list \in Seq(Written), NEW p \in Written
  PROVE  BufferOf(n, list) \o Encoding(p) = BufferOf(n, Append(list, p))
<1> DEFINE more == Append(list, p)
           q == Encodings(list)
           r == Encodings(more)
           c == Bytes(n, 2)
           e == Encoding(p)
<1>1. /\ more \in Seq(Written) /\ Len(more) = Len(list) + 1 /\ Len(list) \in Nat
      /\ (\A i \in 1 .. Len(list) : more[i] = list[i]) /\ more[Len(list) + 1] = p
  OBVIOUS
<1> HIDE DEF more
<1>2. /\ AllSeqs(q) /\ Len(q) = Len(list)
      /\ \A i \in 1 .. Len(list) : q[i] = Encoding(list[i])
  BY EncodingsAre, Zenon
<1>3. /\ AllSeqs(r) /\ Len(r) = Len(list) + 1
      /\ \A i \in 1 .. Len(list) + 1 : r[i] = Encoding(more[i])
  BY <1>1, EncodingsAre, Zenon
<1>4. IsSeq(e) /\ IsSeq(c)
  BY EncodingIs, BytesIs, Zenon
<1> HIDE DEF q, r, c, e
<1>5. (\A i \in 1 .. Len(q) : r[i] = q[i]) /\ r[Len(q) + 1] = e /\ Len(r) = Len(q) + 1
  BY <1>1, <1>2, <1>3 DEF e
<1>6. FlattenSeq(r) = FlattenSeq(q) \o e
  BY <1>2, <1>3, <1>4, <1>5, FlattenAppend, Zenon DEF AllSeqs
<1>7. IsSeq(FlattenSeq(q))
  BY <1>2, StartIs, Zenon
<1>8. (c \o FlattenSeq(q)) \o e = c \o (FlattenSeq(q) \o e)
  BY <1>4, <1>7, ConcatAssoc
<1> QED BY <1>6, <1>8, Zenon DEF BufferOf, more, q, r, c, e

\* validateType keeps the count in the buffer equal to the length of the list.
LEMMA CountedIs ==
  ASSUME BufferInv, asked, NEW t \in Type, NEW a \in BOOLEAN
  PROVE  LET list == Grown(t, a)
             b == Counted(list)
         IN  /\ list \in Seq([type : Type, array : BOOLEAN])
             /\ DOMAIN b = {"mem", "capacity"} /\ b.capacity = m_buffer.capacity
             /\ b.mem = BufferOf(Len(list), given)
<1> DEFINE list == Grown(t, a)
           b == Counted(list)
           s == FlattenSeq(Encodings(given))
           old == Bytes(Len(m_parameters), 2)
           new == Bytes(Len(list), 2)
<1>1. list \in Seq([type : Type, array : BOOLEAN])
  <2>1. [type |-> t, array |-> a] \in [type : Type, array : BOOLEAN]
    OBVIOUS
  <2>2. m_parameters \in Seq([type : Type, array : BOOLEAN])
    BY Zenon DEF BufferInv
  <2> DEFINE D == [type : Type, array : BOOLEAN]
             x == [type |-> t, array |-> a]
  <2> HIDE DEF D, x
  <2>3. m_parameters \in Seq(D) /\ x \in D
    BY <2>1, <2>2, Zenon DEF D, x
  <2>4. Append(m_parameters, x) \in Seq(D)
    BY <2>3
  <2> QED BY <2>3, <2>4, Zenon DEF Grown, D, x
<1>2. m_buffer.mem = BufferOf(Len(m_parameters), given) /\ DOMAIN m_buffer = {"mem", "capacity"}
  BY Zenon DEF BufferInv, Untouched
<1>3. CASE Grows
  <2>1. b = [m_buffer EXCEPT !.mem = PutAt(@, 0, new)]
    BY <1>3, Zenon DEF Counted
  <2>2. IsSeq(old) /\ Len(old) = 2 /\ IsSeq(new) /\ Len(new) = 2 /\ IsSeq(s)
    BY BufferIs, Zenon DEF BufferInv
  <2> HIDE DEF old, new, s, b, list
  <2>3. PutAt(old \o s, 0, new) = new \o s
    BY <2>2, PutAtHead
  <2>4. b.mem = new \o s
    BY <1>2, <2>1, <2>3, Zenon DEF BufferOf, old, s
  <2>5. DOMAIN b = {"mem", "capacity"} /\ b.capacity = m_buffer.capacity
    BY <1>2, <2>1, Zenon
  <2> QED BY <1>1, <2>4, <2>5, Zenon DEF BufferOf, new, s, b, list
<1>4. CASE ~Grows
  BY <1>1, <1>2, <1>4, Zenon DEF Counted, Grown
<1> QED BY <1>3, <1>4, Zenon

\* The add function p: the buffer takes p as a whole or not at all, and not at all
\* only when an array of doubles finds one or two bytes too few.
LEMMA WriteIs ==
  ASSUME NEW b, NEW n, NEW p \in Written, Write(b, p),
         given \in Seq(Written), m_currentParam = Len(given),
         DOMAIN b = {"mem", "capacity"}, b.capacity \in Nat \ {0}, b.mem = BufferOf(n, given)
  PROVE  /\ given' \in Seq(Written) /\ m_currentParam' = Len(given')
         /\ DOMAIN m_buffer' = {"mem", "capacity"} /\ m_buffer'.capacity \in Nat \ {0}
         /\ m_buffer'.mem = BufferOf(n, given')
         /\ alive /\ ~alive' =>
              /\ p.array /\ p.type = WIRE_TYPE_FLOAT
              /\ m_buffer'.capacity - Len(m_buffer'.mem) - Len(Items(p)) \in {2, 3}
<1> DEFINE room == EnsureRemaining(b, Reserved(p))
           e == Encoding(p)
           i == Len(Items(p))
<1>1. /\ IsSeq(e) /\ i \in Nat /\ Len(e) = i + IF p.array THEN 2 + CountWidth(p.type) ELSE 1
  BY EncodingIs, Zenon
<1>2. Reserved(p) \in Nat
  BY <1>1 DEF Reserved, CountWidth
<1>3. IsSeq(b.mem) /\ Len(b.mem) \in Nat
  BY BufferIs, SeqLen
<1>4. /\ DOMAIN room = {"mem", "capacity"} /\ room.mem = b.mem /\ room.capacity \in Nat \ {0}
      /\ room.capacity - Len(room.mem) >= Reserved(p)
  BY <1>2, <1>3, EnsureRemainingIs, Zenon
<1>5. IF Fits(room, e)
      THEN /\ m_buffer' = Put(room, e) /\ given' = Append(given, p)
           /\ m_currentParam' = m_currentParam + 1 /\ UNCHANGED alive
      ELSE alive' = FALSE /\ m_buffer' = room /\ UNCHANGED <<given, m_currentParam>>
  BY Zenon DEF Write
<1>6. p.array \in BOOLEAN
  BY WrittenIs, Zenon
<1> HIDE DEF room
<1>7. CASE Fits(room, e)
  <2>1. m_buffer'.mem = BufferOf(n, given) \o e /\ m_buffer'.capacity = room.capacity
        /\ DOMAIN m_buffer' = {"mem", "capacity"}
    BY <1>4, <1>5, <1>7, Zenon DEF Put
  <2>2. m_buffer'.mem = BufferOf(n, given')
    BY <1>5, <1>7, <2>1, BufferGrows, Zenon
  <2>3. given' \in Seq(Written) /\ m_currentParam' = Len(given')
    BY <1>5, <1>7
  <2>4. alive' = alive
    BY <1>5, <1>7, Zenon
  <2> QED BY <1>4, <2>1, <2>2, <2>3, <2>4, Zenon
<1>8. CASE ~Fits(room, e)
  <2>1. m_buffer' = room /\ given' = given /\ m_currentParam' = m_currentParam
    BY <1>5, <1>8, Zenon
  <2> DEFINE left == room.capacity - Len(b.mem)
  <2>2. left \in Int /\ left >= Reserved(p) /\ ~(left >= Len(e))
    BY <1>1, <1>3, <1>4, <1>8 DEF Fits, CountWidth
  <2> HIDE DEF left
  <2>3. p.array
    BY <1>1, <1>6, <2>2 DEF Reserved
  <2>4. p.type = WIRE_TYPE_FLOAT
    <3>1. SUFFICES ASSUME p.type # WIRE_TYPE_FLOAT PROVE FALSE
      OBVIOUS
    <3>2. Reserved(p) = i + (2 + CountWidth(p.type))
      BY <2>3, <3>1, Zenon DEF Reserved
    <3> QED BY <1>1, <2>2, <2>3, <3>2, Zenon
  <2>5. left - i \in {2, 3}
    <3>1. Reserved(p) = i + 2 /\ CountWidth(p.type) = 2
      BY <2>3, <2>4 DEF Reserved, CountWidth, WIRE_TYPE_FLOAT, WIRE_TYPE_TINYINT
    <3>2. Len(e) = i + 4
      BY <1>1, <2>3, <3>1
    <3> QED BY <1>1, <2>2, <3>1, <3>2
  <2>6. m_buffer'.capacity - Len(m_buffer'.mem) - i \in {2, 3}
    BY <1>4, <2>1, <2>5, Zenon DEF left
  <2> QED BY <1>4, <2>1, <2>3, <2>4, <2>6, Zenon
<1> QED BY <1>7, <1>8, Zenon

\* Nothing has been written at first.
LEMMA ProcedureStarts == Init => BufferInv /\ MessageInv
<1> SUFFICES ASSUME Init PROVE BufferInv /\ MessageInv
  OBVIOUS
<1>0. Capacity \in Nat \ {0} /\ Signature \subseteq Seq([type : Type, array : BOOLEAN])
  BY ProcedureAssumption, Zenon
<1>1. MessageInv
  BY DEF Init, MessageInv
<1>2. <<>> \in Seq(Written) /\ Len(<<>>) = 0
  OBVIOUS
<1>3. CASE /\ m_parameters \in Signature /\ m_dynamicParamCount = FALSE
           /\ m_buffer = Put(NewBuffer(Capacity), Count)
  <2>1. m_buffer = [mem |-> <<>> \o Count, capacity |-> Capacity]
    BY <1>3, Zenon DEF Put, NewBuffer
  <2>2. <<>> \o Count = BufferOf(Len(m_parameters), <<>>)
    BY EmptyBuffer, Zenon DEF Count
  <2>3. /\ DOMAIN m_buffer = {"mem", "capacity"} /\ m_buffer.capacity \in Nat \ {0}
        /\ m_buffer.mem = BufferOf(Len(m_parameters), <<>>)
    <3> DEFINE s == <<>> \o Count
    <3> HIDE DEF s
    <3>1. m_buffer = [mem |-> s, capacity |-> Capacity] /\ s = BufferOf(Len(m_parameters), <<>>)
      BY <2>1, <2>2, Zenon DEF s
    <3> QED BY <1>0, <3>1, Zenon
  <2>4. m_parameters \in Seq([type : Type, array : BOOLEAN])
    BY <1>0, <1>3, Zenon
  <2>5. given = <<>> /\ m_currentParam = 0 /\ ~Untouched
    BY <1>3, Zenon DEF Init, Untouched
  <2>6. given \in Seq(Written) /\ m_currentParam = Len(given)
    BY <1>2, <2>5, Zenon
  <2> QED BY <1>1, <2>3, <2>4, <2>5, <2>6, Zenon DEF BufferInv
<1>4. CASE /\ m_parameters = <<>> /\ m_dynamicParamCount = TRUE
           /\ m_buffer = NewBuffer(Capacity)
  <2>1. /\ DOMAIN m_buffer = {"mem", "capacity"} /\ m_buffer.capacity \in Nat \ {0}
        /\ m_buffer.mem = <<>>
    BY <1>0, <1>4, Zenon DEF NewBuffer
  <2>2. m_parameters \in Seq([type : Type, array : BOOLEAN])
    BY <1>4
  <2>3. given = <<>> /\ m_currentParam = 0 /\ Untouched
    BY <1>4, Zenon DEF Init, Untouched
  <2>4. given \in Seq(Written) /\ m_currentParam = Len(given)
    BY <1>2, <2>3, Zenon
  <2> QED BY <1>1, <2>1, <2>2, <2>3, <2>4, Zenon DEF BufferInv
<1> QED BY <1>3, <1>4, Zenon DEF Init

\* reset() leaves the count and no parameter.
LEMMA ResetIs ==
  ASSUME BufferInv, Reset, UNCHANGED m_parameters
  PROVE  /\ given' = <<>> /\ m_currentParam' = 0
         /\ DOMAIN m_buffer' = {"mem", "capacity"} /\ m_buffer'.capacity = m_buffer.capacity
         /\ m_buffer'.mem = BufferOf(Len(m_parameters), <<>>)
<1>1. <<>> \o Count = BufferOf(Len(m_parameters), <<>>)
  BY EmptyBuffer, Zenon DEF Count
<1>2. m_buffer' = [[m_buffer EXCEPT !.mem = <<>>] EXCEPT !.mem = @ \o Count]
  BY Zenon DEF Reset, Put, Clear
<1> QED BY <1>1, <1>2, Zenon DEF BufferInv, Reset

\* Every step preserves both invariants, and the client ends only where
\* EndsOnlyAtEdges allows it.
LEMMA ProcedureSteps ==
  BufferInv /\ MessageInv /\ [Next]_vars
    => /\ BufferInv' /\ MessageInv'
       /\ alive /\ ~alive' =>
            \/ NullTooMany
            \/ \E p \in Parameter :
                 /\ p.array /\ p.type = WIRE_TYPE_FLOAT /\ Add(p, p.type, p.array)
                 /\ m_buffer'.capacity - Len(m_buffer'.mem) - Len(Items(p)) \in {2, 3}
<1> DEFINE Edge == alive /\ ~alive' =>
                     \/ NullTooMany
                     \/ \E p \in Parameter :
                          /\ p.array /\ p.type = WIRE_TYPE_FLOAT /\ Add(p, p.type, p.array)
                          /\ m_buffer'.capacity - Len(m_buffer'.mem) - Len(Items(p)) \in {2, 3}
<1> SUFFICES ASSUME BufferInv, MessageInv, [Next]_vars PROVE BufferInv' /\ MessageInv' /\ Edge
  OBVIOUS
<1>0. /\ m_parameters \in Seq([type : Type, array : BOOLEAN]) /\ Len(m_parameters) \in Nat
      /\ given \in Seq(Written) /\ m_currentParam = Len(given)
      /\ m_buffer.capacity \in Nat \ {0}
  BY DEF BufferInv
<1>1. ASSUME UNCHANGED <<message, sent, bare, m_nextRequestId>> PROVE MessageInv'
  BY <1>1, Zenon DEF MessageInv
<1>2. <<>> \in Seq(Written) /\ Len(<<>>) = 0
  OBVIOUS
<1>3. CASE UNCHANGED vars
  <2>1. BufferInv'
    BY <1>3, Zenon DEF vars, BufferInv, Untouched
  <2> QED BY <1>1, <1>3, <2>1, Zenon DEF vars
<1>4. CASE Params
  <2>1. BufferInv'
    BY <1>0, <1>2, <1>4, ResetIs, Zenon DEF Params, BufferInv, Untouched
  <2> QED BY <1>1, <1>4, <2>1, Zenon DEF Params
<1>5. ASSUME NEW p \in Written, NEW t \in Type, NEW a \in BOOLEAN, Add(p, t, a),
             p = Null \/ (p \in Parameter /\ t = p.type /\ a = p.array)
      PROVE  BufferInv' /\ MessageInv' /\ Edge
  <2> DEFINE list == Grown(t, a)
             b == Counted(list)
  <2>1. asked /\ asked' = asked /\ m_dynamicParamCount' = m_dynamicParamCount
        /\ UNCHANGED <<message, sent, bare, m_nextRequestId>>
        /\ m_parameters' = list /\ Write(b, p)
    BY <1>5, Zenon DEF Add, Adding
  <2>2. /\ list \in Seq([type : Type, array : BOOLEAN])
        /\ DOMAIN b = {"mem", "capacity"} /\ b.capacity = m_buffer.capacity
        /\ b.mem = BufferOf(Len(list), given)
    BY <2>1, CountedIs, Zenon
  <2> HIDE DEF list, b
  <2>3. /\ given' \in Seq(Written) /\ m_currentParam' = Len(given')
        /\ DOMAIN m_buffer' = {"mem", "capacity"} /\ m_buffer'.capacity \in Nat \ {0}
        /\ m_buffer'.mem = BufferOf(Len(list), given')
        /\ alive /\ ~alive' =>
             /\ p.array /\ p.type = WIRE_TYPE_FLOAT
             /\ m_buffer'.capacity - Len(m_buffer'.mem) - Len(Items(p)) \in {2, 3}
    BY <1>0, <2>1, <2>2, WriteIs, Zenon
  <2>4. BufferInv'
    BY <2>1, <2>2, <2>3, Zenon DEF BufferInv, Untouched
  <2>5. p.array => p \in Parameter /\ Add(p, p.type, p.array)
    <3>1. CASE p = Null
      <4>1. ~Null.array
        BY Zenon DEF Null
      <4> QED BY <3>1, <4>1, Zenon
    <3>2. CASE p \in Parameter /\ t = p.type /\ a = p.array
      BY <1>5, <3>2, Zenon
    <3> QED BY <1>5, <3>1, <3>2, Zenon
  <2> QED BY <1>1, <2>1, <2>3, <2>4, <2>5, Zenon
<1>6. ASSUME NEW t \in Type, NEW a \in BOOLEAN, AddThrows(t, a)
      PROVE  BufferInv' /\ MessageInv' /\ Edge
  <2> DEFINE list == Grown(t, a)
             b == Counted(list)
  <2>1. asked /\ asked' = asked /\ m_dynamicParamCount' = m_dynamicParamCount
        /\ UNCHANGED <<message, sent, bare, m_nextRequestId>>
        /\ m_parameters' = list /\ m_buffer' = b /\ UNCHANGED <<given, m_currentParam, alive>>
    BY <1>6, Zenon DEF AddThrows, Adding
  <2>2. /\ list \in Seq([type : Type, array : BOOLEAN])
        /\ DOMAIN b = {"mem", "capacity"} /\ b.capacity = m_buffer.capacity
        /\ b.mem = BufferOf(Len(list), given)
    BY <2>1, CountedIs, Zenon
  <2> HIDE DEF list, b
  <2>3. BufferInv'
    BY <1>0, <2>1, <2>2, Zenon DEF BufferInv, Untouched
  <2> QED BY <1>1, <2>1, <2>3, Zenon
<1>7. CASE AddNull
  <2>1. asked /\ asked' = asked /\ m_dynamicParamCount' = m_dynamicParamCount
        /\ UNCHANGED <<message, sent, bare, m_nextRequestId>> /\ m_parameters' = m_parameters
    BY <1>7, Zenon DEF AddNull, Adding
  <2>2. CASE m_currentParam > Len(m_parameters)
    <3>1. UNCHANGED <<m_buffer, given, m_currentParam>>
      BY <1>7, <2>2, Zenon DEF AddNull
    <3>2. BufferInv'
      BY <2>1, <3>1, Zenon DEF BufferInv, Untouched
    <3> QED BY <1>1, <1>7, <2>1, <2>2, <3>2, Zenon DEF NullTooMany
  <2>3. CASE ~(m_currentParam > Len(m_parameters))
    <3>1. Write(m_buffer, Null) /\ Null \in Written
      BY <1>7, <2>3, Zenon DEF AddNull, Written
    <3>2. /\ DOMAIN m_buffer = {"mem", "capacity"}
          /\ m_buffer.mem = BufferOf(Len(m_parameters), given)
      BY <2>1, Zenon DEF BufferInv, Untouched
    <3>3. /\ given' \in Seq(Written) /\ m_currentParam' = Len(given')
          /\ DOMAIN m_buffer' = {"mem", "capacity"} /\ m_buffer'.capacity \in Nat \ {0}
          /\ m_buffer'.mem = BufferOf(Len(m_parameters), given')
          /\ alive /\ ~alive' => Null.array
      BY <1>0, <3>1, <3>2, WriteIs, Zenon
    <3>4. BufferInv'
      BY <1>0, <2>1, <3>3, Zenon DEF BufferInv, Untouched
    <3>5. ~Null.array
      BY Zenon DEF Null
    <3> QED BY <1>1, <2>1, <3>3, <3>4, <3>5, Zenon
  <2> QED BY <2>2, <2>3, Zenon
<1>8. CASE Invoke
  <2> DEFINE rest == m_buffer.mem
             id == m_nextRequestId
  <2>1. /\ m_currentParam = Len(m_parameters) /\ m_nextRequestId' = m_nextRequestId + 1
        /\ message' = SerializeTo(id) /\ sent' = given
        /\ bare' = (m_dynamicParamCount /\ ~asked) /\ alive' = (Len(message') <= SerializedSize)
        /\ Reset /\ m_dynamicParamCount' = FALSE /\ UNCHANGED <<m_parameters, asked>>
    BY <1>8, Zenon DEF Invoke
  <2>2. message' = Invocation(id, rest)
    BY <2>1, Zenon DEF SerializeTo, Invocation, Body
  <2>3. BufferInv'
    BY <1>0, <1>2, <2>1, ResetIs, Zenon DEF BufferInv, Untouched
  <2>4. IsSeq(rest) /\ Len(rest) \in Nat
    <3>1. CASE Untouched
      BY <3>1, EmptyIs DEF BufferInv
    <3>2. CASE ~Untouched
      <4>1. rest = BufferOf(Len(m_parameters), given)
        BY <3>2, Zenon DEF BufferInv
      <4> QED BY <1>0, <4>1, BufferIs, SeqLen, Zenon
    <3> QED BY <3>1, <3>2, Zenon
  <2> HIDE DEF rest
  <2>5. Len(message') = 17 + NameSize + Len(rest) /\ NameSize \in Nat
    <3>1. Parts(message', id, rest)
      BY <2>2, <2>4, MessageIs, Zenon
    <3> QED BY <3>1, ProcedureAssumption, Zenon DEF Parts
  <2>6. alive'
    <3>1. SerializedSize = 5 + 4 + NameSize + Len(rest) + 8
      BY Zenon DEF SerializedSize, rest
    <3>2. Len(message') <= SerializedSize
      BY <2>4, <2>5, <3>1
    <3> QED BY <2>1, <3>2, Zenon
  <2>7. MessageInv'
    <3>1. m_nextRequestId' \in Nat /\ m_nextRequestId' - 1 = id
      BY <2>1 DEF MessageInv
    <3>2. message' # <<>>
      BY <2>4, <2>5
    <3>3. bare' => sent' = <<>>
      BY <2>1, Zenon DEF BufferInv, Untouched
    <3>4. ~bare' => rest = BufferOf(Len(sent'), sent')
      BY <1>0, <2>1, Zenon DEF BufferInv, Untouched, rest
    <3>5. ~bare' => message' = Invocation(m_nextRequestId' - 1, BufferOf(Len(sent'), sent'))
      BY <2>2, <3>1, <3>4, Zenon
    <3> QED BY <1>0, <2>1, <3>1, <3>2, <3>3, <3>5, Zenon DEF MessageInv
  <2> QED BY <2>3, <2>6, <2>7, Zenon
<1>9. CASE \E p \in Parameter : Add(p, p.type, p.array)
  <2>1. PICK p \in Parameter : Add(p, p.type, p.array)
    BY <1>9, Zenon
  <2>2. p \in Written /\ p.type \in Type
    BY Zenon DEF Written, Parameter
  <2>3. p.array \in BOOLEAN
    BY <2>2, WrittenIs, Zenon
  <2> QED BY <1>5, <2>1, <2>2, <2>3, Zenon
<1>10. CASE \E t \in Type \cap Sized : Add(Null, t, FALSE)
  <2>1. PICK t \in Type \cap Sized : Add(Null, t, FALSE)
    BY <1>10, Zenon
  <2>2. Null \in Written /\ t \in Type /\ FALSE \in BOOLEAN
    BY Zenon DEF Written
  <2> QED BY <1>5, <2>1, <2>2, Zenon
<1>11. CASE \E t \in Type, a \in BOOLEAN : AddThrows(t, a)
  BY <1>6, <1>11, Zenon
<1> QED BY <1>3, <1>4, <1>7, <1>8, <1>9, <1>10, <1>11, Zenon DEF Next

\* Doubles take eight bytes each.
LEMMA DoublesLength ==
  ASSUME NEW p \in Parameter, p.type = WIRE_TYPE_FLOAT
  PROVE  Len(Items(p)) = 8 * Len(p.values)
<1> DEFINE q == Pieces(p.type, p.values)
           n == Len(p.values)
           T == {k \in Nat : k <= n => Start(q, k + 1) = 8 * k}
<1>0. Valued(p.type, p.values) /\ n \in Nat
  BY WrittenIs, Zenon DEF Written
<1>1. AllSeqs(q) /\ Len(q) = n /\ \A i \in 1 .. n : q[i] = Item(p.type, p.values[i])
  BY <1>0, PiecesAre
<1>2. /\ Start(q, 1) = 0 /\ Len(FlattenSeq(q)) = Start(q, n + 1)
      /\ \A k \in 1 .. n : Start(q, k + 1) = Start(q, k) + Len(q[k])
  BY <1>1, StartIs, Zenon
<1>3. ASSUME NEW k \in 1 .. n PROVE Len(q[k]) = 8
  <2>1. p.values[k] \in Value
    BY <1>0 DEF Valued
  <2>2. /\ p.type \in WireTypes /\ p.type \notin Sized /\ Width(p.type) = 8
    BY DEF WIRE_TYPE_FLOAT, WireTypes, Sized, WIRE_TYPE_STRING, WIRE_TYPE_VARBINARY, Width
  <2> QED BY <1>1, <2>1, <2>2, ItemIs, Zenon
<1> HIDE DEF n, q
<1>4. 0 \in T
  BY <1>2
<1>5. ASSUME NEW k \in Nat, k \in T PROVE k + 1 \in T
  <2>1. SUFFICES ASSUME k + 1 <= n PROVE Start(q, (k + 1) + 1) = 8 * (k + 1)
    OBVIOUS
  <2>2. k + 1 \in 1 .. n /\ Start(q, k + 1) = 8 * k
    BY <1>0, <1>5, <2>1
  <2>3. Start(q, (k + 1) + 1) = Start(q, k + 1) + Len(q[k + 1]) /\ Len(q[k + 1]) = 8
    BY <1>2, <1>3, <2>2, Zenon
  <2> QED BY <2>2, <2>3
<1> HIDE DEF T
<1>6. n \in T
  BY <1>0, <1>4, <1>5, SetInduction, Zenon
<1>7. Start(q, n + 1) = 8 * n
  BY <1>0, <1>6 DEF T
<1>8. Items(p) = FlattenSeq(q)
  BY Zenon DEF Items, Pieces, q
<1> QED BY <1>2, <1>7, <1>8, Zenon DEF n

\* The buffer and the last message are laid out as written, always.
THEOREM LaidOutAlways == Spec => [](BufferInv /\ MessageInv)
<1>1. Init => BufferInv /\ MessageInv
  BY ProcedureStarts, Zenon
<1>2. BufferInv /\ MessageInv /\ [Next]_vars => (BufferInv /\ MessageInv)'
  BY ProcedureSteps, Zenon
<1> QED BY <1>1, <1>2, PTL DEF Spec

\* Whatever the parameters, their types and number, the resets, the capacity of
\* the buffer and the length of the name, the server reads from the last message
\* exactly the parameters given for it.
THEOREM MessageReadableAlways == Spec => []MessageReadable
BY LaidOutAlways, LaidOutReadable, PTL

\* The partition key the client reads back is the first parameter.
THEOREM KeyIsFirstAlways == Spec => []KeyIsFirst
BY LaidOutAlways, LaidOutReadable, PTL

\* The add functions and invoke() throw only what they declare, but for addNull()
\* after one null too many and addDouble() of an array that misses a byte or two.
THEOREM EndsOnlyAtEdgesAlways == Spec => EndsOnlyAtEdges
<1> DEFINE Edge == alive /\ ~alive' => NullTooMany \/ \E p \in Parameter : DoublesTooLong(p)
<1>1. BufferInv /\ MessageInv /\ [Next]_vars => [Edge]_vars
  <2> SUFFICES ASSUME BufferInv, MessageInv, [Next]_vars, alive, ~alive', ~NullTooMany
               PROVE  \E p \in Parameter : DoublesTooLong(p)
    OBVIOUS
  <2>1. PICK p \in Parameter :
               /\ p.array /\ p.type = WIRE_TYPE_FLOAT /\ Add(p, p.type, p.array)
               /\ m_buffer'.capacity - Len(m_buffer'.mem) - Len(Items(p)) \in {2, 3}
    BY ProcedureSteps, Zenon
  <2> QED BY <2>1, DoublesLength, Zenon DEF DoublesTooLong
<1>2. Spec => [][Next]_vars
  BY PTL DEF Spec
<1> HIDE DEF Edge
<1>3. Spec => [][Edge]_vars
  BY <1>1, <1>2, LaidOutAlways, PTL
<1> QED BY <1>3, Zenon DEF EndsOnlyAtEdges, Edge
=============================================================================
