---------------------------- MODULE RewriteProofs ---------------------------
(***************************************************************************)
(* What the mutators and the capture parser do to the bytes of a message,  *)
(* proved for every ClientHello, ServerHello, name-list and key exchange   *)
(* blob the assumptions of Rewrite admit.                                  *)
(*                                                                         *)
(* The argument goes from the bytes to the state machine.  Has(w, off, s)  *)
(* says that the fields s stand in the buffer w at offset off; a field     *)
(* that stands somewhere is read there (ReadOfPart) and cut out there      *)
(* (SliceOfPart), so a parser that moves a cursor by the lengths it reads  *)
(* finds what the encoder wrote (TriplesOfTyped, HelloExtensions).         *)
(* Framed(w, v, off, a, b) says that two buffers differ in one part only;  *)
(* the encoders carry that outwards (FramedTyped ... FramedPacket), which  *)
(* is how the forgers are shown to touch nothing but the key.  Leads(w, s) *)
(* and CutOf are about a message that arrived in part.                     *)
(*                                                                         *)
(* Recursive definitions are reasoned about by induction over a set of     *)
(* numbers (NatSetInduction), which needs no operator parameter.           *)
(***************************************************************************)
EXTENDS Rewrite, SequenceTheorems, WellFoundedInduction, TLAPS
(***************************************************************************)
(* draft                                                                   *)
(***************************************************************************)

\* Induction over the natural numbers, for the set of those that have the
\* property: the library's induction theorems take the property as an
\* operator, its minimum principle takes a set.
LEMMA NatSetInduction ==
    ASSUME NEW S, 0 \in S, \A n \in Nat : n \in S => n + 1 \in S
    PROVE  Nat \subseteq S
<1> DEFINE T == Nat \ S
<1>1. SUFFICES ASSUME T # {} PROVE FALSE
  OBVIOUS
<1>2. PICK x \in T : \A y \in T : ~ (<<y, x>> \in OpToRel(<, Nat))
  <2> HIDE DEF T
  <2>1. T \subseteq Nat
    BY DEF T
  <2> QED BY <2>1, <1>1, NatLessThanWellFounded, WFMin
<1>3. x \in Nat /\ x # 0 /\ x - 1 \in Nat
  OBVIOUS
<1>4. <<x - 1, x>> \in OpToRel(<, Nat)
  BY <1>3 DEF OpToRel
<1>5. x - 1 \notin T
  <2> HIDE DEF T
  <2> QED BY <1>2, <1>4
<1> QED BY <1>3, <1>5

-----------------------------------------------------------------------------
\* Offsets.

\* A sequence of n things that have a size.
Sized(w, n) == n \in Nat /\ Len(w) = n /\ \A k \in 1 .. n : w[k].size \in Nat

\* f lists the offsets of the first n fields of w.
Offsets(f, w, n) ==
    /\ f \in [1 .. n + 1 -> Nat]
    /\ f[1] = 0
    /\ \A k \in 1 .. n : f[k + 1] = f[k] + w[k].size

\* The recursion of Starts, as a step on the function it defines.
StartsStep(g, w) ==
    [k \in 0 .. Len(w) |->
        IF k = 0 THEN <<0>> ELSE Append(g[k - 1], g[k - 1][k] + w[k].size)]

\* Every sized sequence has offsets.
LEMMA OffsetsExist ==
    ASSUME NEW w, NEW n, Sized(w, n)
    PROVE  \E f : Offsets(f, w, n)
<1> DEFINE S == {m \in Nat : m <= n => \E f : Offsets(f, w, m)}
<1>1. 0 \in S
  <2>1. Offsets([k \in 1 .. 1 |-> 0], w, 0)
    BY DEF Offsets
  <2> QED BY <2>1
<1>2. ASSUME NEW m \in Nat, m \in S PROVE m + 1 \in S
  <2>1. SUFFICES ASSUME m + 1 <= n PROVE \E f : Offsets(f, w, m + 1)
    OBVIOUS
  <2>2. PICK f : Offsets(f, w, m)
    BY <1>2, <2>1 DEF Sized
  <2> DEFINE g == [k \in 1 .. m + 2 |-> IF k = m + 2 THEN f[m + 1] + w[m + 1].size ELSE f[k]]
  <2>3. g \in [1 .. (m + 1) + 1 -> Nat] /\ g[1] = 0
    BY <2>1, <2>2 DEF Offsets, Sized
  <2>4. ASSUME NEW k \in 1 .. m + 1 PROVE g[k + 1] = g[k] + w[k].size
    BY <2>1, <2>2 DEF Offsets, Sized
  <2> QED BY <2>3, <2>4 DEF Offsets
<1> HIDE DEF S
<1>3. n \in S
  BY <1>1, <1>2, NatSetInduction DEF Sized
<1> QED BY <1>3 DEF S, Sized

\* What Starts computes.
LEMMA StartsOffsets ==
    ASSUME NEW w, NEW n, Sized(w, n)
    PROVE  Offsets(Starts(w), w, n)
<1>1. n \in Nat /\ Len(w) = n
  BY DEF Sized
<1>2. PICK f : Offsets(f, w, n)
  BY OffsetsExist
<1> DEFINE g == [k \in 0 .. n |-> [i \in 1 .. k + 1 |-> f[i]]]
           h == CHOOSE h : h = StartsStep(h, w)
<1>3. ASSUME NEW k \in 1 .. n
      PROVE  [i \in 1 .. k + 1 |-> f[i]]
             = Append([i \in 1 .. k |-> f[i]], f[k] + w[k].size)
  BY <1>1, <1>2, <1>3 DEF Offsets
<1>4. g = StartsStep(g, w)
  <2>1. g[0] = <<0>>
    BY <1>1, <1>2 DEF Offsets
  <2>2. ASSUME NEW k \in 1 .. n
        PROVE  g[k] = Append(g[k - 1], g[k - 1][k] + w[k].size)
    <3>1. g[k] = [i \in 1 .. k + 1 |-> f[i]] /\ g[k - 1] = [i \in 1 .. k |-> f[i]]
      BY <1>1
    <3>2. g[k - 1][k] = f[k]
      BY <3>1
    <3> HIDE DEF g
    <3> QED BY <3>1, <3>2, <1>3
  <2>3. g = [k \in 0 .. n |-> g[k]]
    OBVIOUS
  <2> HIDE DEF g
  <2>4. StartsStep(g, w) = [k \in 0 .. n |-> g[k]]
    <3>1. ASSUME NEW k \in 0 .. n
          PROVE  (IF k = 0 THEN <<0>> ELSE Append(g[k - 1], g[k - 1][k] + w[k].size)) = g[k]
      <4>1. k = 0 \/ k \in 1 .. n
        BY <1>1
      <4> QED BY <4>1, <2>1, <2>2
    <3> QED BY <3>1, <1>1, Zenon DEF StartsStep
  <2> QED BY <2>3, <2>4
<1>5. h = StartsStep(h, w)
  <2> HIDE DEF g
  <2> QED BY <1>4, Zenon
<1>6. Starts(w) = h[n]
  BY <1>1 DEF Starts, StartsStep
<1> HIDE DEF h, g
<1> DEFINE S == {k \in Nat : k <= n => h[k] = [i \in 1 .. k + 1 |-> f[i]]}
<1>7. 0 \in S
  BY <1>1, <1>2, <1>5 DEF StartsStep, Offsets
<1>8. ASSUME NEW k \in Nat, k \in S PROVE k + 1 \in S
  <2>1. SUFFICES ASSUME k + 1 <= n PROVE h[k + 1] = [i \in 1 .. k + 2 |-> f[i]]
    OBVIOUS
  <2>2. h[k] = [i \in 1 .. k + 1 |-> f[i]]
    BY <1>8, <2>1, <1>1
  <2>3. h[k + 1] = Append(h[k], h[k][k + 1] + w[k + 1].size)
    <3>1. k + 1 \in 0 .. Len(w) /\ k + 1 # 0 /\ (k + 1) - 1 = k
      BY <1>1, <2>1
    <3>2. StartsStep(h, w)[k + 1] = Append(h[k], h[k][k + 1] + w[k + 1].size)
      BY <3>1 DEF StartsStep
    <3> QED BY <3>2, <1>5
  <2>4. h[k][k + 1] = f[k + 1]
    BY <2>2
  <2> HIDE DEF S
  <2> QED BY <2>1, <2>2, <2>3, <2>4, <1>3, <1>1
<1> HIDE DEF S
<1>9. n \in S
  BY <1>1, <1>7, <1>8, NatSetInduction
<1>10. Starts(w) = [i \in 1 .. n + 1 |-> f[i]]
  BY <1>9, <1>6, <1>1 DEF S
<1>11. Starts(w) = f
  BY <1>10, <1>2, <1>1 DEF Offsets
<1> QED BY <1>11, <1>2

\* The offsets are determined by the sizes.
LEMMA OffsetsUnique ==
    ASSUME NEW w, NEW n, Sized(w, n), NEW f, Offsets(f, w, n)
    PROVE  Starts(w) = f
<1> DEFINE g == Starts(w)
           S == {k \in Nat : k <= n => g[k + 1] = f[k + 1]}
<1>1. Offsets(g, w, n) /\ n \in Nat
  BY StartsOffsets DEF Sized
<1> HIDE DEF g
<1>2. 0 \in S
  BY <1>1 DEF Offsets
<1>3. ASSUME NEW k \in Nat, k \in S PROVE k + 1 \in S
  <2>1. SUFFICES ASSUME k + 1 <= n PROVE g[(k + 1) + 1] = f[(k + 1) + 1]
    OBVIOUS
  <2>2. g[k + 1] = f[k + 1] /\ k + 1 \in 1 .. n
    BY <1>1, <1>3, <2>1
  <2> QED BY <2>2, <1>1 DEF Offsets
<1> HIDE DEF S
<1>4. Nat \subseteq S
  BY <1>2, <1>3, NatSetInduction
<1>5. ASSUME NEW k \in 1 .. n + 1 PROVE g[k] = f[k]
  <2>1. k - 1 \in S /\ k - 1 <= n /\ (k - 1) + 1 = k
    BY <1>1, <1>4
  <2> QED BY <2>1 DEF S
<1>6. g = f
  BY <1>1, <1>5 DEF Offsets
<1> QED BY <1>6 DEF g

\* A later field starts behind an earlier one, by at least its size.
LEMMA OffsetsGrow ==
    ASSUME NEW w, NEW n, Sized(w, n), NEW f, Offsets(f, w, n),
           NEW i \in 1 .. n + 1, NEW j \in 1 .. n + 1, i < j
    PROVE  f[i] + w[i].size <= f[j]
<1> DEFINE S == {d \in Nat : i + 1 + d <= n + 1 => f[i] + w[i].size <= f[i + 1 + d]}
<1>1. n \in Nat /\ i \in 1 .. n /\ w[i].size \in Nat /\ f[i] \in Nat
  <2>1. n \in Nat /\ i \in 1 .. n
    BY DEF Sized
  <2> QED BY <2>1 DEF Sized, Offsets
<1>2. 0 \in S
  BY <1>1 DEF Offsets
<1>3. ASSUME NEW d \in Nat, d \in S PROVE d + 1 \in S
  <2>1. SUFFICES ASSUME i + 1 + (d + 1) <= n + 1
                 PROVE  f[i] + w[i].size <= f[i + 1 + (d + 1)]
    OBVIOUS
  <2>2. i + 1 + d \in 1 .. n /\ i + 1 + (d + 1) = (i + 1 + d) + 1
    BY <1>1, <2>1
  <2>3. f[(i + 1 + d) + 1] = f[i + 1 + d] + w[i + 1 + d].size
    BY <2>2 DEF Offsets
  <2>4. f[i + 1 + d] \in Nat /\ w[i + 1 + d].size \in Nat
    BY <2>2, <1>1, SMTT(40) DEF Offsets, Sized
  <2>5. f[i] + w[i].size <= f[i + 1 + d]
    BY <1>3, <2>2, <1>1
  <2> QED BY <2>2, <2>3, <2>4, <2>5, <1>1
<1> HIDE DEF S
<1>4. j - i - 1 \in S
  BY <1>1, <1>2, <1>3, NatSetInduction
<1> QED BY <1>4, <1>1 DEF S

\* The fields the encoders write.  None of them is empty.
FieldNames ==
    {"content type", "version", "record length", "handshake type", "handshake length",
     "version and random", "session id length", "session id", "suites length", "suites",
     "methods length", "methods", "extensions length", "extension type", "length",
     "groups length", "group", "shares length", "share group", "value", "ecdh", "pq",
     "other extension", "random", "suite and method", "packet length", "padding length",
     "padding", "message", "cookie", "algorithms length", "algorithms", "other lists",
     "blob length", "behind"}
Fields == [name : FieldNames, size : Nat \ {0}, value : Seq(Int)]
Buffers == Seq(Fields)

\* What the proofs use of the offsets of a buffer.
LEMMA StartsOfBuffer ==
    ASSUME NEW w \in Buffers
    PROVE  /\ Sized(w, Len(w)) /\ Offsets(Starts(w), w, Len(w))
           /\ Len(w) \in Nat /\ DOMAIN w = 1 .. Len(w)
           /\ Size(w) \in Nat
           /\ Starts(w) \in [1 .. Len(w) + 1 -> Nat]
           /\ Starts(w)[1] = 0
           /\ Starts(w)[Len(w) + 1] = Size(w)
<1>1. Sized(w, Len(w)) /\ Len(w) \in Nat /\ DOMAIN w = 1 .. Len(w)
  <2>1. Len(w) \in Nat /\ DOMAIN w = 1 .. Len(w) /\ \A k \in 1 .. Len(w) : w[k] \in Fields
    BY DEF Buffers
  <2>2. \A f \in Fields : f.size \in Nat
    BY DEF Fields
  <2> QED BY <2>1, <2>2 DEF Sized
<1>2. Offsets(Starts(w), w, Len(w))
  BY <1>1, StartsOffsets
<1> QED BY <1>1, <1>2 DEF Offsets, Size

\* A field of a buffer takes at least one byte, and the next one starts behind it.
LEMMA FieldOfBuffer ==
    ASSUME NEW w \in Buffers, NEW k \in 1 .. Len(w)
    PROVE  /\ w[k] \in Fields
           /\ w[k].size \in Nat /\ w[k].size > 0
           /\ Starts(w)[k + 1] = Starts(w)[k] + w[k].size
<1>1. w[k] \in Fields /\ w[k].size \in Nat /\ w[k].size > 0
  <2>1. w[k] \in Fields
    BY DEF Buffers
  <2> QED BY <2>1 DEF Fields
<1> QED BY <1>1, StartsOfBuffer DEF Offsets

\* A later field of a buffer starts at a higher offset.
LEMMA StartsGrow ==
    ASSUME NEW w \in Buffers, NEW i \in 1 .. Len(w) + 1, NEW j \in 1 .. Len(w) + 1, i < j
    PROVE  Starts(w)[i] < Starts(w)[j]
<1>1. Starts(w)[i] + w[i].size <= Starts(w)[j]
  BY StartsOfBuffer, OffsetsGrow
<1>2. i \in 1 .. Len(w) /\ Starts(w)[i] \in Nat /\ Starts(w)[j] \in Nat
  BY StartsOfBuffer
<1>3. w[i].size \in Nat /\ w[i].size > 0
  BY <1>2, FieldOfBuffer
<1> QED BY <1>1, <1>2, <1>3

-----------------------------------------------------------------------------
\* A part of a buffer.

\* The fields s stand in w from position k on, where the offset is off.
Stands(w, k, off, s) ==
    /\ k \in 1 .. Len(w) + 1
    /\ k - 1 + Len(s) <= Len(w)
    /\ Starts(w)[k] = off
    /\ \A i \in 1 .. Len(s) : w[k - 1 + i] = s[i]
Has(w, off, s) == \E k \in 1 .. Len(w) + 1 : Stands(w, k, off, s)

\* The offsets inside a part are the part's own, shifted.
LEMMA StartsInside ==
    ASSUME NEW w \in Buffers, NEW s \in Buffers, NEW k, NEW off, Stands(w, k, off, s)
    PROVE  \A i \in 1 .. Len(s) + 1 : Starts(w)[k - 1 + i] = off + Starts(s)[i]
<1> DEFINE f == [j \in 1 .. Len(s) + 1 |-> Starts(w)[k - 1 + j] - off]
<1>1. /\ Len(w) \in Nat /\ Len(s) \in Nat /\ k \in 1 .. Len(w) + 1
      /\ k - 1 + Len(s) <= Len(w) /\ off \in Nat /\ Starts(w)[k] = off
  BY StartsOfBuffer DEF Stands
<1>2. ASSUME NEW j \in 1 .. Len(s) + 1
      PROVE  Starts(w)[k - 1 + j] \in Nat /\ Starts(w)[k - 1 + j] >= off
  <2>1. k - 1 + j \in 1 .. Len(w) + 1
    BY <1>1
  <2>2. Starts(w)[k - 1 + j] \in Nat
    BY <2>1, StartsOfBuffer
  <2>3. CASE j = 1
    BY <2>2, <2>3, <1>1
  <2>4. CASE j # 1
    <3>1. k < k - 1 + j
      BY <2>4, <1>1
    <3>2. Starts(w)[k] < Starts(w)[k - 1 + j]
      BY <3>1, <2>1, <1>1, StartsGrow
    <3> QED BY <3>2, <2>2, <1>1
  <2> QED BY <2>3, <2>4
<1>3. f \in [1 .. Len(s) + 1 -> Nat] /\ f[1] = 0
  BY <1>1, <1>2, SMTT(40)
<1>4. ASSUME NEW j \in 1 .. Len(s) PROVE f[j + 1] = f[j] + s[j].size
  <2>1. k - 1 + j \in 1 .. Len(w) /\ w[k - 1 + j] = s[j]
    BY <1>1 DEF Stands
  <2>2. Starts(w)[(k - 1 + j) + 1] = Starts(w)[k - 1 + j] + w[k - 1 + j].size
    BY <2>1, FieldOfBuffer
  <2>3. s[j].size \in Nat
    BY FieldOfBuffer
  <2>4. f[j + 1] = Starts(w)[(k - 1 + j) + 1] - off /\ f[j] = Starts(w)[k - 1 + j] - off
    BY <1>1
  <2>5. Starts(w)[k - 1 + j] \in Nat
    BY <1>2, <1>1
  <2> QED BY <2>1, <2>2, <2>3, <2>4, <2>5, <1>1, SMTT(40)
<1>5. Offsets(f, s, Len(s))
  BY <1>3, <1>4 DEF Offsets
<1>6. Starts(s) = f
  <2> HIDE DEF f
  <2> QED BY <1>5, StartsOfBuffer, OffsetsUnique
<1> TAKE i \in 1 .. Len(s) + 1
<1>7. Starts(s)[i] = Starts(w)[k - 1 + i] - off
  BY <1>6
<1> QED BY <1>7, <1>2, <1>1

\* The concatenation of two buffers, field by field.
LEMMA ConcatOfBuffers ==
    ASSUME NEW a \in Buffers, NEW b \in Buffers
    PROVE  /\ a \o b \in Buffers
           /\ Len(a \o b) = Len(a) + Len(b)
           /\ \A i \in 1 .. Len(a) : (a \o b)[i] = a[i]
           /\ \A i \in 1 .. Len(b) : (a \o b)[Len(a) + i] = b[i]
  BY DEF Buffers

\* Its size, and where the two buffers stand in it.
LEMMA SizeOfConcat ==
    ASSUME NEW a \in Buffers, NEW b \in Buffers
    PROVE  /\ a \o b \in Buffers
           /\ Size(a \o b) = Size(a) + Size(b)
           /\ Stands(a \o b, 1, 0, a)
           /\ Stands(a \o b, Len(a) + 1, Size(a), b)
<1> DEFINE w == a \o b
<1>1. /\ w \in Buffers /\ Len(w) = Len(a) + Len(b) /\ Len(a) \in Nat /\ Len(b) \in Nat
      /\ \A i \in 1 .. Len(a) : w[i] = a[i]
      /\ \A i \in 1 .. Len(b) : w[Len(a) + i] = b[i]
  BY ConcatOfBuffers, StartsOfBuffer
<1> HIDE DEF w
<1>2. Starts(w)[1] = 0 /\ Starts(w)[Len(w) + 1] = Size(w)
  BY <1>1, StartsOfBuffer
<1>3. Stands(w, 1, 0, a)
  BY <1>1, <1>2 DEF Stands
<1>4. Starts(w)[1 - 1 + (Len(a) + 1)] = 0 + Starts(a)[Len(a) + 1]
  BY <1>1, <1>3, StartsInside
<1>5. Starts(w)[Len(a) + 1] = Size(a) /\ Size(a) \in Nat /\ Size(b) \in Nat
  BY <1>1, <1>4, StartsOfBuffer
<1>6. Stands(w, Len(a) + 1, Size(a), b)
  BY <1>1, <1>5 DEF Stands
<1>7. Starts(w)[(Len(a) + 1) - 1 + (Len(b) + 1)] = Size(a) + Starts(b)[Len(b) + 1]
  <2>1. PICK m : m = Len(a) + 1
    OBVIOUS
  <2>0. Stands(w, m, Size(a), b)
    BY <2>1, <1>6
  <2>2. \A i \in 1 .. Len(b) + 1 : Starts(w)[m - 1 + i] = Size(a) + Starts(b)[i]
    BY <2>0, <1>1, StartsInside
  <2>3. Len(b) + 1 \in 1 .. Len(b) + 1
    BY <1>1
  <2>4. Starts(w)[m - 1 + (Len(b) + 1)] = Size(a) + Starts(b)[Len(b) + 1]
    BY <2>2, <2>3
  <2> QED BY <2>4, <2>1
<1>8. (Len(a) + 1) - 1 + (Len(b) + 1) = Len(w) + 1
  BY <1>1
<1>9. Size(w) = Size(a) + Size(b)
  BY <1>2, <1>7, <1>8, StartsOfBuffer
<1> QED BY <1>1, <1>3, <1>6, <1>9 DEF w

\* A part of a part.
LEMMA HasPart ==
    ASSUME NEW w \in Buffers, NEW s \in Buffers, NEW t \in Buffers,
           NEW off, NEW inner, Has(w, off, s), Has(s, inner, t)
    PROVE  Has(w, off + inner, t)
<1>1. PICK k \in 1 .. Len(w) + 1 : Stands(w, k, off, s)
  BY DEF Has
<1>2. PICK j \in 1 .. Len(s) + 1 : Stands(s, j, inner, t)
  BY DEF Has
<1>3. Starts(w)[k - 1 + j] = off + inner
  <2>1. \A i \in 1 .. Len(s) + 1 : Starts(w)[k - 1 + i] = off + Starts(s)[i]
    BY <1>1, StartsInside
  <2> QED BY <2>1, <1>2 DEF Stands
<1>4. Len(w) \in Nat /\ Len(s) \in Nat /\ Len(t) \in Nat
  BY StartsOfBuffer
<1>5. /\ k - 1 + j \in 1 .. Len(w) + 1 /\ (k - 1 + j) - 1 + Len(t) <= Len(w)
  BY <1>1, <1>2, <1>4 DEF Stands
<1>6. ASSUME NEW i \in 1 .. Len(t) PROVE w[(k - 1 + j) - 1 + i] = t[i]
  <2>1. s[j - 1 + i] = t[i] /\ j - 1 + i \in 1 .. Len(s)
    BY <1>2, <1>4 DEF Stands
  <2>2. w[k - 1 + (j - 1 + i)] = s[j - 1 + i]
    BY <2>1, <1>1 DEF Stands
  <2>3. k - 1 + (j - 1 + i) = (k - 1 + j) - 1 + i
    BY <1>4
  <2> QED BY <2>1, <2>2, <2>3
<1>7. Stands(w, k - 1 + j, off + inner, t)
  BY <1>3, <1>5, <1>6 DEF Stands
<1> QED BY <1>5, <1>7 DEF Has

\* A buffer that has a concatenation has both parts, one behind the other.
LEMMA HasConcat ==
    ASSUME NEW w \in Buffers, NEW a \in Buffers, NEW b \in Buffers, NEW off \in Int,
           Has(w, off, a \o b)
    PROVE  Has(w, off, a) /\ Has(w, off + Size(a), b)
<1>1. a \o b \in Buffers /\ Stands(a \o b, 1, 0, a) /\ Stands(a \o b, Len(a) + 1, Size(a), b)
  BY SizeOfConcat
<1>2. Has(a \o b, 0, a) /\ Has(a \o b, Size(a), b)
  BY <1>1 DEF Has, Stands
<1>3. Has(w, off + 0, a) /\ Has(w, off + Size(a), b)
  BY <1>1, <1>2, HasPart
<1>4. off + 0 = off
  OBVIOUS
<1> QED BY <1>3, <1>4

\* A buffer has itself.
LEMMA HasAll ==
    ASSUME NEW w \in Buffers
    PROVE  Has(w, 0, w)
<1>1. Stands(w, 1, 0, w)
  BY StartsOfBuffer DEF Stands
<1> QED BY <1>1 DEF Has, Stands

\* Byte off is in the field whose bounds it is between.
LEMMA FieldAtOffset ==
    ASSUME NEW w \in Buffers, NEW k \in 1 .. Len(w), NEW off \in Int,
           Starts(w)[k] <= off, off < Starts(w)[k + 1]
    PROVE  FieldAt(Starts(w), off) = k
<1> DEFINE at == Starts(w)
<1>1. Len(w) \in Nat /\ at \in [1 .. Len(w) + 1 -> Nat]
  BY StartsOfBuffer
<1>2. \A i, j \in 1 .. Len(w) + 1 : i < j => at[i] < at[j]
  BY StartsGrow
<1>3. Starts(w) = at /\ at[k] <= off /\ off < at[k + 1]
  OBVIOUS
<1> HIDE DEF at
<1>4. Len(at) - 1 = Len(w)
  BY <1>1
<1>5. ASSUME NEW j \in 1 .. Len(w), at[j] <= off, off < at[j + 1]
      PROVE  j = k
  <2>1. at[j] \in Nat /\ at[j + 1] \in Nat /\ at[k] \in Nat /\ at[k + 1] \in Nat
    BY <1>1
  <2>2. CASE j < k
    <3>1. j + 1 = k \/ at[j + 1] < at[k]
      BY <2>2, <1>1, <1>2
    <3> QED BY <3>1, <2>1, <1>3, <1>5
  <2>3. CASE k < j
    <3>1. k + 1 = j \/ at[k + 1] < at[j]
      BY <2>3, <1>1, <1>2
    <3> QED BY <3>1, <2>1, <1>3, <1>5
  <2> QED BY <2>2, <2>3, <1>1
<1> QED BY <1>3, <1>4, <1>5 DEF FieldAt

\* A field inside the bounds of a slice is not clipped.
LEMMA ClippedWhole ==
    ASSUME NEW f \in Fields, NEW start \in Int, NEW from \in Int, NEW end \in Int,
           from <= start, start + f.size <= end
    PROVE  Clipped(f, start, from, end) = f
<1>1. f.size \in Int
  BY DEF Fields
<1>2. (IF start + f.size < end THEN start + f.size ELSE end)
      - (IF start > from THEN start ELSE from) = f.size
  BY <1>1
<1>3. \A x : x = f.size => [f EXCEPT !.size = x] = f
  BY DEF Fields
<1>4. Clipped(f, start, from, end) =
      [f EXCEPT !.size = (IF start + f.size < end THEN start + f.size ELSE end)
                         - (IF start > from THEN start ELSE from)]
  BY Zenon DEF Clipped
<1> QED BY <1>2, <1>3, <1>4

\* w[off : off + Size(s)] = s
LEMMA SliceOfPart ==
    ASSUME NEW w \in Buffers, NEW s \in Buffers, NEW off, Has(w, off, s)
    PROVE  /\ off \in Nat /\ off + Size(s) <= Size(w)
           /\ Slice(w, off, off + Size(s)) = s
<1> DEFINE at == Starts(w)
           end == off + Size(s)
<1>1. PICK k \in 1 .. Len(w) + 1 : Stands(w, k, off, s)
  BY DEF Has
<1>2. /\ Len(w) \in Nat /\ Len(s) \in Nat /\ DOMAIN w = 1 .. Len(w)
      /\ at \in [1 .. Len(w) + 1 -> Nat]
      /\ Size(s) \in Nat /\ Size(w) \in Nat /\ at[Len(w) + 1] = Size(w)
      /\ Starts(s)[Len(s) + 1] = Size(s) /\ DOMAIN s = 1 .. Len(s)
  BY StartsOfBuffer
<1>3. /\ k - 1 + Len(s) <= Len(w) /\ at[k] = off /\ off \in Nat
      /\ \A i \in 1 .. Len(s) : w[k - 1 + i] = s[i]
  BY <1>1, <1>2 DEF Stands
<1>4. at[k + Len(s)] = end /\ k + Len(s) \in 1 .. Len(w) + 1
  <2>1. \A i \in 1 .. Len(s) + 1 : Starts(w)[k - 1 + i] = off + Starts(s)[i]
    BY <1>1, StartsInside
  <2>2. Starts(w)[k - 1 + (Len(s) + 1)] = off + Starts(s)[Len(s) + 1]
    BY <2>1, <1>2
  <2> QED BY <2>2, <1>2, <1>3
<1>5. \A i, j \in 1 .. Len(w) + 1 : i < j => at[i] < at[j]
  BY StartsGrow
<1>6. \A i \in 1 .. Len(w) :
         at[i + 1] = at[i] + w[i].size /\ w[i] \in Fields /\ w[i].size \in Nat
  BY FieldOfBuffer
<1>7. at = Starts(w) /\ end \in Nat /\ end = off + Size(s)
  BY <1>2, <1>3
<1> HIDE DEF at, end
<1>8. end <= Size(w)
  <2>1. CASE k + Len(s) = Len(w) + 1
    BY <2>1, <1>4, <1>2
  <2>2. CASE k + Len(s) < Len(w) + 1
    <3>1. at[k + Len(s)] < at[Len(w) + 1]
      BY <2>2, <1>4, <1>2, <1>5
    <3> QED BY <3>1, <1>4, <1>2
  <2> QED BY <2>1, <2>2, <1>2, <1>4
<1>9. CASE Len(s) = 0
  <2>1. s = <<>> /\ end = off
    BY <1>9, <1>4, <1>3, <1>2 DEF Buffers
  <2>2. Slice(w, off, end) = <<>>
    BY <2>1, <1>8, <1>2, <1>3 DEF Slice
  <2> QED BY <2>1, <2>2, <1>8, <1>3, <1>7
<1>10. CASE Len(s) > 0
  <2>1. PICK m \in 1 .. Len(w) : m = k + Len(s) - 1
    BY <1>10, <1>2, <1>3
  <2>2. k \in 1 .. Len(w) /\ at[m + 1] = end /\ m - k + 1 = Len(s) /\ k <= m
    BY <1>10, <1>2, <1>3, <1>4, <2>1
  <2>3. at[k] \in Nat /\ at[k + 1] \in Nat /\ at[m] \in Nat
        /\ at[k] < at[k + 1] /\ at[m] < at[m + 1] /\ at[k] < at[m + 1]
    <3>1. k \in 1 .. Len(w) + 1 /\ k + 1 \in 1 .. Len(w) + 1 /\ m \in 1 .. Len(w) + 1
          /\ m + 1 \in 1 .. Len(w) + 1 /\ k < k + 1 /\ m < m + 1 /\ k < m + 1
      BY <2>2, <1>2
    <3> QED BY <3>1, <1>2, <1>5
  <2>4. FieldAt(at, off) = k
    BY <2>2, <2>3, <1>3, <1>7, FieldAtOffset
  <2>5. FieldAt(at, end - 1) = m
    <3>1. Starts(w)[m] <= end - 1 /\ end - 1 < Starts(w)[m + 1] /\ end - 1 \in Int
      BY <2>2, <2>3, <1>7
    <3> QED BY <3>1, <1>7, FieldAtOffset
  <2>6. (IF end < Size(w) THEN end ELSE Size(w)) = end /\ ~(off >= end)
    BY <1>8, <1>2, <2>2, <2>3, <1>3, <1>7, SMTT(40)
  <2>7. Slice(w, off, end)
        = [i \in 1 .. m - k + 1 |-> Clipped(w[k + i - 1], at[k + i - 1], off, end)]
    BY <2>4, <2>5, <2>6, <1>7, Zenon DEF Slice
  <2>8. ASSUME NEW i \in 1 .. Len(s)
        PROVE  Clipped(w[k + i - 1], at[k + i - 1], off, end) = s[i]
    <3>1. PICK q \in 1 .. Len(w) : q = k + i - 1
      BY <1>2, <1>3
    <3>2. w[q] = s[i]
      <4>1. q = k - 1 + i
        BY <3>1, <1>2
      <4> QED BY <4>1, <3>1, <1>2, <1>3
    <3>3. at[q + 1] = at[q] + w[q].size /\ w[q] \in Fields /\ w[q].size \in Nat
      BY <1>6
    <3>4. at[q] \in Nat /\ at[q + 1] \in Nat
      BY <1>2, SMTT(40)
    <3>5. at[q + 1] <= end
      <4>1. q = m \/ q < m
        <5>1. q <= m
          BY <3>1, <2>1, <1>2
        <5> QED BY <5>1
      <4>2. q = m \/ at[q + 1] < at[m + 1]
        BY <4>1, <1>2, <1>5, SMTT(40)
      <4> QED BY <4>2, <2>2, <3>4, <1>7
    <3>6. at[q] >= off
      <4>1. q = k \/ k < q
        BY <3>1, <1>2
      <4>2. q = k \/ at[k] < at[q]
        BY <4>1, <1>2, <1>5
      <4> QED BY <4>2, <1>3, <3>4, SMTT(40)
    <3>7. Clipped(w[q], at[q], off, end) = w[q]
      <4>1. at[q] + w[q].size <= end
        BY <3>3, <3>5
      <4> QED BY <4>1, <3>3, <3>4, <3>6, <1>3, <1>7, ClippedWhole, SMTT(40)
    <3> QED BY <3>1, <3>2, <3>7
  <2>9. Slice(w, off, end) = [i \in 1 .. Len(s) |-> s[i]]
    BY <2>7, <2>8, <2>2, Zenon
  <2>10. s = [i \in 1 .. Len(s) |-> s[i]]
    BY <1>2 DEF Buffers
  <2> QED BY <2>9, <2>10, <1>3, <1>7, <1>8
<1> QED BY <1>9, <1>10, <1>2

\* The number in a field is read at the field's offset.
LEMMA ReadOfPart ==
    ASSUME NEW w \in Buffers, NEW off, NEW name, NEW size, NEW value,
           Num(name, size, value) \in Buffers, Has(w, off, Num(name, size, value))
    PROVE  Read(w, off, size) = value
<1> DEFINE s == Num(name, size, value)
<1>1. Len(s) = 1 /\ s[1].size = size /\ s[1].value[1] = value
  BY DEF Num
<1>2. PICK k \in 1 .. Len(w) + 1 : Stands(w, k, off, s)
  BY DEF Has
<1>3. Len(w) \in Nat /\ DOMAIN w = 1 .. Len(w) /\ Starts(w) \in [1 .. Len(w) + 1 -> Nat]
  BY StartsOfBuffer
<1> HIDE DEF s
<1>4. k \in 1 .. Len(w) /\ w[k] = s[1] /\ Starts(w)[k] = off
  <2>1. k <= Len(w) /\ k - 1 + 1 = k /\ w[k - 1 + 1] = s[1]
    BY <1>1, <1>2, <1>3 DEF Stands
  <2> QED BY <2>1, <1>2 DEF Stands
<1>5. ASSUME NEW j \in DOMAIN w, Starts(w)[j] = off
      PROVE  j = k
  <2>1. CASE j < k
    <3>1. Starts(w)[j] < Starts(w)[k]
      BY <2>1, <1>3, <1>4, StartsGrow
    <3> QED BY <3>1, <1>3, <1>4, <1>5
  <2>2. CASE k < j
    <3>1. Starts(w)[k] < Starts(w)[j]
      BY <2>2, <1>3, <1>4, StartsGrow
    <3> QED BY <3>1, <1>3, <1>4, <1>5
  <2> QED BY <2>1, <2>2, <1>3, <1>4
<1>6. (CHOOSE j \in DOMAIN w : Starts(w)[j] = off /\ w[j].size = size) = k
  <2>1. k \in DOMAIN w /\ w[k].size = size
    BY <1>1, <1>3, <1>4
  <2> QED BY <2>1, <1>4, <1>5
<1>7. Read(w, off, size) = w[k].value[1]
  BY <1>6 DEF Read
<1> QED BY <1>1, <1>4, <1>7

\* The empty buffer.
LEMMA EmptyBuffer == <<>> \in Buffers /\ Size(<<>>) = 0 /\ Len(<<>>) = 0
<1>1. <<>> \in Buffers /\ Len(<<>>) = 0
  BY DEF Buffers
<1> QED BY <1>1, StartsOfBuffer

\* A number is a buffer of one field.
LEMMA NumBuffer ==
    ASSUME NEW name \in FieldNames, NEW size \in Nat \ {0}, NEW value \in Int
    PROVE  /\ Num(name, size, value) \in Buffers
           /\ Size(Num(name, size, value)) = size
           /\ Len(Num(name, size, value)) = 1
           /\ Num(name, size, value) = <<Num(name, size, value)[1]>>
           /\ Num(name, size, value)[1] \in Fields
           /\ Num(name, size, value)[1].value[1] = value
           /\ Num(name, size, value)[1].value = <<value>>
<1> DEFINE f == [name |-> name, size |-> size, value |-> <<value>>]
           s == <<f>>
<1>1. Num(name, size, value) = s
  BY DEF Num
<1>2. f \in Fields /\ f.size = size /\ f.value[1] = value /\ f.value = <<value>>
  BY DEF Fields
<1> HIDE DEF f
<1>3. s \in Buffers /\ Len(s) = 1 /\ s[1] = f
  BY <1>2 DEF Buffers
<1> HIDE DEF s
<1>4. Starts(s)[1] = 0 /\ Starts(s)[Len(s) + 1] = Size(s)
  BY <1>3, StartsOfBuffer
<1>5. Starts(s)[1 + 1] = Starts(s)[1] + s[1].size
  <2>1. 1 \in 1 .. Len(s)
    BY <1>3
  <2> QED BY <1>3, <2>1, FieldOfBuffer
<1>6. Size(s) = size
  BY <1>2, <1>3, <1>4, <1>5
<1> QED BY <1>1, <1>2, <1>3, <1>6 DEF s

\* Opaque bytes are a buffer of their size, empty if there are none.
LEMMA OpaqueBuffer ==
    ASSUME NEW name \in FieldNames, NEW size \in Nat
    PROVE  Opaque(name, size) \in Buffers /\ Size(Opaque(name, size)) = size
<1>1. CASE size = 0
  BY <1>1, EmptyBuffer DEF Opaque
<1>2. CASE size # 0
  <2>1. Opaque(name, size) = Num(name, size, 1) /\ size \in Nat \ {0} /\ 1 \in Int
    BY <1>2 DEF Opaque
  <2> QED BY <2>1, NumBuffer
<1> QED BY <1>1, <1>2

-----------------------------------------------------------------------------
\* Concatenations of a sequence of buffers.

\* The offsets of the parts in the concatenation of ws.
Offs(ws) == Starts([k \in DOMAIN ws |-> [size |-> Size(ws[k])]])

\* The offsets of parts grow by the sizes of the parts.
LEMMA OffsOfParts ==
    ASSUME NEW ws \in Seq(Buffers)
    PROVE  /\ Len(ws) \in Nat /\ DOMAIN ws = 1 .. Len(ws)
           /\ \A k \in 1 .. Len(ws) : ws[k] \in Buffers
           /\ Offs(ws) \in [1 .. Len(ws) + 1 -> Nat]
           /\ Offs(ws)[1] = 0
           /\ \A k \in 1 .. Len(ws) : Offs(ws)[k + 1] = Offs(ws)[k] + Size(ws[k])
<1> DEFINE z == [k \in DOMAIN ws |-> [size |-> Size(ws[k])]]
<1>1. Len(ws) \in Nat /\ DOMAIN ws = 1 .. Len(ws) /\ \A k \in 1 .. Len(ws) : ws[k] \in Buffers
  OBVIOUS
<1>2. \A k \in 1 .. Len(ws) : Size(ws[k]) \in Nat
  BY <1>1, StartsOfBuffer
<1>3. Len(z) = Len(ws) /\ \A k \in 1 .. Len(ws) : z[k].size = Size(ws[k])
  BY <1>1
<1>4. Offs(ws) = Starts(z)
  BY DEF Offs
<1> HIDE DEF z
<1>5. Sized(z, Len(ws))
  BY <1>1, <1>2, <1>3 DEF Sized
<1>6. Offsets(Starts(z), z, Len(ws))
  BY <1>5, StartsOffsets
<1> QED BY <1>1, <1>3, <1>4, <1>6 DEF Offsets

\* The recursion of FlattenSeq, as a step on the function it defines.
FlatStep(g, ws) ==
    [i \in 1 .. Len(ws) |-> IF i = 1 THEN ws[i] ELSE g[i - 1] \o ws[i]]

\* The concatenations of the first parts.
FlatUpTo(f, ws, n) ==
    \A i \in 1 .. n : f[i] = IF i = 1 THEN ws[i] ELSE f[i - 1] \o ws[i]

\* There is a function of the concatenations of the first parts.
LEMMA FlatUpToExists ==
    ASSUME NEW ws \in Seq(Buffers)
    PROVE  \E f : f = [i \in 1 .. Len(ws) |-> f[i]] /\ FlatUpTo(f, ws, Len(ws))
<1> DEFINE S == {m \in Nat : \E f : f = [i \in 1 .. m |-> f[i]] /\ FlatUpTo(f, ws, m)}
<1>1. 0 \in S
  <2>1. PICK f : f = [i \in 1 .. 0 |-> i]
    OBVIOUS
  <2>2. f = [i \in 1 .. 0 |-> f[i]]
    BY <2>1
  <2>3. FlatUpTo(f, ws, 0)
    BY DEF FlatUpTo
  <2> QED BY <2>2, <2>3
<1>2. ASSUME NEW m \in Nat, m \in S PROVE m + 1 \in S
  <2>1. PICK f : f = [i \in 1 .. m |-> f[i]] /\ FlatUpTo(f, ws, m)
    BY <1>2
  <2> DEFINE new == IF m = 0 THEN ws[1] ELSE f[m] \o ws[m + 1]
             g == [i \in 1 .. m + 1 |-> IF i = m + 1 THEN new ELSE f[i]]
  <2>2. g = [i \in 1 .. m + 1 |-> g[i]]
    OBVIOUS
  <2>3. \A i \in 1 .. m : g[i] = f[i]
    OBVIOUS
  <2>4. g[m + 1] = new
    OBVIOUS
  <2> HIDE DEF g
  <2>5. ASSUME NEW i \in 1 .. m + 1
        PROVE  g[i] = IF i = 1 THEN ws[i] ELSE g[i - 1] \o ws[i]
    <3>1. CASE i = m + 1
      <4>1. CASE m = 0
        BY <3>1, <4>1, <2>4
      <4>2. CASE m # 0
        <5>1. i # 1 /\ i - 1 = m /\ m \in 1 .. m
          BY <3>1, <4>2
        <5> QED BY <3>1, <4>2, <5>1, <2>3, <2>4
      <4> QED BY <4>1, <4>2
    <3>2. CASE i \in 1 .. m
      <4>1. i = 1 \/ i - 1 \in 1 .. m
        BY <3>2
      <4> QED BY <3>2, <4>1, <2>1, <2>3 DEF FlatUpTo
    <3> QED BY <3>1, <3>2
  <2>6. FlatUpTo(g, ws, m + 1)
    BY <2>5 DEF FlatUpTo
  <2> QED BY <2>2, <2>6
<1> HIDE DEF S
<1>3. Len(ws) \in S
  BY <1>1, <1>2, NatSetInduction
<1> QED BY <1>3 DEF S

\* The parts stand in their concatenation at their offsets.
HoldsParts(w, ws, n) ==
    /\ w \in Buffers
    /\ Size(w) = Offs(ws)[n + 1]
    /\ \A k \in 1 .. n : Has(w, Offs(ws)[k], ws[k])
    /\ (\A k \in 1 .. n : Len(ws[k]) >= 1) => Len(w) >= n

\* Flattening a sequence of buffers puts each of them at its offset.
LEMMA FlatHoldsParts ==
    ASSUME NEW ws \in Seq(Buffers)
    PROVE  HoldsParts(Flat(ws), ws, Len(ws))
<1>1. /\ Len(ws) \in Nat /\ DOMAIN ws = 1 .. Len(ws)
      /\ \A k \in 1 .. Len(ws) : ws[k] \in Buffers
      /\ Offs(ws) \in [1 .. Len(ws) + 1 -> Nat]
      /\ Offs(ws)[1] = 0
      /\ \A k \in 1 .. Len(ws) : Offs(ws)[k + 1] = Offs(ws)[k] + Size(ws[k])
  BY OffsOfParts
<1>2. CASE Len(ws) = 0
  <2>1. Flat(ws) = <<>>
    BY <1>2 DEF Flat, FlattenSeq
  <2> QED BY <2>1, <1>1, <1>2, EmptyBuffer DEF HoldsParts
<1>3. CASE Len(ws) # 0
  <2> DEFINE h == CHOOSE h : h = FlatStep(h, ws)
  <2>1. h = FlatStep(h, ws)
    <3>1. PICK f : f = [i \in 1 .. Len(ws) |-> f[i]] /\ FlatUpTo(f, ws, Len(ws))
      BY FlatUpToExists
    <3>2. f = FlatStep(f, ws)
      BY <3>1, Zenon DEF FlatUpTo, FlatStep
    <3> QED BY <3>2, Zenon
  <2>2. Flat(ws) = h[Len(ws)]
    BY <1>3 DEF Flat, FlattenSeq, FlatStep
  <2> HIDE DEF h
  <2> DEFINE S == {m \in Nat : m + 1 <= Len(ws) => HoldsParts(h[m + 1], ws, m + 1)}
  <2>3. 0 \in S
    <3>1. h[1] = ws[1] /\ ws[1] \in Buffers /\ Offs(ws)[1 + 1] = Offs(ws)[1] + Size(ws[1])
      BY <2>1, <1>1, <1>3 DEF FlatStep
    <3>2. Has(ws[1], 0, ws[1]) /\ Size(ws[1]) \in Nat
      BY <3>1, HasAll, StartsOfBuffer
    <3>3. HoldsParts(h[1], ws, 1)
      BY <3>1, <3>2, <1>1 DEF HoldsParts
    <3> QED BY <3>3
  <2>4. ASSUME NEW m \in Nat, m \in S PROVE m + 1 \in S
    <3>1. SUFFICES ASSUME m + 2 <= Len(ws) PROVE HoldsParts(h[m + 2], ws, m + 2)
      OBVIOUS
    <3> DEFINE a == h[m + 1]
               b == ws[m + 2]
    <3>2. h[m + 2] = a \o b
      <4>1. m + 2 \in 1 .. Len(ws) /\ m + 2 # 1 /\ (m + 2) - 1 = m + 1
        BY <3>1, <1>1
      <4>2. FlatStep(h, ws)[m + 2] = a \o b
        BY <4>1 DEF FlatStep
      <4> QED BY <4>2, <2>1
    <3>3. HoldsParts(a, ws, m + 1)
      BY <2>4, <3>1, <1>1
    <3>4. a \in Buffers /\ b \in Buffers /\ Size(a) = Offs(ws)[m + 2]
      BY <3>1, <3>3, <1>1 DEF HoldsParts
    <3> HIDE DEF a, b
    <3>5. /\ a \o b \in Buffers /\ Size(a \o b) = Size(a) + Size(b)
          /\ Has(a \o b, 0, a) /\ Has(a \o b, Size(a), b)
      BY <3>4, SizeOfConcat, ZenonT(60) DEF Has, Stands
    <3>6. ASSUME NEW k \in 1 .. m + 1 PROVE Has(a \o b, Offs(ws)[k], ws[k])
      <4>1. Has(a, Offs(ws)[k], ws[k]) /\ ws[k] \in Buffers /\ Offs(ws)[k] \in Nat
        <5>1. k \in 1 .. Len(ws) /\ k \in 1 .. Len(ws) + 1
          BY <3>1, <1>1
        <5>2. Has(a, Offs(ws)[k], ws[k])
          BY <3>3 DEF HoldsParts
        <5> QED BY <5>1, <5>2, <1>1
      <4>2. Has(a \o b, 0 + Offs(ws)[k], ws[k])
        BY <4>1, <3>4, <3>5, HasPart
      <4> QED BY <4>1, <4>2
    <3>7. Has(a \o b, Offs(ws)[m + 2], ws[m + 2])
      BY <3>4, <3>5 DEF b
    <3>8. \A k \in 1 .. m + 2 : k \in 1 .. m + 1 \/ k = m + 2
      OBVIOUS
    <3>9. Size(a \o b) = Offs(ws)[(m + 2) + 1]
      <4>1. m + 2 \in 1 .. Len(ws)
        BY <3>1, <1>1
      <4> QED BY <4>1, <3>4, <3>5, <1>1 DEF b
    <3>10. ASSUME \A k \in 1 .. m + 2 : Len(ws[k]) >= 1 PROVE Len(a \o b) >= m + 2
      <4>1. Len(a) >= m + 1
        BY <3>10, <3>3 DEF HoldsParts
      <4>2. Len(b) >= 1
        BY <3>10 DEF b
      <4>3. Len(a \o b) = Len(a) + Len(b) /\ Len(a) \in Nat /\ Len(b) \in Nat
        BY <3>4, ConcatOfBuffers, StartsOfBuffer
      <4> QED BY <4>1, <4>2, <4>3
    <3> QED BY <3>2, <3>5, <3>6, <3>7, <3>8, <3>9, <3>10 DEF HoldsParts
  <2> HIDE DEF S
  <2>5. Len(ws) - 1 \in S
    BY <2>3, <2>4, <1>1, <1>3, NatSetInduction
  <2> QED BY <2>2, <2>5, <1>1, <1>3 DEF S
<1> QED BY <1>2, <1>3

\* A later part starts behind an earlier one, by at least its size.
LEMMA OffsGrow ==
    ASSUME NEW ws \in Seq(Buffers), NEW i \in 1 .. Len(ws) + 1, NEW j \in 1 .. Len(ws) + 1, i < j
    PROVE  Offs(ws)[i] + Size(ws[i]) <= Offs(ws)[j]
<1> DEFINE z == [k \in DOMAIN ws |-> [size |-> Size(ws[k])]]
<1>1. Len(ws) \in Nat /\ DOMAIN ws = 1 .. Len(ws) /\ \A k \in 1 .. Len(ws) : ws[k] \in Buffers
  OBVIOUS
<1>2. \A k \in 1 .. Len(ws) : Size(ws[k]) \in Nat
  BY <1>1, StartsOfBuffer
<1>3. Len(z) = Len(ws) /\ \A k \in 1 .. Len(ws) : z[k].size = Size(ws[k])
  BY <1>1
<1>4. Offs(ws) = Starts(z)
  BY DEF Offs
<1> HIDE DEF z
<1>5. Sized(z, Len(ws))
  BY <1>1, <1>2, <1>3 DEF Sized
<1>6. Offsets(Starts(z), z, Len(ws))
  BY <1>5, StartsOffsets
<1>7. Starts(z)[i] + z[i].size <= Starts(z)[j]
  BY <1>5, <1>6, OffsetsGrow
<1>8. i \in 1 .. Len(ws)
  BY <1>1
<1> QED BY <1>3, <1>4, <1>7, <1>8

-----------------------------------------------------------------------------
\* Selections.

\* The recursion of Positions, as a step on the function it defines.
PosStep(g, n, K) ==
    [k \in 0 .. n |->
        IF k = 0 THEN <<>> ELSE IF k \in K THEN Append(g[k - 1], k) ELSE g[k - 1]]

\* p lists what of 1 .. n is in K.
Lists(p, n, K) ==
    /\ p \in Seq(Nat)
    /\ \A j \in 1 .. Len(p) : p[j] \in K /\ p[j] \in 1 .. n
    /\ \A k \in 1 .. n : k \in K => \E j \in 1 .. Len(p) : p[j] = k
    /\ 1 .. n \subseteq K => p = [i \in 1 .. n |-> i]
    /\ Len(p) <= n
    /\ ~(1 .. n \subseteq K) => Len(p) < n
    /\ \A i, j \in 1 .. Len(p) : i < j => p[i] < p[j]

\* The list for n + 1 is the one for n, with n + 1 if that is in K.
LEMMA ListsNext ==
    ASSUME NEW p, NEW n \in Nat, NEW K, Lists(p, n, K)
    PROVE  Lists(IF n + 1 \in K THEN Append(p, n + 1) ELSE p, n + 1, K)
<1>1. p \in Seq(Nat) /\ Len(p) \in Nat /\ Len(p) <= n
  BY DEF Lists
<1>2. CASE n + 1 \in K
  <2> DEFINE q == Append(p, n + 1)
  <2>1. q \in Seq(Nat) /\ Len(q) = Len(p) + 1 /\ q[Len(p) + 1] = n + 1
        /\ \A j \in 1 .. Len(p) : q[j] = p[j]
    BY <1>1
  <2> HIDE DEF q
  <2>2. ASSUME NEW j \in 1 .. Len(q) PROVE q[j] \in K /\ q[j] \in 1 .. n + 1
    <3>1. j = Len(p) + 1 \/ j \in 1 .. Len(p)
      BY <1>1, <2>1
    <3>2. CASE j = Len(p) + 1
      BY <3>2, <2>1, <1>2
    <3>3. CASE j \in 1 .. Len(p)
      <4>1. p[j] \in K /\ p[j] \in 1 .. n /\ q[j] = p[j]
        BY <3>3, <2>1 DEF Lists
      <4> QED BY <4>1
    <3> QED BY <3>1, <3>2, <3>3
  <2>3. ASSUME NEW k \in 1 .. n + 1, k \in K PROVE \E j \in 1 .. Len(q) : q[j] = k
    <3>1. CASE k = n + 1
      <4>1. Len(p) + 1 \in 1 .. Len(q)
        BY <1>1, <2>1
      <4> QED BY <3>1, <4>1, <2>1
    <3>2. CASE k # n + 1
      <4>1. PICK j \in 1 .. Len(p) : p[j] = k
        BY <2>3, <3>2 DEF Lists
      <4>2. j \in 1 .. Len(q)
        BY <1>1, <2>1
      <4> QED BY <4>1, <4>2, <2>1
    <3> QED BY <3>1, <3>2
  <2>4. ASSUME 1 .. n + 1 \subseteq K PROVE q = [i \in 1 .. n + 1 |-> i]
    <3>1. 1 .. n \subseteq K
      BY <2>4
    <3>2. p = [i \in 1 .. n |-> i]
      BY <3>1 DEF Lists
    <3> QED BY <3>2 DEF q
  <2>5. ASSUME ~(1 .. n + 1 \subseteq K) PROVE Len(q) < n + 1
    <3>1. ~(1 .. n \subseteq K)
      <4>1. \A k \in 1 .. n + 1 : k \in 1 .. n \/ k = n + 1
        OBVIOUS
      <4> QED BY <4>1, <2>5, <1>2
    <3>2. Len(p) < n
      BY <3>1 DEF Lists
    <3> QED BY <3>2, <2>1, <1>1
  <2>6. Len(q) <= n + 1
    BY <2>1, <1>1
  <2>7. ASSUME NEW i \in 1 .. Len(q), NEW j \in 1 .. Len(q), i < j PROVE q[i] < q[j]
    <3>1. i \in 1 .. Len(p) /\ q[i] = p[i] /\ p[i] \in 1 .. n
      BY <2>1, <2>7, <1>1, SMTT(40) DEF Lists
    <3>2. CASE j \in 1 .. Len(p)
      BY <3>1, <3>2, <2>1, <2>7 DEF Lists
    <3>3. CASE j \notin 1 .. Len(p)
      <4>1. j = Len(p) + 1
        BY <3>3, <2>1, <1>1
      <4> QED BY <4>1, <3>1, <2>1
    <3> QED BY <3>2, <3>3
  <2> QED BY <2>1, <2>2, <2>3, <2>4, <2>5, <2>6, <2>7, <1>2 DEF Lists, q
<1>3. CASE n + 1 \notin K
  <2>1. ASSUME NEW j \in 1 .. Len(p) PROVE p[j] \in K /\ p[j] \in 1 .. n + 1
    <3>1. p[j] \in K /\ p[j] \in 1 .. n
      BY DEF Lists
    <3> QED BY <3>1
  <2>2. ASSUME NEW k \in 1 .. n + 1, k \in K PROVE \E j \in 1 .. Len(p) : p[j] = k
    <3>1. k \in 1 .. n
      BY <2>2, <1>3
    <3> QED BY <3>1, <2>2 DEF Lists
  <2>3. ~(1 .. n + 1 \subseteq K)
    <3>1. n + 1 \in 1 .. n + 1
      OBVIOUS
    <3> QED BY <3>1, <1>3
  <2>4. Len(p) < n + 1 /\ Len(p) <= n + 1
    BY <1>1
  <2>5. \A i, j \in 1 .. Len(p) : i < j => p[i] < p[j]
    BY DEF Lists
  <2>6. Lists(p, n + 1, K)
    BY <1>1, <2>1, <2>2, <2>3, <2>4, <2>5 DEF Lists
  <2> QED BY <2>6, <1>3
<1> QED BY <1>2, <1>3

\* Positions computes that list.
LEMMA PositionsListed ==
    ASSUME NEW n \in Nat, NEW K
    PROVE  Lists(Positions(n, K), n, K)
<1> DEFINE Sel(f, m) == f = [k \in 0 .. m |-> IF k = 0 THEN <<>> ELSE f[k]]
                        /\ \A k \in 1 .. m : f[k] = IF k \in K THEN Append(f[k - 1], k) ELSE f[k - 1]
           E == {m \in Nat : \E f : Sel(f, m)}
<1>1. 0 \in E
  <2>1. PICK f : f = [k \in 0 .. 0 |-> <<>>]
    OBVIOUS
  <2>2. f = [k \in 0 .. 0 |-> IF k = 0 THEN <<>> ELSE f[k]]
    BY <2>1
  <2>3. Sel(f, 0)
    BY <2>2
  <2> QED BY <2>3
<1>2. ASSUME NEW m \in Nat, m \in E PROVE m + 1 \in E
  <2>1. PICK f : Sel(f, m)
    BY <1>2
  <2> DEFINE g == [k \in 0 .. m + 1 |-> IF k = 0 THEN <<>>
                     ELSE IF k = m + 1 THEN (IF m + 1 \in K THEN Append(f[m], m + 1) ELSE f[m])
                     ELSE f[k]]
  <2>2. g = [k \in 0 .. m + 1 |-> IF k = 0 THEN <<>> ELSE g[k]]
    OBVIOUS
  <2>3. f[0] = <<>>
    BY <2>1
  <2>4. \A k \in 0 .. m : g[k] = f[k]
    BY <2>3
  <2>5. g[m + 1] = IF m + 1 \in K THEN Append(f[m], m + 1) ELSE f[m]
    OBVIOUS
  <2> HIDE DEF g
  <2>6. ASSUME NEW k \in 1 .. m + 1
        PROVE  g[k] = IF k \in K THEN Append(g[k - 1], k) ELSE g[k - 1]
    <3>1. CASE k = m + 1
      <4>1. k - 1 = m /\ g[m] = f[m]
        BY <3>1, <2>4
      <4> QED BY <3>1, <4>1, <2>5
    <3>2. CASE k \in 1 .. m
      <4>1. k - 1 \in 0 .. m /\ k \in 0 .. m
        BY <3>2
      <4>2. g[k - 1] = f[k - 1] /\ g[k] = f[k]
        BY <4>1, <2>4
      <4>3. f[k] = IF k \in K THEN Append(f[k - 1], k) ELSE f[k - 1]
        BY <3>2, <2>1
      <4> QED BY <4>2, <4>3
    <3> QED BY <3>1, <3>2
  <2>7. Sel(g, m + 1)
    BY <2>2, <2>6
  <2> QED BY <2>7, SMTT(40)
<1>3. PICK f : Sel(f, n)
  <2> HIDE DEF E, Sel
  <2>1. n \in E
    BY <1>1, <1>2, NatSetInduction
  <2> QED BY <2>1 DEF E
<1> DEFINE h == CHOOSE h : h = PosStep(h, n, K)
<1>4. h = PosStep(h, n, K)
  <2>1. \A k \in 0 .. n : k # 0 => k \in 1 .. n
    OBVIOUS
  <2>2. f = PosStep(f, n, K)
    BY <1>3, <2>1, Zenon DEF PosStep
  <2> QED BY <2>2, Zenon
<1>5. Positions(n, K) = h[n]
  BY DEF Positions, PosStep
<1> HIDE DEF h, Sel, E
<1> DEFINE S == {k \in Nat : k <= n => Lists(h[k], k, K)}
<1>6. 0 \in S
  <2>1. h[0] = <<>>
    BY <1>4 DEF PosStep
  <2>2. Lists(<<>>, 0, K)
    BY DEF Lists
  <2> QED BY <2>1, <2>2
<1>7. ASSUME NEW k \in Nat, k \in S PROVE k + 1 \in S
  <2>1. SUFFICES ASSUME k + 1 <= n PROVE Lists(h[k + 1], k + 1, K)
    OBVIOUS
  <2>2. Lists(h[k], k, K)
    BY <1>7, <2>1
  <2>3. k + 1 \in 0 .. n /\ k + 1 # 0 /\ (k + 1) - 1 = k
    BY <2>1
  <2>4. PosStep(h, n, K)[k + 1] = IF k + 1 \in K THEN Append(h[k], k + 1) ELSE h[k]
    BY <2>3 DEF PosStep
  <2>5. h[k + 1] = IF k + 1 \in K THEN Append(h[k], k + 1) ELSE h[k]
    BY <2>4, <1>4, SMTT(40)
  <2> QED BY <2>2, <2>5, ListsNext
<1> HIDE DEF S
<1>8. n \in S
  BY <1>6, <1>7, NatSetInduction
<1> QED BY <1>5, <1>8 DEF S

\* What Kept returns: the elements at those positions, in order, and fewer than
\* the sequence has as soon as one is left out.
LEMMA KeptListed ==
    ASSUME NEW T, NEW s \in Seq(T), NEW K
    PROVE  /\ Len(s) \in Nat /\ DOMAIN s = 1 .. Len(s)
           /\ Lists(Positions(Len(s), K), Len(s), K)
           /\ Len(Positions(Len(s), K)) \in Nat
           /\ Len(Kept(s, K)) = Len(Positions(Len(s), K))
           /\ Kept(s, K) = [j \in 1 .. Len(Positions(Len(s), K)) |-> s[Positions(Len(s), K)[j]]]
           /\ \A j \in 1 .. Len(Positions(Len(s), K)) :
                 Positions(Len(s), K)[j] \in 1 .. Len(s) /\ Positions(Len(s), K)[j] \in K
           /\ Kept(s, K) \in Seq(T)
           /\ 1 .. Len(s) \subseteq K => Kept(s, K) = s
           /\ ~(1 .. Len(s) \subseteq K) => Len(Kept(s, K)) < Len(s)
<1>1. Len(s) \in Nat /\ DOMAIN s = 1 .. Len(s) /\ \A i \in 1 .. Len(s) : s[i] \in T
  OBVIOUS
<1>2. PICK p : p = Positions(Len(s), K)
  OBVIOUS
<1>3. Lists(p, Len(s), K)
  BY <1>1, <1>2, PositionsListed
<1>4. Len(p) \in Nat /\ DOMAIN p = 1 .. Len(p)
      /\ \A j \in 1 .. Len(p) : p[j] \in 1 .. Len(s) /\ p[j] \in K
  BY <1>3 DEF Lists
<1>5. Kept(s, K) = [j \in 1 .. Len(p) |-> s[p[j]]]
  BY <1>2, <1>4 DEF Kept
<1>6. Kept(s, K) \in Seq(T) /\ Len(Kept(s, K)) = Len(p)
  BY <1>1, <1>4, <1>5
<1>7. ASSUME 1 .. Len(s) \subseteq K PROVE Kept(s, K) = s
  <2>1. p = [i \in 1 .. Len(s) |-> i]
    BY <1>3, <1>7 DEF Lists
  <2>2. Len(p) = Len(s) /\ \A i \in 1 .. Len(s) : p[i] = i
    BY <2>1, <1>1
  <2>3. Kept(s, K) = [j \in 1 .. Len(s) |-> s[j]]
    BY <2>2, <1>5
  <2> QED BY <2>3, <1>1
<1>8. ASSUME ~(1 .. Len(s) \subseteq K) PROVE Len(p) < Len(s)
  BY <1>3, <1>8 DEF Lists
<1> QED BY <1>1, <1>2, <1>3, <1>4, <1>5, <1>6, <1>7, <1>8, ZenonT(60)

-----------------------------------------------------------------------------
\* Walking over [type, length, content] triples.

\* The parts ws are triples: the types and the contents they are made of.
TypedOk(ws, types, contents, name) ==
    /\ name \in FieldNames
    /\ Len(ws) \in Nat
    /\ \A k \in 1 .. Len(ws) :
          /\ types[k] \in Int
          /\ contents[k] \in Buffers
          /\ ws[k] = Typed(name, types[k], contents[k])

\* A triple is a buffer; where it stands, its type, its length and its content
\* are read.
LEMMA TypedBuffer ==
    ASSUME NEW name \in FieldNames, NEW type \in Int, NEW content \in Buffers
    PROVE  /\ Typed(name, type, content) \in Buffers
           /\ Size(Typed(name, type, content)) = 4 + Size(content)
           /\ Len(Typed(name, type, content)) >= 1
           /\ \A w \in Buffers : \A off \in Int : Has(w, off, Typed(name, type, content)) =>
                 /\ Read(w, off, 2) = type
                 /\ Read(w, off + 2, 2) = Size(content)
                 /\ Has(w, off + 4, content)
<1> DEFINE a == Num(name, 2, type)
           b == Num("length", 2, Size(content))
<1>1. a \in Buffers /\ Size(a) = 2 /\ Len(a) = 1
  BY NumBuffer
<1>2. b \in Buffers /\ Size(b) = 2 /\ Len(b) = 1
  <2>1. PICK n \in FieldNames : n = "length"
    BY DEF FieldNames
  <2>2. PICK v \in Int : v = Size(content)
    BY StartsOfBuffer
  <2>3. Num(n, 2, v) \in Buffers /\ Size(Num(n, 2, v)) = 2 /\ Len(Num(n, 2, v)) = 1
    BY NumBuffer, SMTT(40)
  <2> QED BY <2>1, <2>2, <2>3
<1>3. Typed(name, type, content) = (a \o b) \o content
  BY DEF Typed
<1>4. Size(content) \in Nat /\ Len(content) \in Nat
  BY StartsOfBuffer
<1>5. ASSUME NEW w \in Buffers, NEW off \in Int, Has(w, off, (a \o b) \o content)
      PROVE  /\ Read(w, off, 2) = type
             /\ Read(w, off + 2, 2) = Size(content)
             /\ Has(w, off + 4, content)
  <2> HIDE DEF a, b
  <2>1. a \o b \in Buffers /\ Size(a \o b) = 4
    BY <1>1, <1>2, SizeOfConcat
  <2>2. Has(w, off, a \o b) /\ Has(w, off + 4, content)
    BY <1>5, <2>1, HasConcat
  <2>3. Has(w, off, a) /\ Has(w, off + 2, b)
    BY <1>1, <1>2, <2>2, HasConcat
  <2> QED BY <2>2, <2>3, <1>1, <1>2, ReadOfPart DEF a, b
<1> HIDE DEF a, b
<1>6. /\ (a \o b) \o content \in Buffers /\ Size((a \o b) \o content) = 4 + Size(content)
      /\ Len((a \o b) \o content) = 2 + Len(content)
  <2>1. a \o b \in Buffers /\ Size(a \o b) = 4 /\ Len(a \o b) = 2
    <3>1. a \o b \in Buffers /\ Size(a \o b) = 4
      BY <1>1, <1>2, SizeOfConcat
    <3>2. Len(a \o b) = Len(a) + Len(b)
      BY <1>1, <1>2, ConcatOfBuffers
    <3> QED BY <3>1, <3>2, <1>1, <1>2
  <2>2. Len((a \o b) \o content) = 2 + Len(content)
    BY <2>1, ConcatOfBuffers
  <2> QED BY <2>1, <2>2, <1>4, SizeOfConcat
<1> QED BY <1>3, <1>4, <1>5, <1>6

\* The recursion of Triples, as a step on the function it defines.
WalkStep(g, w, cursor, end) ==
    [i \in 0 .. Len(w) |->
        IF i = 0 THEN <<>>
        ELSE LET found == g[i - 1]
                 here  == IF found = <<>> THEN cursor ELSE Last(found).to
             IN  IF here >= end THEN found ELSE Append(found, Triple(w, here))]

\* One step of the walk.
Walked(found, w, cursor, end) ==
    LET here == IF found = <<>> THEN cursor ELSE Last(found).to
    IN  IF here >= end THEN found ELSE Append(found, Triple(w, here))

\* The walk is the iteration of its step.
LEMMA WalkExists ==
    ASSUME NEW w \in Buffers, NEW cursor, NEW end
    PROVE  \E h : /\ h[0] = <<>>
                  /\ \A i \in 1 .. Len(w) : h[i] = Walked(h[i - 1], w, cursor, end)
                  /\ Triples(w, cursor, end) = h[Len(w)]
<1> DEFINE Sel(f, m) == f = [k \in 0 .. m |-> IF k = 0 THEN <<>> ELSE f[k]]
                        /\ \A k \in 1 .. m : f[k] = Walked(f[k - 1], w, cursor, end)
           E == {m \in Nat : \E f : Sel(f, m)}
           n == Len(w)
<1>0. n \in Nat
  BY StartsOfBuffer
<1>1. 0 \in E
  <2>1. PICK f : f = [k \in 0 .. 0 |-> <<>>]
    OBVIOUS
  <2>2. f = [k \in 0 .. 0 |-> IF k = 0 THEN <<>> ELSE f[k]]
    BY <2>1
  <2>3. Sel(f, 0)
    BY <2>2
  <2> QED BY <2>3
<1>2. ASSUME NEW m \in Nat, m \in E PROVE m + 1 \in E
  <2>1. PICK f : Sel(f, m)
    BY <1>2
  <2> DEFINE g == [k \in 0 .. m + 1 |-> IF k = 0 THEN <<>>
                     ELSE IF k = m + 1 THEN Walked(f[m], w, cursor, end)
                     ELSE f[k]]
  <2>2. g = [k \in 0 .. m + 1 |-> IF k = 0 THEN <<>> ELSE g[k]]
    OBVIOUS
  <2>3. f[0] = <<>>
    BY <2>1
  <2>4. \A k \in 0 .. m : g[k] = f[k]
    BY <2>3
  <2>5. g[m + 1] = Walked(f[m], w, cursor, end)
    OBVIOUS
  <2> HIDE DEF g
  <2>6. ASSUME NEW k \in 1 .. m + 1
        PROVE  g[k] = Walked(g[k - 1], w, cursor, end)
    <3>1. CASE k = m + 1
      <4>1. k - 1 = m /\ g[m] = f[m]
        BY <3>1, <2>4
      <4> QED BY <3>1, <4>1, <2>5
    <3>2. CASE k \in 1 .. m
      <4>1. k - 1 \in 0 .. m /\ k \in 0 .. m
        BY <3>2
      <4>2. g[k - 1] = f[k - 1] /\ g[k] = f[k]
        BY <4>1, <2>4
      <4>3. f[k] = Walked(f[k - 1], w, cursor, end)
        BY <3>2, <2>1
      <4> QED BY <4>2, <4>3
    <3> QED BY <3>1, <3>2
  <2>7. Sel(g, m + 1)
    BY <2>2, <2>6
  <2> HIDE DEF Sel
  <2> QED BY <2>7
<1>3. PICK f : Sel(f, n)
  <2> HIDE DEF E, Sel
  <2>1. n \in E
    BY <1>1, <1>2, <1>0, NatSetInduction
  <2> QED BY <2>1 DEF E
<1> DEFINE h == CHOOSE h : h = WalkStep(h, w, cursor, end)
<1>4. h = WalkStep(h, w, cursor, end)
  <2>1. \A k \in 0 .. n : k # 0 => k \in 1 .. n
    BY <1>0
  <2>2. f = WalkStep(f, w, cursor, end)
    BY <1>3, <2>1, Zenon DEF WalkStep, Walked
  <2> QED BY <2>2, Zenon
<1>5. Triples(w, cursor, end) = h[n]
  BY DEF Triples, WalkStep
<1> HIDE DEF h, Sel, E
<1>6. h[0] = <<>>
  BY <1>4, <1>0 DEF WalkStep
<1>7. ASSUME NEW i \in 1 .. n PROVE h[i] = Walked(h[i - 1], w, cursor, end)
  <2>1. i \in 0 .. n /\ i # 0
    BY <1>0
  <2>2. WalkStep(h, w, cursor, end)[i] = Walked(h[i - 1], w, cursor, end)
    BY <2>1 DEF WalkStep, Walked
  <2> QED BY <2>2, <1>4
<1> QED BY <1>5, <1>6, <1>7

\* The triple of part k of a concatenation that starts at cursor.
Entry(ws, types, cursor, k) ==
    [type |-> types[k], from |-> cursor + Offs(ws)[k] + 4, to |-> cursor + Offs(ws)[k + 1]]
EntriesOf(ws, types, cursor, n) == [k \in 1 .. n |-> Entry(ws, types, cursor, k)]

\* A part of a concatenation of triples is read as that triple.
LEMMA TypedParts ==
    ASSUME NEW ws, NEW types, NEW contents, NEW name, TypedOk(ws, types, contents, name),
           ws \in Seq(Buffers), NEW w \in Buffers, NEW cursor \in Int, Has(w, cursor, Flat(ws)),
           NEW k \in 1 .. Len(ws)
    PROVE  /\ Offs(ws)[k] \in Nat /\ Offs(ws)[k + 1] = Offs(ws)[k] + 4 + Size(contents[k])
           /\ Size(contents[k]) \in Nat
           /\ Has(w, cursor + Offs(ws)[k], ws[k])
           /\ Has(w, cursor + Offs(ws)[k] + 4, contents[k])
           /\ Triple(w, cursor + Offs(ws)[k]) = Entry(ws, types, cursor, k)
<1>1. types[k] \in Int /\ contents[k] \in Buffers /\ ws[k] = Typed(name, types[k], contents[k])
      /\ name \in FieldNames
  BY DEF TypedOk
<1>2. PICK t \in Int, c \in Buffers : t = types[k] /\ c = contents[k]
  BY <1>1
<1>3. PICK o \in Nat : o = Offs(ws)[k]
  <2>1. Offs(ws) \in [1 .. Len(ws) + 1 -> Nat] /\ k \in 1 .. Len(ws) + 1
    BY OffsOfParts
  <2> QED BY <2>1
<1>4. Offs(ws)[k + 1] = o + Size(ws[k])
  BY <1>3, OffsOfParts
<1>5. PICK at \in Int : at = cursor + o
  OBVIOUS
<1>6. Has(w, at, ws[k])
  <2>1. Flat(ws) \in Buffers /\ Has(Flat(ws), o, ws[k])
    BY <1>3, FlatHoldsParts DEF HoldsParts
  <2>2. ws[k] \in Buffers
    OBVIOUS
  <2> QED BY <2>1, <2>2, <1>5, HasPart
<1>7. Size(ws[k]) = 4 + Size(c) /\ Size(c) \in Nat
  BY <1>1, <1>2, TypedBuffer, StartsOfBuffer, SMTT(40)
<1>8. Has(w, at, Typed(name, t, c))
  BY <1>1, <1>2, <1>6
<1>9. Read(w, at, 2) = t /\ Read(w, at + 2, 2) = Size(c) /\ Has(w, at + 4, c)
  BY <1>1, <1>8, TypedBuffer
<1>10. Triple(w, at) = [type |-> t, from |-> at + 4, to |-> at + 4 + Size(c)]
  BY <1>9 DEF Triple
<1>11. at + 4 = cursor + o + 4 /\ at + 4 + Size(c) = cursor + Offs(ws)[k + 1]
  BY <1>4, <1>5, <1>7
<1>12. Triple(w, at) = Entry(ws, types, cursor, k)
  BY <1>2, <1>3, <1>10, <1>11 DEF Entry
<1>13. Offs(ws)[k + 1] = Offs(ws)[k] + 4 + Size(contents[k])
  <2>1. Offs(ws)[k + 1] = o + 4 + Size(c)
    BY <1>4, <1>7
  <2> QED BY <2>1, <1>2, <1>3
<1> QED BY <1>2, <1>3, <1>5, <1>6, <1>7, <1>9, <1>11, <1>12, <1>13

\* The walk finds every triple and stops behind the last one.
LEMMA TriplesOfTyped ==
    ASSUME NEW ws, NEW types, NEW contents, NEW name, TypedOk(ws, types, contents, name),
           ws \in Seq(Buffers), NEW w \in Buffers, NEW cursor \in Int, Has(w, cursor, Flat(ws))
    PROVE  Triples(w, cursor, cursor + Size(Flat(ws))) = EntriesOf(ws, types, cursor, Len(ws))
<1> DEFINE n == Len(ws)
           end == cursor + Size(Flat(ws))
           r(k) == Entry(ws, types, cursor, k)
           here(i) == cursor + Offs(ws)[i + 1]
           least(i) == IF i < n THEN i ELSE n
<1>1. /\ n \in Nat /\ Offs(ws) \in [1 .. n + 1 -> Nat] /\ Offs(ws)[1] = 0
      /\ \A k \in 1 .. n : ws[k] \in Buffers
  BY OffsOfParts
<1>2. Flat(ws) \in Buffers /\ Size(Flat(ws)) = Offs(ws)[n + 1]
  BY FlatHoldsParts DEF HoldsParts
<1>3. end = here(n) /\ \A i \in 0 .. n : here(i) \in Int
  BY <1>1, <1>2
<1>4. \A k \in 1 .. n : Triple(w, here(k - 1)) = r(k)
  <2> TAKE k \in 1 .. n
  <2>1. Triple(w, cursor + Offs(ws)[k]) = Entry(ws, types, cursor, k)
    BY TypedParts
  <2>2. (k - 1) + 1 = k
    OBVIOUS
  <2> QED BY <2>1, <2>2
<1>5. \A i \in 0 .. n : i < n => here(i) < end
  <2> SUFFICES ASSUME NEW i \in 0 .. n, i < n PROVE here(i) < end
    OBVIOUS
  <2>1. Offs(ws)[i + 1] + Size(ws[i + 1]) <= Offs(ws)[n + 1]
    <3>1. PICK j \in 1 .. n : j = i + 1
      BY <1>1
    <3>2. j \in 1 .. Len(ws) + 1 /\ n + 1 \in 1 .. Len(ws) + 1 /\ j < n + 1
      BY <1>1
    <3>3. Offs(ws)[j] + Size(ws[j]) <= Offs(ws)[n + 1]
      BY <3>2, OffsGrow
    <3> QED BY <3>1, <3>3
  <2>2. Size(ws[i + 1]) \in Nat /\ Size(ws[i + 1]) >= 4
    <3>1. PICK j \in 1 .. n : j = i + 1
      BY <1>1
    <3>2. ws[j] = Typed(name, types[j], contents[j]) /\ types[j] \in Int /\ contents[j] \in Buffers
          /\ name \in FieldNames
      BY DEF TypedOk
    <3>3. Size(Typed(name, types[j], contents[j])) = 4 + Size(contents[j])
      BY <3>2, TypedBuffer
    <3>4. Size(contents[j]) \in Nat
      BY <3>2, StartsOfBuffer
    <3> QED BY <3>1, <3>2, <3>3, <3>4
  <2>3. Offs(ws)[i + 1] \in Nat /\ Offs(ws)[n + 1] \in Nat
    BY <1>1
  <2> QED BY <2>1, <2>2, <2>3, <1>3, SMTT(40)
<1>6. \A k \in 1 .. n : r(k).to = here(k)
  BY DEF Entry
<1>7. n <= Len(w) /\ Len(w) \in Nat
  <2>1. \A k \in 1 .. n : Len(ws[k]) >= 1
    <3> TAKE k \in 1 .. n
    <3>1. ws[k] = Typed(name, types[k], contents[k]) /\ types[k] \in Int /\ contents[k] \in Buffers
          /\ name \in FieldNames
      BY DEF TypedOk
    <3> QED BY <3>1, TypedBuffer
  <2>2. Len(Flat(ws)) >= n
    BY <2>1, FlatHoldsParts DEF HoldsParts
  <2>3. Len(Flat(ws)) <= Len(w)
    <3>1. PICK k \in 1 .. Len(w) + 1 : Stands(w, k, cursor, Flat(ws))
      BY DEF Has
    <3>2. Len(Flat(ws)) \in Nat /\ Len(w) \in Nat
      BY <1>2, StartsOfBuffer
    <3> QED BY <3>1, <3>2 DEF Stands
  <2>4. Len(Flat(ws)) \in Nat /\ Len(w) \in Nat
    BY <1>2, StartsOfBuffer
  <2> QED BY <2>2, <2>3, <2>4, <1>1
<1>8. PICK h : /\ h[0] = <<>>
               /\ \A i \in 1 .. Len(w) : h[i] = Walked(h[i - 1], w, cursor, end)
               /\ Triples(w, cursor, end) = h[Len(w)]
  BY WalkExists, ZenonT(60)
<1> HIDE DEF n, end, r, here
<1> DEFINE pre(i) == [k \in 1 .. i |-> r(k)]
           S == {i \in Nat : i <= Len(w) => h[i] = pre(least(i))}
<1>10. 0 \in S
  <2>1. least(0) = 0
    BY <1>1
  <2>2. pre(0) = <<>>
    OBVIOUS
  <2> QED BY <2>1, <2>2, <1>8
<1>11. ASSUME NEW i \in Nat, i \in S PROVE i + 1 \in S
  <2>1. SUFFICES ASSUME i + 1 <= Len(w) PROVE h[i + 1] = pre(least(i + 1))
    OBVIOUS
  <2>2. h[i] = pre(least(i))
    BY <1>11, <2>1, <1>7
  <2>3. h[i + 1] = Walked(h[i], w, cursor, end)
    <3>1. i + 1 \in 1 .. Len(w) /\ (i + 1) - 1 = i
      BY <2>1, <1>7
    <3>2. h[i + 1] = Walked(h[(i + 1) - 1], w, cursor, end)
      BY <3>1, <1>8
    <3> QED BY <3>1, <3>2
  <2>4. ASSUME NEW m \in 0 .. n, NEW q, q = pre(m)
        PROVE  (IF q = <<>> THEN cursor ELSE Last(q).to) = here(m)
    <3>1. CASE m = 0
      <4>1. q = <<>>
        BY <3>1, <2>4
      <4>2. here(0) = cursor
        BY <1>1 DEF here
      <4> QED BY <4>1, <4>2, <3>1
    <3>2. CASE m # 0
      <4>1. m \in 1 .. n /\ m \in Nat /\ m \in 1 .. m
        BY <3>2, <1>1
      <4>2. DOMAIN q = 1 .. m /\ q[m] = r(m)
        BY <4>1, <2>4
      <4>3. Len(q) = m /\ q # <<>>
        <5>1. Len(q) = m
          BY <4>1, <2>4
        <5> QED BY <5>1, <4>1
      <4>4. Last(q) = r(m)
        BY <4>2, <4>3 DEF Last
      <4> QED BY <4>1, <4>3, <4>4, <1>6
    <3> QED BY <3>1, <3>2
  <2>5. CASE i < n
    <3>1. least(i) = i /\ least(i + 1) = i + 1 /\ i \in 0 .. n /\ i + 1 \in 1 .. n /\ (i + 1) - 1 = i
      BY <2>5, <1>1
    <3>2. ~(here(i) >= end)
      <4>1. here(i) < end /\ here(i) \in Int /\ end \in Int
        BY <3>1, <2>5, <1>3, <1>5, <1>1
      <4> QED BY <4>1
    <3>3. h[i] = pre(i)
      BY <2>2, <3>1
    <3>4. Walked(h[i], w, cursor, end) = Append(h[i], Triple(w, here(i)))
      <4>1. (IF h[i] = <<>> THEN cursor ELSE Last(h[i]).to) = here(i)
        BY <3>1, <3>3, <2>4
      <4> QED BY <4>1, <3>2 DEF Walked
    <3>5. Triple(w, here(i)) = r(i + 1)
      BY <3>1, <1>4
    <3>6. Append(pre(i), r(i + 1)) = pre(i + 1)
      OBVIOUS
    <3> QED BY <2>3, <3>1, <3>3, <3>4, <3>5, <3>6
  <2>6. CASE ~(i < n)
    <3>1. least(i) = n /\ least(i + 1) = n /\ n \in 0 .. n
      BY <2>6, <1>1
    <3>2. here(n) >= end
      BY <1>1, <1>3
    <3>3. h[i] = pre(n)
      BY <2>2, <3>1
    <3>4. (IF h[i] = <<>> THEN cursor ELSE Last(h[i]).to) = here(n)
      BY <3>1, <3>3, <2>4
    <3>5. Walked(h[i], w, cursor, end) = h[i]
      BY <3>2, <3>4 DEF Walked
    <3> QED BY <2>3, <3>1, <3>3, <3>5
  <2> QED BY <2>5, <2>6
<1>12. Len(w) \in S
  <2> HIDE DEF S
  <2> QED BY <1>7, <1>10, <1>11, NatSetInduction
<1>13. h[Len(w)] = pre(n)
  <2>1. least(Len(w)) = n
    BY <1>1, <1>7
  <2>2. Len(w) <= Len(w)
    BY <1>7
  <2>3. h[Len(w)] = pre(least(Len(w)))
    BY <1>12, <2>2
  <2> HIDE DEF pre, least
  <2> QED BY <2>1, <2>3
<1>14. pre(n) = EntriesOf(ws, types, cursor, Len(ws))
  BY DEF EntriesOf, r, n
<1> QED BY <1>8, <1>13, <1>14 DEF end

-----------------------------------------------------------------------------
\* Numbers, and what stands behind one another.

\* The buffer a is one number of size bytes.
IsNum(a, size, value) ==
    /\ a \in Buffers /\ Size(a) = size /\ Len(a) = 1
    /\ a[1].size = size /\ a[1].value = <<value>>

\* Num makes a number.
LEMMA NumIs ==
    ASSUME NEW name \in FieldNames, NEW size \in Nat \ {0}, NEW value \in Int
    PROVE  IsNum(Num(name, size, value), size, value)
<1>1. /\ Num(name, size, value) \in Buffers /\ Size(Num(name, size, value)) = size
      /\ Len(Num(name, size, value)) = 1
  BY NumBuffer
<1>2. Num(name, size, value)[1].size = size /\ Num(name, size, value)[1].value = <<value>>
  BY DEF Num
<1> QED BY <1>1, <1>2 DEF IsNum

\* A number that stands in a buffer is read at its offset.
LEMMA ReadOfNum ==
    ASSUME NEW w \in Buffers, NEW off, NEW a, NEW size, NEW value,
           IsNum(a, size, value), Has(w, off, a)
    PROVE  Read(w, off, size) = value
<1>1. a \in Buffers /\ Len(a) = 1 /\ a[1] \in Fields /\ a[1].value[1] = value
      /\ a[1].size = size
  BY SMTT(40) DEF IsNum, Buffers
<1>2. PICK k \in 1 .. Len(w) + 1 : Stands(w, k, off, a)
  BY DEF Has
<1>3. Len(w) \in Nat /\ DOMAIN w = 1 .. Len(w) /\ Starts(w) \in [1 .. Len(w) + 1 -> Nat]
  BY StartsOfBuffer
<1>4. k \in 1 .. Len(w) /\ w[k] = a[1] /\ Starts(w)[k] = off
  <2>1. k <= Len(w) /\ k - 1 + 1 = k /\ w[k - 1 + 1] = a[1]
    BY <1>1, <1>2, <1>3 DEF Stands
  <2> QED BY <2>1, <1>2 DEF Stands
<1>5. ASSUME NEW j \in DOMAIN w, Starts(w)[j] = off
      PROVE  j = k
  <2>1. CASE j < k
    <3>1. Starts(w)[j] < Starts(w)[k]
      BY <2>1, <1>3, <1>4, StartsGrow
    <3> QED BY <3>1, <1>3, <1>4, <1>5
  <2>2. CASE k < j
    <3>1. Starts(w)[k] < Starts(w)[j]
      BY <2>2, <1>3, <1>4, StartsGrow
    <3> QED BY <3>1, <1>3, <1>4, <1>5
  <2> QED BY <2>1, <2>2, <1>3, <1>4
<1>6. (CHOOSE j \in DOMAIN w : Starts(w)[j] = off /\ w[j].size = size) = k
  <2>1. k \in DOMAIN w /\ w[k].size = size
    BY <1>1, <1>3, <1>4
  <2> QED BY <2>1, <1>4, <1>5
<1>7. Read(w, off, size) = w[k].value[1]
  BY <1>6 DEF Read
<1> QED BY <1>1, <1>4, <1>7

\* The parts of a concatenation, by their offsets.
LEMMA ThreeParts ==
    ASSUME NEW a \in Buffers, NEW b \in Buffers, NEW c \in Buffers
    PROVE  /\ a \o b \in Buffers /\ a \o b \o c \in Buffers
           /\ Size(a) \in Nat /\ Size(b) \in Nat /\ Size(c) \in Nat
           /\ Size(a \o b) = Size(a) + Size(b)
           /\ Size(a \o b \o c) = Size(a) + Size(b) + Size(c)
<1>1. Size(a) \in Nat /\ Size(b) \in Nat /\ Size(c) \in Nat
  BY StartsOfBuffer
<1>2. PICK p \in Buffers : p = a \o b /\ Size(p) = Size(a) + Size(b)
  BY SizeOfConcat
<1>3. p \o c \in Buffers /\ Size(p \o c) = Size(p) + Size(c)
  BY SizeOfConcat
<1> QED BY <1>1, <1>2, <1>3

\* The same for the buffer they stand in.
LEMMA HasThree ==
    ASSUME NEW a \in Buffers, NEW b \in Buffers, NEW c \in Buffers,
           NEW w \in Buffers, NEW off \in Int, Has(w, off, a \o b \o c)
    PROVE  /\ Has(w, off, a) /\ Has(w, off + Size(a), b)
           /\ Has(w, off + Size(a) + Size(b), c)
<1>1. PICK p \in Buffers : p = a \o b /\ Size(p) = Size(a) + Size(b)
  BY SizeOfConcat
<1>2. Has(w, off, p) /\ Has(w, off + Size(p), c)
  <2>1. Has(w, off, p \o c)
    BY <1>1
  <2> QED BY <2>1, HasConcat
<1>3. Has(w, off, a) /\ Has(w, off + Size(a), b)
  BY <1>1, <1>2, HasConcat
<1>4. off + Size(p) = off + Size(a) + Size(b)
  BY <1>1, StartsOfBuffer, SMTT(40)
<1> QED BY <1>2, <1>3, <1>4

-----------------------------------------------------------------------------
\* Records.

\* What a parser reads of a handshake record that starts the buffer.
RecordFields(w, handshakeType, body) ==
    /\ Read(w, 0, 1) = TLS_HANDSHAKE
    /\ Read(w, 3, 2) = 4 + Size(body)
    /\ Read(w, 5, 1) = handshakeType
    /\ Read(w, 6, 3) = Size(body)
    /\ Has(w, 9, body)

\* The five fields in front of a body of size bytes.
RecordHead(t, size) ==
    Num("content type", 1, TLS_HANDSHAKE) \o Num("version", 2, 0)
    \o Num("record length", 2, 4 + size)
    \o Num("handshake type", 1, t) \o Num("handshake length", 3, size)

\* The head of a record by its five numbers.
IsRecordHead(t, size, a, b, c, d, e) ==
    /\ IsNum(a, 1, TLS_HANDSHAKE) /\ IsNum(b, 2, 0) /\ IsNum(c, 2, 4 + size)
    /\ IsNum(d, 1, t) /\ IsNum(e, 3, size)
    /\ RecordHead(t, size) = a \o b \o c \o d \o e

\* The head of a record is five numbers.
LEMMA RecordHeadParts ==
    ASSUME NEW t \in Int, NEW size \in Nat
    PROVE  \E a, b, c, d, e \in Buffers : IsRecordHead(t, size, a, b, c, d, e)
<1>1. size \in Int /\ 4 + size \in Int /\ TLS_HANDSHAKE \in Int /\ 0 \in Int
      /\ 1 \in Nat \ {0} /\ 2 \in Nat \ {0} /\ 3 \in Nat \ {0}
  BY DEF TLS_HANDSHAKE
<1>2. /\ "content type" \in FieldNames /\ "version" \in FieldNames
      /\ "record length" \in FieldNames /\ "handshake type" \in FieldNames
      /\ "handshake length" \in FieldNames
  BY DEF FieldNames
<1>3. IsNum(Num("content type", 1, TLS_HANDSHAKE), 1, TLS_HANDSHAKE)
  BY <1>1, <1>2, NumIs, Zenon
<1>4. IsNum(Num("version", 2, 0), 2, 0)
  BY <1>1, <1>2, NumIs, Zenon
<1>5. IsNum(Num("record length", 2, 4 + size), 2, 4 + size)
  BY <1>1, <1>2, NumIs, Zenon
<1>6. IsNum(Num("handshake type", 1, t), 1, t)
  BY <1>1, <1>2, NumIs, Zenon
<1>7. IsNum(Num("handshake length", 3, size), 3, size)
  BY <1>1, <1>2, NumIs, Zenon
<1>8. IsRecordHead(t, size, Num("content type", 1, TLS_HANDSHAKE), Num("version", 2, 0),
          Num("record length", 2, 4 + size), Num("handshake type", 1, t),
          Num("handshake length", 3, size))
  BY <1>3, <1>4, <1>5, <1>6, <1>7, Zenon DEF IsRecordHead, RecordHead
<1> QED BY <1>3, <1>4, <1>5, <1>6, <1>7, <1>8, Zenon DEF IsNum

\* The numbers in the head of a record, at the offsets the code reads them.
HeadNumbers(w, t, size) ==
    /\ Read(w, 0, 1) = TLS_HANDSHAKE /\ Read(w, 3, 2) = 4 + size
    /\ Read(w, 5, 1) = t /\ Read(w, 6, 3) = size

\* Its size, and what is read of it at the start of a buffer.
LEMMA RecordHeadRead ==
    ASSUME NEW t \in Int, NEW size \in Nat
    PROVE  /\ RecordHead(t, size) \in Buffers
           /\ Size(RecordHead(t, size)) = 9
           /\ \A w \in Buffers : Has(w, 0, RecordHead(t, size)) => HeadNumbers(w, t, size)
<1>1. PICK a, b, c, d, e \in Buffers : IsRecordHead(t, size, a, b, c, d, e)
  BY RecordHeadParts
<1>2. Size(a) = 1 /\ Size(b) = 2 /\ Size(c) = 2 /\ Size(d) = 1 /\ Size(e) = 3
  BY <1>1 DEF IsRecordHead, IsNum
<1>3. PICK abc \in Buffers : abc = a \o b \o c /\ Size(abc) = 5
  <2>1. a \o b \o c \in Buffers /\ Size(a \o b \o c) = Size(a) + Size(b) + Size(c)
    BY ThreeParts
  <2>2. Size(a) + Size(b) + Size(c) = 5
    BY <1>2
  <2> QED BY <2>1, <2>2, Zenon
<1>4. PICK h \in Buffers : h = abc \o d \o e /\ Size(h) = 9
  <2>1. abc \o d \o e \in Buffers /\ Size(abc \o d \o e) = Size(abc) + Size(d) + Size(e)
    BY ThreeParts
  <2>2. Size(abc) + Size(d) + Size(e) = 9
    BY <1>2, <1>3
  <2> QED BY <2>1, <2>2, Zenon
<1>5. RecordHead(t, size) = h
  BY <1>1, <1>3, <1>4, Zenon DEF IsRecordHead
<1>6. ASSUME NEW w \in Buffers, Has(w, 0, h)
      PROVE  HeadNumbers(w, t, size)
  <2>2. Has(w, 0, abc) /\ Has(w, 0 + Size(abc), d) /\ Has(w, 0 + Size(abc) + Size(d), e)
    BY <1>4, <1>6, HasThree
  <2>3. Has(w, 0, a) /\ Has(w, 0 + Size(a) + Size(b), c)
    BY <2>2, <1>3, HasThree
  <2>4. Has(w, 0, a) /\ Has(w, 3, c) /\ Has(w, 5, d) /\ Has(w, 6, e)
    BY <2>2, <2>3, <1>2, <1>3
  <2>5. Read(w, 0, 1) = TLS_HANDSHAKE /\ Read(w, 3, 2) = 4 + size
    BY <2>4, <1>1, ReadOfNum DEF IsRecordHead
  <2>6. Read(w, 5, 1) = t /\ Read(w, 6, 3) = size
    BY <2>4, <1>1, ReadOfNum DEF IsRecordHead
  <2> QED BY <2>5, <2>6 DEF HeadNumbers
<1> QED BY <1>4, <1>5, <1>6

\* A record is its head and its body, and is read as such.
LEMMA RecordRead ==
    ASSUME NEW t \in Int, NEW body \in Buffers
    PROVE  /\ Record(t, body) = RecordHead(t, Size(body)) \o body
           /\ Record(t, body) \in Buffers
           /\ Size(Record(t, body)) = 9 + Size(body)
           /\ \A w \in Buffers : Has(w, 0, Record(t, body)) => RecordFields(w, t, body)
<1>1. PICK size \in Nat : size = Size(body)
  BY StartsOfBuffer
<1>2. PICK h \in Buffers : h = RecordHead(t, size) /\ Size(h) = 9
  BY RecordHeadRead
<1>3. Record(t, body) = h \o body
  BY <1>1, <1>2, Zenon DEF Record, RecordHead
<1>4. h \o body \in Buffers /\ Size(h \o body) = 9 + Size(body)
  BY <1>2, SizeOfConcat
<1>5. ASSUME NEW w \in Buffers, Has(w, 0, h \o body)
      PROVE  RecordFields(w, t, body)
  <2>1. Has(w, 0, h) /\ Has(w, 0 + Size(h), body)
    BY <1>5, HasConcat
  <2>2. Has(w, 9, body)
    BY <2>1, <1>2
  <2>3. HeadNumbers(w, t, size)
    BY <2>1, <1>2, RecordHeadRead
  <2> QED BY <2>2, <2>3, <1>1 DEF RecordFields, HeadNumbers
<1> QED BY <1>1, <1>2, <1>3, <1>4, <1>5

-----------------------------------------------------------------------------
\* Vectors, groups and key shares.

\* The names of the fields, for the steps that cite a literal.
LEMMA Names ==
    /\ "session id length" \in FieldNames /\ "session id" \in FieldNames
    /\ "version and random" \in FieldNames /\ "suites length" \in FieldNames
    /\ "suites" \in FieldNames /\ "methods length" \in FieldNames /\ "methods" \in FieldNames
    /\ "extensions length" \in FieldNames /\ "extension type" \in FieldNames
    /\ "length" \in FieldNames /\ "groups length" \in FieldNames /\ "group" \in FieldNames
    /\ "shares length" \in FieldNames /\ "share group" \in FieldNames
    /\ "value" \in FieldNames /\ "ecdh" \in FieldNames /\ "pq" \in FieldNames
    /\ "other extension" \in FieldNames /\ "random" \in FieldNames
    /\ "version" \in FieldNames
    /\ "suite and method" \in FieldNames /\ "packet length" \in FieldNames
    /\ "padding length" \in FieldNames /\ "padding" \in FieldNames /\ "message" \in FieldNames
    /\ "cookie" \in FieldNames /\ "algorithms length" \in FieldNames
    /\ "algorithms" \in FieldNames /\ "other lists" \in FieldNames
    /\ "blob length" \in FieldNames /\ "behind" \in FieldNames
  BY DEF FieldNames

\* A vector is its length and its content, and is read as such.
LEMMA VectorRead ==
    ASSUME NEW name \in FieldNames, NEW content \in Buffers
    PROVE  /\ Vector(name, content) \in Buffers
           /\ Size(Vector(name, content)) = 2 + Size(content)
           /\ Size(content) \in Nat
           /\ \A w \in Buffers : \A off \in Int : Has(w, off, Vector(name, content)) =>
                 Read(w, off, 2) = Size(content) /\ Has(w, off + 2, content)
<1>1. Size(content) \in Nat /\ Size(content) \in Int /\ 2 \in Nat \ {0}
  BY StartsOfBuffer
<1>2. PICK a \in Buffers : a = Num(name, 2, Size(content)) /\ IsNum(a, 2, Size(content))
  <2>1. IsNum(Num(name, 2, Size(content)), 2, Size(content))
    BY <1>1, NumIs, Zenon
  <2> QED BY <2>1 DEF IsNum
<1>3. Size(a) = 2
  BY <1>2 DEF IsNum
<1>4. Vector(name, content) = a \o content
  BY <1>2 DEF Vector
<1>5. a \o content \in Buffers /\ Size(a \o content) = 2 + Size(content)
  BY <1>3, SizeOfConcat
<1>6. ASSUME NEW w \in Buffers, NEW off \in Int, Has(w, off, a \o content)
      PROVE  Read(w, off, 2) = Size(content) /\ Has(w, off + 2, content)
  <2>1. Has(w, off, a) /\ Has(w, off + Size(a), content)
    BY <1>6, HasConcat
  <2> QED BY <2>1, <1>2, <1>3, ReadOfNum
<1> QED BY <1>1, <1>4, <1>5, <1>6

\* The groups of a supported_groups extension.
GroupFields(gs) == [k \in DOMAIN gs |-> Group(gs[k])]

\* A list of groups is a buffer of two bytes for each.
LEMMA GroupsBuffer ==
    ASSUME NEW gs \in Seq(Nat)
    PROVE  /\ GroupFields(gs) \in Buffers
           /\ Len(GroupFields(gs)) = Len(gs)
           /\ Size(GroupFields(gs)) = 2 * Len(gs)
           /\ \A k \in 1 .. Len(gs) : GroupFields(gs)[k] = Group(gs[k])
           /\ \A k \in 1 .. Len(gs) : GroupFields(gs)[k].value[1] = gs[k]
<1> DEFINE w == GroupFields(gs)
           n == Len(gs)
           f == [k \in 1 .. n + 1 |-> 2 * (k - 1)]
<1>1. n \in Nat /\ DOMAIN gs = 1 .. n /\ \A k \in 1 .. n : gs[k] \in Nat
  OBVIOUS
<1>2. ASSUME NEW g \in Nat
      PROVE  Group(g) \in Fields /\ Group(g).size = 2 /\ Group(g).value[1] = g
  <2>1. PICK nm \in FieldNames : nm = "group"
    BY Names
  <2>2. Group(g) = [name |-> nm, size |-> 2, value |-> <<g>>]
    BY <2>1 DEF Group
  <2>3. <<g>> \in Seq(Int)
    OBVIOUS
  <2> QED BY <2>2, <2>3 DEF Fields
<1>3. w = [k \in 1 .. n |-> Group(gs[k])]
  BY <1>1 DEF GroupFields
<1>4. \A k \in 1 .. n : w[k] = Group(gs[k]) /\ w[k] \in Fields /\ w[k].size = 2
         /\ w[k].value[1] = gs[k]
  BY <1>1, <1>2, <1>3
<1>5. w \in Buffers /\ Len(w) = n
  BY <1>1, <1>2, <1>3 DEF Buffers
<1>6. Sized(w, n)
  BY <1>1, <1>4, <1>5 DEF Sized
<1>7. Offsets(f, w, n)
  <2> HIDE DEF w
  <2>1. f \in [1 .. n + 1 -> Nat] /\ f[1] = 0
    BY <1>1
  <2>2. \A k \in 1 .. n : f[k + 1] = f[k] + w[k].size
    BY <1>1, <1>4
  <2> QED BY <2>1, <2>2 DEF Offsets
<1>8. Starts(w) = f
  <2> HIDE DEF w, f
  <2> QED BY <1>6, <1>7, OffsetsUnique
<1>9. Size(w) = 2 * n
  BY <1>1, <1>5, <1>8 DEF Size
<1> QED BY <1>4, <1>5, <1>9

\* The two hybrids and where their post-quantum part is.
LEMMA PqComponents ==
    /\ DOMAIN PQ_COMPONENTS = {X25519MLKEM768, X25519Kyber768Draft00}
    /\ \A g \in DOMAIN PQ_COMPONENTS :
          /\ PQ_COMPONENTS[g].length \in Nat \ {0}
          /\ PQ_COMPONENTS[g].offset \in Nat
          /\ g \in Nat
  BY DEF PQ_COMPONENTS, X25519MLKEM768, X25519Kyber768Draft00

\* The value of a hybrid share is the post-quantum key among classical bytes.
PqParts(s, key, a, b, c) ==
    LET pq == PQ_COMPONENTS[s.group]
    IN  /\ a \in Buffers /\ b \in Buffers /\ c \in Buffers
        /\ IsNum(b, pq.length, key)
        /\ Size(a) = pq.offset
        /\ pq.offset + pq.length + Size(c) = s.size
        /\ a = Opaque("ecdh", pq.offset)
        /\ b = Num("pq", pq.length, key)
        /\ c = Opaque("ecdh", s.size - pq.offset - pq.length)

\* The value of a share long enough for it has those three parts.
LEMMA HybridValue ==
    ASSUME NEW s \in KeyShares, Hybrid(s), NEW key \in Int
    PROVE  \E a, b, c \in Buffers : PqParts(s, key, a, b, c)
<1>1. s.group \in DOMAIN PQ_COMPONENTS /\ s.size \in Nat
      /\ s.size >= PQ_COMPONENTS[s.group].offset + PQ_COMPONENTS[s.group].length
  BY DEF Hybrid, KeyShares
<1>2. PICK o \in Nat : o = PQ_COMPONENTS[s.group].offset
  BY <1>1, PqComponents
<1>3. PICK l \in Nat \ {0} : l = PQ_COMPONENTS[s.group].length
  BY <1>1, PqComponents
<1>4. PICK r \in Nat : r = s.size - o - l /\ o + l + r = s.size
  BY <1>1, <1>2, <1>3
<1>6. Opaque("ecdh", o) \in Buffers /\ Size(Opaque("ecdh", o)) = o
  BY Names, OpaqueBuffer, Zenon
<1>7. Opaque("ecdh", r) \in Buffers /\ Size(Opaque("ecdh", r)) = r
  BY Names, OpaqueBuffer, Zenon
<1>8. IsNum(Num("pq", l, key), l, key)
  BY Names, NumIs, Zenon
<1>9. Num("pq", l, key) \in Buffers
  BY <1>8 DEF IsNum
<1>10. PqParts(s, key, Opaque("ecdh", o), Num("pq", l, key), Opaque("ecdh", r))
  BY <1>2, <1>3, <1>4, <1>6, <1>7, <1>8, <1>9, Zenon DEF PqParts
<1> QED BY <1>6, <1>7, <1>9, <1>10, Zenon

\* The value of a key share has the size the share says.
LEMMA ShareValueBuffer ==
    ASSUME NEW s \in KeyShares
    PROVE  ShareValue(s) \in Buffers /\ Size(ShareValue(s)) = s.size
<1>1. s.size \in Nat /\ s.key \in Int
  BY DEF KeyShares
<1>2. CASE ~Hybrid(s)
  <2>1. PICK z \in Nat : z = s.size
    BY <1>1
  <2>2. ShareValue(s) = Opaque("value", z)
    BY <1>2, <2>1, Zenon DEF ShareValue
  <2>3. Opaque("value", z) \in Buffers /\ Size(Opaque("value", z)) = z
    BY Names, OpaqueBuffer, Zenon
  <2> QED BY <2>1, <2>2, <2>3, Zenon
<1>3. CASE Hybrid(s)
  <2>1. PICK a, b, c \in Buffers : PqParts(s, s.key, a, b, c)
    BY <1>1, <1>3, HybridValue
  <2>2. ShareValue(s) = a \o b \o c
    BY <1>3, <2>1, Zenon DEF ShareValue, PqParts
  <2>3. a \o b \o c \in Buffers /\ Size(a \o b \o c) = Size(a) + Size(b) + Size(c)
    BY ThreeParts, SMTT(40)
  <2>4. Size(a) + Size(b) + Size(c) = s.size
    BY <2>1 DEF PqParts, IsNum
  <2> QED BY <2>2, <2>3, <2>4, Zenon
<1> QED BY <1>2, <1>3

\* The entries of a key share.
ShareEntries(ss) == [k \in DOMAIN ss |-> ShareEntry(ss[k])]
ShareGroups(ss) == [k \in DOMAIN ss |-> ss[k].group]
ShareValues(ss) == [k \in DOMAIN ss |-> ShareValue(ss[k])]

\* The entries of a key share are triples.
LEMMA SharesTyped ==
    ASSUME NEW ss \in Seq(KeyShares)
    PROVE  /\ ShareEntries(ss) \in Seq(Buffers)
           /\ Len(ShareEntries(ss)) = Len(ss)
           /\ TypedOk(ShareEntries(ss), ShareGroups(ss), ShareValues(ss), "share group")
           /\ \A k \in 1 .. Len(ss) :
                 /\ ShareGroups(ss)[k] = ss[k].group /\ ss[k].group \in Nat
                 /\ ShareValues(ss)[k] = ShareValue(ss[k])
                 /\ ShareEntries(ss)[k] = ShareEntry(ss[k])
<1>1. Len(ss) \in Nat /\ DOMAIN ss = 1 .. Len(ss) /\ \A k \in 1 .. Len(ss) : ss[k] \in KeyShares
  OBVIOUS
<1>2. \A s \in KeyShares : s.group \in Nat
  BY DEF KeyShares
<1>3. \A s \in KeyShares : ShareValue(s) \in Buffers
  BY ShareValueBuffer
<1>4. ASSUME NEW s \in KeyShares
      PROVE  /\ ShareEntry(s) \in Buffers
             /\ ShareEntry(s) = Typed("share group", s.group, ShareValue(s))
  <2>1. s.group \in Int /\ ShareValue(s) \in Buffers
    BY <1>2, <1>3
  <2>2. Typed("share group", s.group, ShareValue(s)) \in Buffers
    BY <2>1, Names, TypedBuffer, Zenon
  <2> QED BY <2>2, Zenon DEF ShareEntry
<1>5. /\ ShareEntries(ss) = [k \in 1 .. Len(ss) |-> ShareEntry(ss[k])]
      /\ ShareGroups(ss) = [k \in 1 .. Len(ss) |-> ss[k].group]
      /\ ShareValues(ss) = [k \in 1 .. Len(ss) |-> ShareValue(ss[k])]
  BY <1>1, Zenon DEF ShareEntries, ShareGroups, ShareValues
<1>6. \A k \in 1 .. Len(ss) : ShareEntry(ss[k]) \in Buffers
  BY <1>1, <1>4
<1>7. ShareEntries(ss) \in Seq(Buffers) /\ Len(ShareEntries(ss)) = Len(ss)
  BY <1>1, <1>5, <1>6
<1>8. \A k \in 1 .. Len(ss) :
                 /\ ShareGroups(ss)[k] = ss[k].group /\ ss[k].group \in Nat
                 /\ ShareValues(ss)[k] = ShareValue(ss[k])
                 /\ ShareEntries(ss)[k] = ShareEntry(ss[k])
  BY <1>1, <1>2, <1>5
<1>9. ASSUME NEW k \in 1 .. Len(ss)
      PROVE  /\ ShareGroups(ss)[k] \in Int
             /\ ShareValues(ss)[k] \in Buffers
             /\ ShareEntries(ss)[k] = Typed("share group", ShareGroups(ss)[k], ShareValues(ss)[k])
  <2>1. ss[k].group \in Int /\ ShareValue(ss[k]) \in Buffers
        /\ ShareEntry(ss[k]) = Typed("share group", ss[k].group, ShareValue(ss[k]))
    <3>1. ss[k] \in KeyShares
      BY <1>1
    <3>2. ss[k].group \in Int
      BY <3>1, <1>2
    <3> QED BY <3>1, <3>2, <1>3, <1>4, Zenon
  <2> QED BY <2>1, <1>8, Zenon
<1>10. TypedOk(ShareEntries(ss), ShareGroups(ss), ShareValues(ss), "share group")
  BY <1>1, <1>7, <1>9, Names, Zenon DEF TypedOk
<1> QED BY <1>7, <1>8, <1>10

\* A concatenation of buffers is a buffer, as long as its parts together.
LEMMA FlatBuffer ==
    ASSUME NEW ws \in Seq(Buffers)
    PROVE  Flat(ws) \in Buffers /\ Size(Flat(ws)) = Offs(ws)[Len(ws) + 1]
  BY FlatHoldsParts DEF HoldsParts

\* What the proofs use of a hello.
LEMMA HelloFields ==
    ASSUME NEW hello \in Hellos
    PROVE  /\ hello.groups \in Seq(Nat) /\ hello.shares \in Seq(KeyShares)
           /\ hello.order \in Seq({0, TLS_SUPPORTED_GROUPS, TLS_KEY_SHARE})
           /\ hello.sid \in Nat
           /\ Len(hello.order) \in Nat /\ DOMAIN hello.order = 1 .. Len(hello.order)
           /\ \A k \in 1 .. Len(hello.order) : hello.order[k] \in Int
  BY DEF Hellos, TLS_SUPPORTED_GROUPS, TLS_KEY_SHARE

\* The payload of an extension is a buffer.
LEMMA PayloadBuffer ==
    ASSUME NEW hello \in Hellos, NEW type
    PROVE  ExtensionPayload(hello, type) \in Buffers
<1>1. GroupFields(hello.groups) \in Buffers
  BY HelloFields, GroupsBuffer
<1>2. Flat(ShareEntries(hello.shares)) \in Buffers
  BY HelloFields, SharesTyped, FlatBuffer
<1>3. Vector("groups length", GroupFields(hello.groups)) \in Buffers
  BY <1>1, Names, VectorRead, Zenon
<1>4. Vector("shares length", Flat(ShareEntries(hello.shares))) \in Buffers
  BY <1>2, Names, VectorRead, Zenon
<1>5. Opaque("other extension", 7) \in Buffers
  <2>1. 7 \in Nat
    OBVIOUS
  <2> QED BY <2>1, Names, OpaqueBuffer, Zenon
<1> QED BY <1>3, <1>4, <1>5, Zenon DEF ExtensionPayload, GroupFields, ShareEntries

\* The extensions of a hello.
HelloExts(hello) ==
    [k \in DOMAIN hello.order |->
        Extension(hello.order[k], ExtensionPayload(hello, hello.order[k]))]
Payloads(hello) == [k \in DOMAIN hello.order |-> ExtensionPayload(hello, hello.order[k])]

\* The extensions of a hello are triples.
LEMMA ExtsTyped ==
    ASSUME NEW hello \in Hellos
    PROVE  /\ HelloExts(hello) \in Seq(Buffers)
           /\ Len(HelloExts(hello)) = Len(hello.order)
           /\ TypedOk(HelloExts(hello), hello.order, Payloads(hello), "extension type")
           /\ Flat(HelloExts(hello)) \in Buffers
           /\ Size(Flat(HelloExts(hello))) \in Nat
           /\ \A k \in 1 .. Len(hello.order) :
                 /\ Payloads(hello)[k] = ExtensionPayload(hello, hello.order[k])
                 /\ HelloExts(hello)[k]
                      = Extension(hello.order[k], ExtensionPayload(hello, hello.order[k]))
<1> DEFINE o == hello.order
           n == Len(hello.order)
<1>1. n \in Nat /\ DOMAIN o = 1 .. n /\ \A k \in 1 .. n : o[k] \in Int
  BY HelloFields
<1>2. \A k \in 1 .. n : ExtensionPayload(hello, o[k]) \in Buffers
  BY PayloadBuffer
<1> HIDE DEF o, n
<1>3. ASSUME NEW k \in 1 .. n
      PROVE  /\ Extension(o[k], ExtensionPayload(hello, o[k])) \in Buffers
             /\ Extension(o[k], ExtensionPayload(hello, o[k]))
                  = Typed("extension type", o[k], ExtensionPayload(hello, o[k]))
  <2>1. Typed("extension type", o[k], ExtensionPayload(hello, o[k])) \in Buffers
    BY <1>1, <1>2, Names, TypedBuffer, Zenon
  <2> QED BY <2>1, Zenon DEF Extension
<1>4. /\ HelloExts(hello) = [k \in 1 .. n |-> Extension(o[k], ExtensionPayload(hello, o[k]))]
      /\ Payloads(hello) = [k \in 1 .. n |-> ExtensionPayload(hello, o[k])]
  BY <1>1, Zenon DEF HelloExts, Payloads, o
<1>5. HelloExts(hello) \in Seq(Buffers) /\ Len(HelloExts(hello)) = n
  <2>1. \A k \in 1 .. n : Extension(o[k], ExtensionPayload(hello, o[k])) \in Buffers
    BY <1>3
  <2> QED BY <1>1, <1>4, <2>1
<1>6. \A k \in 1 .. n :
         /\ Payloads(hello)[k] = ExtensionPayload(hello, o[k])
         /\ HelloExts(hello)[k] = Extension(o[k], ExtensionPayload(hello, o[k]))
  BY <1>4
<1>7. ASSUME NEW k \in 1 .. n
      PROVE  /\ Payloads(hello)[k] \in Buffers
             /\ HelloExts(hello)[k] = Typed("extension type", o[k], Payloads(hello)[k])
  BY <1>2, <1>3, <1>6, Zenon
<1>8. TypedOk(HelloExts(hello), o, Payloads(hello), "extension type")
  BY <1>1, <1>5, <1>7, Names, Zenon DEF TypedOk
<1>9. Flat(HelloExts(hello)) \in Buffers
  BY <1>5, FlatBuffer
<1>10. Size(Flat(HelloExts(hello))) \in Nat
  BY <1>9, StartsOfBuffer
<1> QED BY <1>5, <1>6, <1>8, <1>9, <1>10 DEF o, n

-----------------------------------------------------------------------------
\* The ClientHello and the parser that finds its extensions.

\* What precedes the extensions in the body of a ClientHello.
HelloHead(sid) ==
    Num("version and random", 34, 0)
    \o Num("session id length", 1, sid) \o Opaque("session id", sid)
    \o Num("suites length", 2, 6) \o Opaque("suites", 6)
    \o Num("methods length", 1, 1) \o Opaque("methods", 1)

\* The same by its seven fields.
IsHead(sid, a, b, c, d, e, f, g) ==
    /\ Size(a) = 34 /\ IsNum(b, 1, sid) /\ Size(c) = sid /\ IsNum(d, 2, 6)
    /\ Size(e) = 6 /\ IsNum(f, 1, 1) /\ Size(g) = 1
    /\ HelloHead(sid) = a \o b \o c \o d \o e \o f \o g

\* What precedes the extensions is seven fields.
LEMMA HeadParts ==
    ASSUME NEW sid \in Nat
    PROVE  \E a, b, c, d, e, f, g \in Buffers : IsHead(sid, a, b, c, d, e, f, g)
<1>1. /\ 0 \in Int /\ 1 \in Int /\ 6 \in Int /\ sid \in Int /\ 34 \in Nat \ {0}
      /\ 1 \in Nat \ {0} /\ 2 \in Nat \ {0} /\ 6 \in Nat /\ 1 \in Nat
  OBVIOUS
<1>2. PICK l \in Nat \ {0} : l = 34
  BY <1>1
<1>3. PICK a \in Buffers : a = Num("version and random", l, 0) /\ Size(a) = l
  <2>1. IsNum(Num("version and random", l, 0), l, 0)
    BY <1>1, Names, NumIs, Zenon
  <2> QED BY <2>1 DEF IsNum
<1>4. PICK b \in Buffers : b = Num("session id length", 1, sid) /\ IsNum(b, 1, sid)
  <2>1. IsNum(Num("session id length", 1, sid), 1, sid)
    BY <1>1, Names, NumIs, Zenon
  <2> QED BY <2>1 DEF IsNum
<1>5. PICK c \in Buffers : c = Opaque("session id", sid) /\ Size(c) = sid
  BY <1>1, Names, OpaqueBuffer, Zenon
<1>6. PICK d \in Buffers : d = Num("suites length", 2, 6) /\ IsNum(d, 2, 6)
  <2>1. IsNum(Num("suites length", 2, 6), 2, 6)
    BY <1>1, Names, NumIs, Zenon
  <2> QED BY <2>1 DEF IsNum
<1>7. PICK e \in Buffers : e = Opaque("suites", 6) /\ Size(e) = 6
  BY <1>1, Names, OpaqueBuffer, Zenon
<1>8. PICK f \in Buffers : f = Num("methods length", 1, 1) /\ IsNum(f, 1, 1)
  <2>1. IsNum(Num("methods length", 1, 1), 1, 1)
    BY <1>1, Names, NumIs, Zenon
  <2> QED BY <2>1 DEF IsNum
<1>9. PICK g \in Buffers : g = Opaque("methods", 1) /\ Size(g) = 1
  BY <1>1, Names, OpaqueBuffer, Zenon
<1>10. HelloHead(sid) = a \o b \o c \o d \o e \o f \o g
  BY <1>2, <1>3, <1>4, <1>5, <1>6, <1>7, <1>8, <1>9 DEF HelloHead
<1>11. IsHead(sid, a, b, c, d, e, f, g)
  BY <1>2, <1>3, <1>4, <1>5, <1>6, <1>7, <1>8, <1>9, <1>10 DEF IsHead
<1> QED BY <1>11, Zenon

\* The lengths the cursor of _client_hello_extensions moves by.
HeadFields(w, off, sid) ==
    /\ Read(w, off + 34, 1) = sid
    /\ Read(w, off + 35 + sid, 2) = 6
    /\ Read(w, off + 43 + sid, 1) = 1

\* Its size, and the three lengths the cursor reads in it.
LEMMA HeadRead ==
    ASSUME NEW sid \in Nat
    PROVE  /\ HelloHead(sid) \in Buffers
           /\ Size(HelloHead(sid)) = 45 + sid
           /\ \A w \in Buffers : \A off \in Int :
                 Has(w, off, HelloHead(sid)) => HeadFields(w, off, sid)
<1>1. PICK a, b, c, d, e, f, g \in Buffers : IsHead(sid, a, b, c, d, e, f, g)
  BY HeadParts
<1>2. /\ Size(a) = 34 /\ Size(b) = 1 /\ Size(c) = sid /\ Size(d) = 2 /\ Size(e) = 6
      /\ Size(f) = 1 /\ Size(g) = 1
  BY <1>1 DEF IsHead, IsNum
<1>3. PICK p \in Buffers : p = a \o b \o c /\ Size(p) = 35 + sid
  <2>1. a \o b \o c \in Buffers /\ Size(a \o b \o c) = Size(a) + Size(b) + Size(c)
    BY ThreeParts
  <2>2. Size(a) + Size(b) + Size(c) = 35 + sid
    BY <1>2
  <2> QED BY <2>1, <2>2, Zenon
<1>4. PICK q \in Buffers : q = p \o d \o e /\ Size(q) = 43 + sid
  <2>1. p \o d \o e \in Buffers /\ Size(p \o d \o e) = Size(p) + Size(d) + Size(e)
    BY ThreeParts
  <2>2. Size(p) + Size(d) + Size(e) = 43 + sid
    BY <1>2, <1>3
  <2> QED BY <2>1, <2>2, Zenon
<1>5. q \o f \o g \in Buffers /\ Size(q \o f \o g) = 45 + sid
  <2>1. q \o f \o g \in Buffers /\ Size(q \o f \o g) = Size(q) + Size(f) + Size(g)
    BY ThreeParts
  <2>2. Size(q) + Size(f) + Size(g) = 45 + sid
    BY <1>2, <1>4
  <2> QED BY <2>1, <2>2, Zenon
<1>6. HelloHead(sid) = q \o f \o g
  BY <1>1, <1>3, <1>4, Zenon DEF IsHead
<1>7. ASSUME NEW w \in Buffers, NEW off \in Int, Has(w, off, q \o f \o g)
      PROVE  HeadFields(w, off, sid)
  <2>1. Has(w, off, q) /\ Has(w, off + Size(q), f)
    BY <1>7, HasThree
  <2>2. Has(w, off, p) /\ Has(w, off + Size(p), d)
    BY <2>1, <1>4, HasThree
  <2>3. Has(w, off + Size(a), b)
    BY <2>2, <1>3, HasThree
  <2>4. off + Size(a) = off + 34 /\ off + Size(p) = off + 35 + sid
        /\ off + Size(q) = off + 43 + sid
    BY <1>2, <1>3, <1>4
  <2>5. Has(w, off + 34, b) /\ Has(w, off + 35 + sid, d) /\ Has(w, off + 43 + sid, f)
    BY <2>1, <2>2, <2>3, <2>4, Zenon
  <2>6. Read(w, off + 34, 1) = sid
    BY <2>5, <1>1, ReadOfNum DEF IsHead
  <2>7. Read(w, off + 35 + sid, 2) = 6
    BY <2>5, <1>1, ReadOfNum DEF IsHead
  <2>8. Read(w, off + 43 + sid, 1) = 1
    BY <2>5, <1>1, ReadOfNum DEF IsHead
  <2> QED BY <2>6, <2>7, <2>8 DEF HeadFields
<1> QED BY <1>5, <1>6, <1>7

-----------------------------------------------------------------------------
\* ClientHellos.

\* The body of a ClientHello.
HelloBody(hello) ==
    HelloHead(hello.sid) \o Vector("extensions length", Flat(HelloExts(hello)))

\* Where the extensions of a hello start and end.
ExtsStart(hello) == 56 + hello.sid
ExtsEnd(hello) == 56 + hello.sid + Size(Flat(HelloExts(hello)))

\* A ClientHello is a record around its body; the sizes of its parts.
LEMMA HelloBuffer ==
    ASSUME NEW hello \in Hellos
    PROVE  /\ EncodeClientHello(hello) = Record(TLS_CLIENT_HELLO, HelloBody(hello))
           /\ HelloBody(hello) \in Buffers
           /\ Size(HelloBody(hello)) = 47 + hello.sid + Size(Flat(HelloExts(hello)))
           /\ Vector("extensions length", Flat(HelloExts(hello))) \in Buffers
           /\ HelloHead(hello.sid) \in Buffers
           /\ Size(HelloHead(hello.sid)) = 45 + hello.sid
           /\ EncodeClientHello(hello) \in Buffers
           /\ Size(EncodeClientHello(hello)) = ExtsEnd(hello)
           /\ ExtsStart(hello) \in Nat /\ ExtsEnd(hello) \in Nat
<1>1. PICK sid \in Nat : sid = hello.sid
  BY HelloFields
<1>2. PICK exts \in Buffers : exts = Flat(HelloExts(hello)) /\ Size(exts) \in Nat
  BY ExtsTyped
<1>3. PICK h \in Buffers : h = HelloHead(sid) /\ Size(h) = 45 + sid
  BY HeadRead
<1>4. PICK v \in Buffers : v = Vector("extensions length", exts) /\ Size(v) = 2 + Size(exts)
  BY Names, VectorRead, ZenonT(60)
<1>5. h \o v \in Buffers /\ Size(h \o v) = Size(h) + Size(v)
  BY SizeOfConcat
<1>6. HelloBody(hello) = h \o v
  BY <1>1, <1>2, <1>3, <1>4, Zenon DEF HelloBody
<1>7. Size(HelloBody(hello)) = 47 + sid + Size(exts)
  <2>1. \A x, y, z \in Nat : y = 45 + sid /\ z = 2 + x => y + z = 47 + sid + x
    OBVIOUS
  <2>2. Size(h) = 45 + sid /\ Size(v) = 2 + Size(exts) /\ Size(exts) \in Nat
        /\ Size(h) \in Nat /\ Size(v) \in Nat
    BY <1>2, <1>3, <1>4, StartsOfBuffer
  <2>3. Size(h) + Size(v) = 47 + sid + Size(exts)
    BY <2>1, <2>2
  <2> QED BY <2>3, <1>5, <1>6
<1>8. EncodeClientHello(hello) = Record(TLS_CLIENT_HELLO, HelloBody(hello))
  BY Zenon DEF EncodeClientHello, HelloBody, HelloHead, HelloExts
<1>9. HelloBody(hello) \in Buffers /\ TLS_CLIENT_HELLO \in Int
  BY <1>5, <1>6 DEF TLS_CLIENT_HELLO
<1>10. /\ Record(TLS_CLIENT_HELLO, HelloBody(hello)) \in Buffers
       /\ Size(Record(TLS_CLIENT_HELLO, HelloBody(hello))) = 9 + Size(HelloBody(hello))
  BY <1>9, RecordRead
<1>11. 9 + Size(HelloBody(hello)) = 56 + sid + Size(exts)
  BY <1>7, <1>2
<1>12. ExtsEnd(hello) = 56 + sid + Size(exts) /\ ExtsEnd(hello) \in Nat
       /\ ExtsStart(hello) \in Nat
  BY <1>1, <1>2 DEF ExtsEnd, ExtsStart
<1> QED BY <1>1, <1>2, <1>3, <1>4, <1>7, <1>8, <1>9, <1>10, <1>11, <1>12, Zenon

\* The parser finds the extensions of a hello that starts the buffer.
LEMMA HelloBounds ==
    ASSUME NEW hello \in Hellos, NEW w \in Buffers, Has(w, 0, EncodeClientHello(hello))
    PROVE  /\ Has(w, 9, HelloHead(hello.sid))
           /\ Has(w, ExtsStart(hello), Flat(HelloExts(hello)))
           /\ EndOf(w, 3, 2) = ExtsEnd(hello)
           /\ ExtsEnd(hello) <= Size(w)
           /\ ClientHelloExtensions(w) = Returned(<<ExtsStart(hello), ExtsEnd(hello)>>)
<1>1. PICK sid \in Nat : sid = hello.sid
  BY HelloFields
<1>2. PICK exts \in Buffers : exts = Flat(HelloExts(hello))
  BY ExtsTyped
<1>3. PICK z \in Nat : z = Size(exts)
  BY StartsOfBuffer
<1>4. PICK h \in Buffers : h = HelloHead(sid) /\ Size(h) = 45 + sid
  BY HeadRead
<1>5. PICK v \in Buffers : v = Vector("extensions length", exts)
  BY Names, VectorRead, Zenon
<1>6. PICK body \in Buffers : body = h \o v /\ body = HelloBody(hello)
  BY <1>1, <1>2, <1>4, <1>5, HelloBuffer, Zenon DEF HelloBody
<1>7. Size(body) = 47 + sid + z
  BY <1>1, <1>2, <1>3, <1>6, HelloBuffer
<1>8. TLS_CLIENT_HELLO \in Int /\ TLS_CLIENT_HELLO = 1 /\ TLS_HANDSHAKE = 22
  BY DEF TLS_CLIENT_HELLO, TLS_HANDSHAKE
<1>9. PICK m \in Buffers : m = Record(TLS_CLIENT_HELLO, body) /\ m = EncodeClientHello(hello)
  BY <1>6, HelloBuffer
<1>10. RecordFields(w, TLS_CLIENT_HELLO, body)
  <2>1. Has(w, 0, Record(TLS_CLIENT_HELLO, body))
    BY <1>9
  <2> QED BY <2>1, <1>8, RecordRead
<1>11. /\ Read(w, 0, 1) = TLS_HANDSHAKE /\ Read(w, 3, 2) = 4 + Size(body)
       /\ Read(w, 5, 1) = TLS_CLIENT_HELLO /\ Read(w, 6, 3) = Size(body)
       /\ Has(w, 9, body)
  BY <1>10 DEF RecordFields
<1>12. Has(w, 9, h) /\ Has(w, 54 + sid, v)
  <2>3. Has(w, 9, h \o v) /\ 9 \in Int
    BY <1>11, <1>6
  <2>1. Has(w, 9, h) /\ Has(w, 9 + Size(h), v)
    BY <2>3, HasConcat
  <2>2. 9 + Size(h) = 54 + sid
    BY <1>4
  <2> QED BY <2>1, <2>2
<1>13. HeadFields(w, 9, sid)
  BY <1>12, <1>4, HeadRead
<1>14. Read(w, 43, 1) = sid /\ Read(w, 44 + sid, 2) = 6 /\ Read(w, 52 + sid, 1) = 1
  <2>1. 9 + 34 = 43 /\ 9 + 35 + sid = 44 + sid /\ 9 + 43 + sid = 52 + sid
    OBVIOUS
  <2> QED BY <1>13, <2>1 DEF HeadFields
<1>15. Read(w, 54 + sid, 2) = z /\ Has(w, 56 + sid, exts)
  <2>1. PICK at \in Int : at = 54 + sid
    OBVIOUS
  <2>2. Has(w, at, v)
    BY <2>1, <1>12
  <2>3. Read(w, at, 2) = Size(exts) /\ Has(w, at + 2, exts)
    BY <2>2, <1>5, Names, VectorRead, Zenon
  <2>4. at + 2 = 56 + sid
    BY <2>1
  <2> QED BY <2>1, <2>3, <2>4, <1>3
<1>16. Size(w) \in Nat /\ 56 + sid + z <= Size(w)
  <2>1. 0 + Size(m) <= Size(w) /\ Size(w) \in Nat
    BY <1>9, SliceOfPart, StartsOfBuffer
  <2>2. Size(m) = 56 + sid + z
    BY <1>1, <1>2, <1>3, <1>9, HelloBuffer DEF ExtsEnd
  <2> QED BY <2>1, <2>2
<1>17. EndOf(w, 3, 2) = 56 + sid + z
  BY <1>11, <1>7 DEF EndOf
<1>18. EndOf(w, 6, 3) = 56 + sid + z
  BY <1>11, <1>7 DEF EndOf
<1>19. PICK end \in Nat : end = 56 + sid + z
  OBVIOUS
<1>20. ClientHelloExtensions(w) = AtSessionId(w, 43, end)
  BY <1>8, <1>11, <1>16, <1>17, <1>18, <1>19 DEF ClientHelloExtensions
<1>21. AtSessionId(w, 43, end) = AtSuites(w, 44 + sid, end)
  <2>1. EndOf(w, 43, 1) = 44 + sid
    BY <1>14 DEF EndOf
  <2>2. 43 < end
    BY <1>19
  <2> QED BY <2>1, <2>2 DEF AtSessionId
<1>22. AtSuites(w, 44 + sid, end) = AtMethods(w, 52 + sid, end)
  <2>1. EndOf(w, 44 + sid, 2) = 52 + sid
    BY <1>14 DEF EndOf
  <2>2. (44 + sid) + 2 <= Size(w)
    BY <1>16
  <2> QED BY <2>1, <2>2 DEF AtSuites
<1>23. AtMethods(w, 52 + sid, end) = AtExtensions(w, 54 + sid, end)
  <2>1. EndOf(w, 52 + sid, 1) = 54 + sid
    BY <1>14 DEF EndOf
  <2>2. 52 + sid < end
    BY <1>19
  <2> QED BY <2>1, <2>2 DEF AtMethods
<1>24. AtExtensions(w, 54 + sid, end) = Returned(<<56 + sid, end>>)
  <2>1. EndOf(w, 54 + sid, 2) = end
    BY <1>15, <1>19 DEF EndOf
  <2>2. (54 + sid) + 2 <= Size(w) /\ end <= end /\ (54 + sid) + 2 = 56 + sid
    BY <1>16, <1>19
  <2> QED BY <2>1, <2>2 DEF AtExtensions
<1>25. ClientHelloExtensions(w) = Returned(<<56 + sid, end>>)
  BY <1>20, <1>21, <1>22, <1>23, <1>24, Zenon
<1>26. ExtsStart(hello) = 56 + sid /\ ExtsEnd(hello) = end
  BY <1>1, <1>2, <1>3, <1>19 DEF ExtsStart, ExtsEnd
<1>27. EndOf(w, 3, 2) = end /\ end <= Size(w)
  BY <1>16, <1>17, <1>19
<1> QED BY <1>1, <1>2, <1>4, <1>12, <1>15, <1>25, <1>26, <1>27, Zenon

\* The triples of whole parts end where the parts do.
LEMMA EntriesWithin ==
    ASSUME NEW ws \in Seq(Buffers), NEW types, NEW start \in Nat
    PROVE  ~Truncated(EntriesOf(ws, types, start, Len(ws)), start + Size(Flat(ws)))
<1> DEFINE n == Len(ws)
           ts == EntriesOf(ws, types, start, n)
<1>1. n \in Nat /\ Offs(ws)[n + 1] \in Nat /\ Size(Flat(ws)) = Offs(ws)[n + 1]
  BY OffsOfParts, FlatBuffer
<1>2. Len(ts) = n
  BY <1>1 DEF EntriesOf
<1>3. ASSUME ts # <<>> PROVE Last(ts).to = start + Size(Flat(ws))
  <2>1. n \in 1 .. n
    <3>1. n # 0
      BY <1>3, <1>1 DEF EntriesOf
    <3> QED BY <3>1, <1>1
  <2>2. Last(ts) = Entry(ws, types, start, n)
    BY <2>1, <1>2 DEF Last, EntriesOf
  <2>3. Entry(ws, types, start, n).to = start + Offs(ws)[n + 1]
    BY DEF Entry
  <2> QED BY <2>2, <2>3, <1>1
<1>4. start + Size(Flat(ws)) \in Nat
  BY <1>1
<1> QED BY <1>3, <1>4 DEF Truncated

\* The triples a walk over the extensions of a hello finds.
HelloEntries(hello) ==
    EntriesOf(HelloExts(hello), hello.order, ExtsStart(hello), Len(hello.order))

\* _extensions finds every extension of a hello that starts the buffer.
LEMMA HelloExtensions ==
    ASSUME NEW hello \in Hellos, NEW w \in Buffers, Has(w, 0, EncodeClientHello(hello))
    PROVE  Extensions(w) = Returned(HelloEntries(hello))
<1>1. PICK start \in Nat : start = ExtsStart(hello)
  BY HelloBuffer
<1>2. PICK ws \in Seq(Buffers) : ws = HelloExts(hello)
  BY ExtsTyped
<1>3. PICK end \in Int : end = ExtsEnd(hello) /\ end = start + Size(Flat(ws))
  <2>1. ExtsEnd(hello) \in Nat
    BY HelloBuffer
  <2>2. ExtsEnd(hello) = start + Size(Flat(ws))
    BY <1>1, <1>2, Zenon DEF ExtsStart, ExtsEnd
  <2> QED BY <2>1, <2>2
<1>4. TypedOk(ws, hello.order, Payloads(hello), "extension type") /\ Len(ws) = Len(hello.order)
  BY <1>2, ExtsTyped
<1>5. Has(w, start, Flat(ws)) /\ ClientHelloExtensions(w) = Returned(<<start, end>>)
  BY <1>1, <1>2, <1>3, HelloBounds
<1>6. Triples(w, start, end) = HelloEntries(hello)
  <2>2. start \in Int
    OBVIOUS
  <2>1. Triples(w, start, start + Size(Flat(ws))) = EntriesOf(ws, hello.order, start, Len(ws))
    BY <2>2, <1>4, <1>5, TriplesOfTyped, Zenon
  <2> QED BY <2>1, <1>1, <1>2, <1>3, <1>4, Zenon DEF HelloEntries
<1>7. ~Truncated(HelloEntries(hello), end)
  <2>1. ~Truncated(EntriesOf(ws, hello.order, start, Len(ws)), start + Size(Flat(ws)))
    BY EntriesWithin
  <2> QED BY <2>1, <1>1, <1>2, <1>3, <1>4, Zenon DEF HelloEntries
<1>8. Returned(<<start, end>>).ok /\ Returned(<<start, end>>).value = <<start, end>>
  BY DEF Returned
<1> DEFINE pair == <<start, end>>
<1>9. pair = <<start, end>> /\ pair[1] = start /\ pair[2] = end
  OBVIOUS
<1> HIDE DEF pair
<1>10. ClientHelloExtensions(w).ok /\ ClientHelloExtensions(w).value = pair
  BY <1>5, <1>8, <1>9
<1> QED BY <1>10, <1>9, <1>6, <1>7, Zenon DEF Extensions, Then

\* Each of them is found where its payload is.
LEMMA HelloEntry ==
    ASSUME NEW hello \in Hellos, NEW w \in Buffers, Has(w, 0, EncodeClientHello(hello)),
           NEW k \in 1 .. Len(hello.order)
    PROVE  /\ HelloEntries(hello)[k].type = hello.order[k]
           /\ HelloEntries(hello)[k].from \in Nat
           /\ HelloEntries(hello)[k].to
                = HelloEntries(hello)[k].from + Size(ExtensionPayload(hello, hello.order[k]))
           /\ Has(w, HelloEntries(hello)[k].from, ExtensionPayload(hello, hello.order[k]))
           /\ Slice(w, HelloEntries(hello)[k].from, HelloEntries(hello)[k].to)
                = ExtensionPayload(hello, hello.order[k])
<1>1. PICK start \in Nat : start = ExtsStart(hello)
  BY HelloBuffer
<1>2. PICK ws \in Seq(Buffers) : ws = HelloExts(hello)
  BY ExtsTyped
<1>3. TypedOk(ws, hello.order, Payloads(hello), "extension type") /\ Len(ws) = Len(hello.order)
  BY <1>2, ExtsTyped
<1>4. Has(w, start, Flat(ws))
  BY <1>1, <1>2, HelloBounds
<1>5. PICK p \in Buffers : p = Payloads(hello)[k] /\ p = ExtensionPayload(hello, hello.order[k])
  BY ExtsTyped, PayloadBuffer
<1>6. /\ Offs(ws)[k] \in Nat /\ Offs(ws)[k + 1] = Offs(ws)[k] + 4 + Size(Payloads(hello)[k])
      /\ Has(w, start + Offs(ws)[k] + 4, Payloads(hello)[k])
  <2>1. k \in 1 .. Len(ws)
    BY <1>3, Zenon
  <2>2. start \in Int
    OBVIOUS
  <2>3. PICK nm : nm = "extension type"
    OBVIOUS
  <2>4. PICK o, ps : o = hello.order /\ ps = Payloads(hello)
    OBVIOUS
  <2>5. TypedOk(ws, o, ps, nm)
    BY <2>3, <2>4, <1>3
  <2>6. /\ Offs(ws)[k] \in Nat /\ Offs(ws)[k + 1] = Offs(ws)[k] + 4 + Size(ps[k])
        /\ Has(w, start + Offs(ws)[k] + 4, ps[k])
    BY <2>1, <2>2, <2>5, <1>4, TypedParts
  <2> QED BY <2>4, <2>6
<1>7. HelloEntries(hello)[k] = Entry(ws, hello.order, start, k)
  BY <1>1, <1>2, <1>3 DEF HelloEntries, EntriesOf
<1>8. /\ HelloEntries(hello)[k].type = hello.order[k]
      /\ HelloEntries(hello)[k].from = start + Offs(ws)[k] + 4
      /\ HelloEntries(hello)[k].to = start + Offs(ws)[k + 1]
  BY <1>7 DEF Entry
<1>9. PICK from \in Nat : from = start + Offs(ws)[k] + 4
  BY <1>6
<1>10. Size(p) \in Nat
  BY StartsOfBuffer
<1>11. start + Offs(ws)[k + 1] = from + Size(p)
  <2>1. PICK o \in Nat : o = Offs(ws)[k]
    BY <1>6
  <2>2. Offs(ws)[k + 1] = o + 4 + Size(p) /\ from = start + o + 4
    BY <2>1, <1>5, <1>6, <1>9
  <2> QED BY <2>2, <1>10
<1>12. Has(w, from, p)
  BY <1>5, <1>6, <1>9
<1>13. Slice(w, from, from + Size(p)) = p
  BY <1>12, SliceOfPart
<1> QED BY <1>5, <1>8, <1>9, <1>11, <1>12, <1>13

-----------------------------------------------------------------------------
\* strip_hybrid: what is kept of the lists.

\* The positions a selection keeps, and what two sequences of one length keep.
LEMMA KeptAt ==
    ASSUME NEW n \in Nat, NEW K
    PROVE  /\ Len(Positions(n, K)) \in Nat
           /\ DOMAIN Positions(n, K) = 1 .. Len(Positions(n, K))
           /\ \A j \in 1 .. Len(Positions(n, K)) :
                 Positions(n, K)[j] \in 1 .. n /\ Positions(n, K)[j] \in K
           /\ \A s : Len(s) = n => Kept(s, K) =
                 [j \in 1 .. Len(Positions(n, K)) |-> s[Positions(n, K)[j]]]
<1>1. Lists(Positions(n, K), n, K)
  BY PositionsListed
<1>2. Positions(n, K) \in Seq(Nat)
  BY <1>1 DEF Lists
<1>3. /\ Len(Positions(n, K)) \in Nat
      /\ DOMAIN Positions(n, K) = 1 .. Len(Positions(n, K))
  BY <1>2
<1>4. \A j \in 1 .. Len(Positions(n, K)) :
                 Positions(n, K)[j] \in 1 .. n /\ Positions(n, K)[j] \in K
  BY <1>1 DEF Lists
<1>5. ASSUME NEW s, Len(s) = n
      PROVE  Kept(s, K) = [j \in 1 .. Len(Positions(n, K)) |-> s[Positions(n, K)[j]]]
  BY <1>3, <1>5, Zenon DEF Kept
<1> QED BY <1>3, <1>4, <1>5

\* Keeping the fields of some groups is keeping the groups.
LEMMA OtherGroupsOf ==
    ASSUME NEW gs \in Seq(Nat), NEW group
    PROVE  OtherGroups(GroupFields(gs), group)
           = GroupFields(Kept(gs, {k \in DOMAIN gs : gs[k] # group}))
<1> DEFINE fs == GroupFields(gs)
           n == Len(gs)
           K == {k \in DOMAIN gs : gs[k] # group}
           p == Positions(n, K)
<1>1. /\ fs \in Buffers /\ Len(fs) = n /\ DOMAIN fs = 1 .. n
      /\ n \in Nat /\ DOMAIN gs = 1 .. n
      /\ \A k \in 1 .. n : fs[k] = Group(gs[k]) /\ fs[k].value[1] = gs[k]
  <2>1. /\ fs \in Buffers /\ Len(fs) = n
        /\ \A k \in 1 .. n : fs[k] = Group(gs[k]) /\ fs[k].value[1] = gs[k]
    BY GroupsBuffer
  <2>2. DOMAIN fs = 1 .. Len(fs)
    BY <2>1, StartsOfBuffer
  <2>3. n \in Nat /\ DOMAIN gs = 1 .. n
    OBVIOUS
  <2> HIDE DEF fs
  <2> QED BY <2>1, <2>2, <2>3
<1>2. OtherGroups(fs, group) = Kept(fs, {k \in DOMAIN fs : fs[k].value[1] # group})
  BY DEF OtherGroups
<1> HIDE DEF fs, n
<1>3. {k \in DOMAIN fs : fs[k].value[1] # group} = K
  BY <1>1
<1> HIDE DEF K
<1>4. /\ Len(p) \in Nat /\ \A j \in 1 .. Len(p) : p[j] \in 1 .. n
      /\ Kept(fs, K) = [j \in 1 .. Len(p) |-> fs[p[j]]]
      /\ Kept(gs, K) = [j \in 1 .. Len(p) |-> gs[p[j]]]
  BY <1>1, KeptAt DEF n
<1> HIDE DEF p
<1>5. GroupFields(Kept(gs, K)) = [j \in 1 .. Len(p) |-> Group(gs[p[j]])]
  BY <1>4 DEF GroupFields
<1>6. \A j \in 1 .. Len(p) : fs[p[j]] = Group(gs[p[j]])
  BY <1>1, <1>4
<1>7. [j \in 1 .. Len(p) |-> fs[p[j]]] = [j \in 1 .. Len(p) |-> Group(gs[p[j]])]
  BY <1>6, Zenon
<1> QED BY <1>2, <1>3, <1>4, <1>5, <1>7 DEF K, fs

\* The same for the entries of the key shares, cut out of the buffer.
LEMMA OtherSharesOf ==
    ASSUME NEW ss \in Seq(KeyShares), NEW group, NEW w \in Buffers, NEW cursor \in Nat,
           Has(w, cursor, Flat(ShareEntries(ss))), NEW entries,
           entries = EntriesOf(ShareEntries(ss), ShareGroups(ss), cursor, Len(ss)),
           NEW kept, kept = OtherShares(entries, group)
    PROVE  [k \in DOMAIN kept |-> Slice(w, kept[k].from - 4, kept[k].to)]
           = ShareEntries(Kept(ss, {k \in DOMAIN ss : ss[k].group # group}))
<1> DEFINE n == Len(ss)
           K == {k \in DOMAIN ss : ss[k].group # group}
           p == Positions(n, K)
<1>1. PICK ws \in Seq(Buffers) : ws = ShareEntries(ss)
  BY SharesTyped
<1>2. /\ n \in Nat /\ DOMAIN ss = 1 .. n /\ Len(ws) = n /\ Len(ss) = n
      /\ \A k \in 1 .. n : ShareGroups(ss)[k] = ss[k].group /\ ws[k] = ShareEntry(ss[k])
                           /\ ws[k] \in Buffers
  <2>1. /\ Len(ws) = n
        /\ \A k \in 1 .. n : ShareGroups(ss)[k] = ss[k].group /\ ws[k] = ShareEntry(ss[k])
    BY <1>1, SharesTyped
  <2>2. n \in Nat /\ DOMAIN ss = 1 .. n
    OBVIOUS
  <2> QED BY <2>1, <2>2
<1>3. entries = [k \in 1 .. n |-> Entry(ws, ShareGroups(ss), cursor, k)]
  BY <1>1, Zenon DEF EntriesOf
<1> HIDE DEF n
<1>4. Len(entries) = n /\ DOMAIN entries = 1 .. n
  BY <1>2, <1>3
<1>5. \A k \in 1 .. n : /\ entries[k].type = ss[k].group
                        /\ entries[k].from = cursor + Offs(ws)[k] + 4
                        /\ entries[k].to = cursor + Offs(ws)[k + 1]
  BY <1>2, <1>3, SMTT(40) DEF Entry
<1>6. {k \in DOMAIN entries : entries[k].type # group} = K
  BY <1>2, <1>4, <1>5
<1>7. ASSUME NEW k \in 1 .. n
      PROVE  Slice(w, entries[k].from - 4, entries[k].to) = ShareEntry(ss[k])
  <2>1. PICK o \in Nat : o = Offs(ws)[k]
    <3>1. k \in 1 .. n + 1
      BY <1>2
    <3>2. Offs(ws) \in [1 .. n + 1 -> Nat]
      BY <1>2, OffsOfParts
    <3> QED BY <3>1, <3>2
  <2>2. PICK at \in Nat : at = cursor + o
    OBVIOUS
  <2>3. Has(w, at, ws[k])
    <3>1. Flat(ws) \in Buffers /\ Has(Flat(ws), o, ws[k]) /\ ws[k] \in Buffers
      BY <2>1, <1>2, FlatHoldsParts DEF HoldsParts
    <3> QED BY <3>1, <2>2, <1>1, HasPart
  <2>4. Offs(ws)[k + 1] = o + Size(ws[k]) /\ Size(ws[k]) \in Nat
    BY <2>1, <1>2, OffsOfParts, StartsOfBuffer
  <2>5. Slice(w, at, at + Size(ws[k])) = ws[k]
    BY <2>3, <1>2, SliceOfPart
  <2>6. entries[k].from - 4 = at /\ entries[k].to = at + Size(ws[k])
    <3>1. entries[k].from = cursor + o + 4 /\ entries[k].to = cursor + (o + Size(ws[k]))
      BY <2>1, <2>4, <1>5
    <3> QED BY <3>1, <2>2, <2>4, SMTT(40)
  <2> QED BY <2>5, <2>6, <1>2
<1>8. kept = Kept(entries, K)
  BY <1>6 DEF OtherShares
<1> HIDE DEF K
<1>9. /\ Len(p) \in Nat /\ \A j \in 1 .. Len(p) : p[j] \in 1 .. n
      /\ Kept(entries, K) = [j \in 1 .. Len(p) |-> entries[p[j]]]
      /\ Kept(ss, K) = [j \in 1 .. Len(p) |-> ss[p[j]]]
  BY <1>2, <1>4, KeptAt
<1> HIDE DEF p
<1>10. ShareEntries(Kept(ss, K)) = [j \in 1 .. Len(p) |-> ShareEntry(ss[p[j]])]
  BY <1>9 DEF ShareEntries
<1>11. DOMAIN kept = 1 .. Len(p) /\ \A j \in 1 .. Len(p) : kept[j] = entries[p[j]]
  BY <1>8, <1>9
<1>12. \A j \in 1 .. Len(p) :
          Slice(w, kept[j].from - 4, kept[j].to) = ShareEntry(ss[p[j]])
  BY <1>7, <1>9, <1>11
<1>13. [k \in DOMAIN kept |-> Slice(w, kept[k].from - 4, kept[k].to)]
       = [j \in 1 .. Len(p) |-> ShareEntry(ss[p[j]])]
  BY <1>11, <1>12, Zenon
<1> QED BY <1>10, <1>13 DEF K

\* The groups and the key shares of a hello other than the hybrid.
OtherListed(hello, group) == Kept(hello.groups, {k \in DOMAIN hello.groups : hello.groups[k] # group})
OtherShared(hello, group) ==
    Kept(hello.shares, {k \in DOMAIN hello.shares : hello.shares[k].group # group})

\* No two key shares are of one group.
OneEach(ss) == \A j, k \in DOMAIN ss : ss[j].group = ss[k].group => j = k

\* A hello with other groups and other key shares is a hello.
LEMMA HelloRecord ==
    ASSUME NEW hello \in Hellos, NEW gs \in Seq(Nat), NEW ss \in Seq(KeyShares), OneEach(ss)
    PROVE  [hello EXCEPT !.groups = gs, !.shares = ss] \in Hellos
<1> DEFINE h == [hello EXCEPT !.groups = gs, !.shares = ss]
<1>1. hello \in [groups : Seq(Nat), shares : Seq(KeyShares),
                 order : Seq({0, TLS_SUPPORTED_GROUPS, TLS_KEY_SHARE}), sid : Nat]
      /\ \A j, k \in DOMAIN hello.order :
            hello.order[j] = hello.order[k] /\ hello.order[j] # 0 => j = k
  BY DEF Hellos
<1>2. h \in [groups : Seq(Nat), shares : Seq(KeyShares),
             order : Seq({0, TLS_SUPPORTED_GROUPS, TLS_KEY_SHARE}), sid : Nat]
      /\ h.order = hello.order /\ h.shares = ss
  BY <1>1
<1> HIDE DEF h
<1>3. \A j, k \in DOMAIN h.order : h.order[j] = h.order[k] /\ h.order[j] # 0 => j = k
  BY <1>1, <1>2
<1>4. \A j, k \in DOMAIN h.shares : h.shares[j].group = h.shares[k].group => j = k
  BY <1>2 DEF OneEach
<1>5. h \in Hellos
  BY <1>2, <1>3, <1>4 DEF Hellos
<1> QED BY <1>5 DEF h

\* The hello of a client that does not know the group.
LEMMA WithoutGroupHello ==
    ASSUME NEW hello \in Hellos, NEW group
    PROVE  /\ WithoutGroup(hello, group) \in Hellos
           /\ WithoutGroup(hello, group).groups = OtherListed(hello, group)
           /\ WithoutGroup(hello, group).shares = OtherShared(hello, group)
           /\ WithoutGroup(hello, group).order = hello.order
           /\ WithoutGroup(hello, group).sid = hello.sid
<1> DEFINE h == WithoutGroup(hello, group)
           gs == OtherListed(hello, group)
           ss == OtherShared(hello, group)
           K == {k \in DOMAIN hello.shares : hello.shares[k].group # group}
           p == Positions(Len(hello.shares), K)
<1>1. hello.groups \in Seq(Nat) /\ hello.shares \in Seq(KeyShares)
  BY HelloFields
<1>2. gs \in Seq(Nat)
  BY <1>1, KeptListed DEF OtherListed
<1>3. ss \in Seq(KeyShares)
  BY <1>1, KeptListed DEF OtherShared
<1>4. h = [hello EXCEPT !.groups = gs, !.shares = ss]
  BY DEF WithoutGroup, OtherListed, OtherShared
<1>5. /\ h.groups = gs /\ h.shares = ss /\ h.order = hello.order /\ h.sid = hello.sid
  <2>1. hello \in [groups : Seq(Nat), shares : Seq(KeyShares),
                   order : Seq({0, TLS_SUPPORTED_GROUPS, TLS_KEY_SHARE}), sid : Nat]
    BY DEF Hellos
  <2> HIDE DEF gs, ss, h
  <2> QED BY <2>1, <1>4
<1>6. OneEach(ss)
  <2>1. /\ Lists(p, Len(hello.shares), K)
        /\ Len(p) \in Nat
        /\ ss = [j \in 1 .. Len(p) |-> hello.shares[p[j]]]
        /\ DOMAIN hello.shares = 1 .. Len(hello.shares)
    <3>1. Kept(hello.shares, K) = ss
      BY DEF OtherShared
    <3> HIDE DEF K, ss
    <3> QED BY <1>1, <3>1, KeptListed
  <2>2. \A j, k \in DOMAIN hello.shares :
           hello.shares[j].group = hello.shares[k].group => j = k
    BY DEF Hellos
  <2> HIDE DEF p, K, ss
  <2>3. \A i, j \in 1 .. Len(p) : i < j => p[i] < p[j]
    BY <2>1 DEF Lists
  <2>4. \A j \in 1 .. Len(p) : p[j] \in 1 .. Len(hello.shares) /\ p[j] \in Int
    BY <2>1 DEF Lists
  <2>5. DOMAIN ss = 1 .. Len(p) /\ \A j \in 1 .. Len(p) : ss[j] = hello.shares[p[j]]
    BY <2>1
  <2> SUFFICES ASSUME NEW j \in DOMAIN ss, NEW k \in DOMAIN ss, ss[j].group = ss[k].group
               PROVE  j = k
    BY DEF OneEach
  <2>6. j \in 1 .. Len(p) /\ k \in 1 .. Len(p)
    BY <2>5
  <2>7. p[j] = p[k]
    BY <2>1, <2>2, <2>4, <2>5, <2>6
  <2>8. j \in Int /\ k \in Int /\ p[j] \in Int /\ p[k] \in Int
    BY <2>4, <2>6
  <2> QED BY <2>3, <2>6, <2>7, <2>8
<1>7. h \in Hellos
  <2> HIDE DEF gs, ss, h
  <2> QED BY <1>2, <1>3, <1>4, <1>6, HelloRecord
<1> QED BY <1>5, <1>7

\* The payloads by the type of the extension.
LEMMA PayloadOfType ==
    ASSUME NEW hello
    PROVE  /\ ExtensionPayload(hello, TLS_SUPPORTED_GROUPS)
                = Vector("groups length", GroupFields(hello.groups))
           /\ ExtensionPayload(hello, TLS_KEY_SHARE)
                = Vector("shares length", Flat(ShareEntries(hello.shares)))
           /\ \A type : type # TLS_SUPPORTED_GROUPS /\ type # TLS_KEY_SHARE =>
                 ExtensionPayload(hello, type) = Opaque("other extension", 7)
           /\ TLS_SUPPORTED_GROUPS # TLS_KEY_SHARE
<1>1. TLS_SUPPORTED_GROUPS # TLS_KEY_SHARE
  BY DEF TLS_SUPPORTED_GROUPS, TLS_KEY_SHARE
<1> QED BY <1>1, Zenon DEF ExtensionPayload, GroupFields, ShareEntries

\* The entry e of a walk over w has the payload p.
Carries(w, e, p) ==
    /\ e.from \in Nat /\ e.to = e.from + Size(p)
    /\ Has(w, e.from, p)
    /\ Slice(w, e.from, e.to) = p

\* What the tools make of a supported_groups extension.
LEMMA GroupsRead ==
    ASSUME NEW gs \in Seq(Nat), NEW w \in Buffers, NEW e, NEW name \in FieldNames,
           Carries(w, e, Vector(name, GroupFields(gs)))
    PROVE  ~GroupsMalformed(w, e) /\ Groups(w, e) = GroupFields(gs)
<1>1. PICK fs \in Buffers : fs = GroupFields(gs) /\ Size(fs) = 2 * Len(gs)
  BY GroupsBuffer
<1>2. PICK n \in Nat : n = Len(gs)
  OBVIOUS
<1>3. PICK from \in Nat : from = e.from
  BY DEF Carries
<1>4. from \in Int /\ Has(w, from, Vector(name, fs)) /\ e.to = from + Size(Vector(name, fs))
  BY <1>1, <1>3 DEF Carries
<1>5. Size(Vector(name, fs)) = 2 + Size(fs)
  BY VectorRead
<1>6. Read(w, from, 2) = Size(fs) /\ Has(w, from + 2, fs)
  BY <1>4, VectorRead
<1>7. Size(fs) = 2 * n /\ 2 * n \in Nat
  BY <1>1, <1>2
<1>8. e.to = from + (2 + 2 * n)
  BY <1>4, <1>5, <1>7
<1>9. e.to - e.from >= 2 /\ Read(w, e.from, 2) = e.to - e.from - 2
  BY <1>3, <1>6, <1>7, <1>8
<1>10. (2 * n) % 2 = 0
  OBVIOUS
<1>11. Read(w, e.from, 2) % 2 = 0
  BY <1>3, <1>6, <1>7, <1>10
<1>12. ~GroupsMalformed(w, e)
  <2>1. e.to \in Int /\ e.from \in Int
    BY <1>3, <1>7, <1>8
  <2> QED BY <2>1, <1>9, <1>11 DEF GroupsMalformed
<1>13. Slice(w, from + 2, (from + 2) + Size(fs)) = fs
  <2>1. PICK at : at = from + 2
    OBVIOUS
  <2> QED BY <2>1, <1>6, SliceOfPart
<1>14. (from + 2) + Size(fs) = e.to
  BY <1>7, <1>8
<1>15. Groups(w, e) = fs
  BY <1>3, <1>13, <1>14 DEF Groups
<1> QED BY <1>1, <1>12, <1>15

\* What they make of a key_share extension.
LEMMA SharesRead ==
    ASSUME NEW ss \in Seq(KeyShares), NEW w \in Buffers, NEW e, NEW name \in FieldNames,
           Carries(w, e, Vector(name, Flat(ShareEntries(ss))))
    PROVE  /\ ~SharesMalformed(w, e)
           /\ Entries(w, e) = EntriesOf(ShareEntries(ss), ShareGroups(ss), e.from + 2, Len(ss))
           /\ Has(w, e.from + 2, Flat(ShareEntries(ss)))
           /\ e.from \in Nat
<1>1. PICK ws \in Seq(Buffers) : ws = ShareEntries(ss)
  BY SharesTyped
<1>2. PICK fs \in Buffers : fs = Flat(ws)
  BY FlatBuffer
<1>3. PICK z \in Nat : z = Size(fs)
  BY StartsOfBuffer
<1>4. PICK from \in Nat : from = e.from
  BY DEF Carries
<1>5. from \in Int /\ Has(w, from, Vector(name, fs)) /\ e.to = from + Size(Vector(name, fs))
  BY <1>1, <1>2, <1>4 DEF Carries
<1>6. Size(Vector(name, fs)) = 2 + Size(fs)
  BY VectorRead
<1>7. Read(w, from, 2) = Size(fs) /\ Has(w, from + 2, fs)
  BY <1>5, VectorRead
<1>8. e.to = from + (2 + z)
  BY <1>3, <1>5, <1>6
<1>9. PICK at \in Nat : at = from + 2
  OBVIOUS
<1>10. e.to = at + Size(Flat(ws)) /\ Has(w, at, Flat(ws)) /\ at \in Int
  BY <1>2, <1>3, <1>7, <1>8, <1>9
<1>11. TypedOk(ws, ShareGroups(ss), ShareValues(ss), "share group") /\ Len(ws) = Len(ss)
  BY <1>1, SharesTyped
<1>12. Triples(w, at, at + Size(Flat(ws))) = EntriesOf(ws, ShareGroups(ss), at, Len(ws))
  BY <1>10, <1>11, TriplesOfTyped, Zenon
<1>13. Entries(w, e) = EntriesOf(ws, ShareGroups(ss), at, Len(ws))
  BY <1>4, <1>9, <1>10, <1>12 DEF Entries
<1>14. ~Truncated(EntriesOf(ws, ShareGroups(ss), at, Len(ws)), at + Size(Flat(ws)))
  BY EntriesWithin
<1>15. ~Truncated(Entries(w, e), e.to)
  BY <1>10, <1>13, <1>14
<1>16. ~(e.to - e.from < 2) /\ e.from + 2 + Read(w, e.from, 2) = e.to
  <2>1. Read(w, from, 2) = z
    BY <1>3, <1>7
  <2>2. ~(e.to - from < 2) /\ from + 2 + z = e.to
    BY <1>8
  <2> QED BY <2>1, <2>2, <1>4, Zenon
<1>17. ~SharesMalformed(w, e)
  BY <1>15, <1>16 DEF SharesMalformed
<1>18. at = e.from + 2
  BY <1>4, <1>9
<1> QED BY <1>1, <1>4, <1>10, <1>11, <1>13, <1>17, <1>18, Zenon

\* Each extension of a hello carries its payload.
LEMMA EntryCarries ==
    ASSUME NEW hello \in Hellos, NEW w \in Buffers, Has(w, 0, EncodeClientHello(hello)),
           NEW k \in 1 .. Len(hello.order)
    PROVE  /\ HelloEntries(hello)[k].type = hello.order[k]
           /\ Carries(w, HelloEntries(hello)[k], ExtensionPayload(hello, hello.order[k]))
  BY HelloEntry, Zenon DEF Carries

\* An extension of a hello without the hybrid.
LEMMA RetainedOf ==
    ASSUME NEW hello \in Hellos, NEW w \in Buffers, NEW e, NEW group,
           Carries(w, e, ExtensionPayload(hello, e.type))
    PROVE  /\ ~Malformed(w, e)
           /\ Retained(w, e, group) = ExtensionPayload(WithoutGroup(hello, group), e.type)
<1> DEFINE left == WithoutGroup(hello, group)
<1>1. hello.groups \in Seq(Nat) /\ hello.shares \in Seq(KeyShares)
  BY HelloFields
<1>2. left.groups = OtherListed(hello, group) /\ left.shares = OtherShared(hello, group)
  BY WithoutGroupHello
<1> HIDE DEF left
<1>3. CASE e.type = TLS_SUPPORTED_GROUPS
  <2>1. Carries(w, e, Vector("groups length", GroupFields(hello.groups)))
    BY <1>3, PayloadOfType
  <2>2. ~GroupsMalformed(w, e) /\ Groups(w, e) = GroupFields(hello.groups)
    BY <2>1, <1>1, Names, GroupsRead, Zenon
  <2>3. OtherGroups(Groups(w, e), group) = GroupFields(left.groups)
    BY <2>2, <1>1, <1>2, OtherGroupsOf DEF OtherListed
  <2>4. Retained(w, e, group) = Vector("groups length", GroupFields(left.groups))
    BY <2>3, <1>3, Zenon DEF Retained
  <2>5. ExtensionPayload(left, e.type) = Vector("groups length", GroupFields(left.groups))
    BY <1>3, PayloadOfType
  <2> QED BY <2>2, <2>4, <2>5, <1>3, PayloadOfType, Zenon DEF Malformed, left
<1>4. CASE e.type = TLS_KEY_SHARE
  <2>1. Carries(w, e, Vector("shares length", Flat(ShareEntries(hello.shares))))
    BY <1>4, PayloadOfType
  <2>2. /\ ~SharesMalformed(w, e)
        /\ Entries(w, e) = EntriesOf(ShareEntries(hello.shares), ShareGroups(hello.shares),
                                     e.from + 2, Len(hello.shares))
        /\ Has(w, e.from + 2, Flat(ShareEntries(hello.shares)))
        /\ e.from \in Nat
    BY <2>1, <1>1, Names, SharesRead, Zenon
  <2>3. PICK at \in Nat : at = e.from + 2
    BY <2>2
  <2> DEFINE kept == OtherShares(Entries(w, e), group)
  <2>4. [k \in DOMAIN kept |-> Slice(w, kept[k].from - 4, kept[k].to)]
        = ShareEntries(left.shares)
    <3>1. PICK ss \in Seq(KeyShares) : ss = hello.shares
      BY <1>1
    <3>2. PICK entries : entries = Entries(w, e)
      OBVIOUS
    <3>3. Has(w, at, Flat(ShareEntries(ss)))
          /\ entries = EntriesOf(ShareEntries(ss), ShareGroups(ss), at, Len(ss))
      BY <2>2, <2>3, <3>1, <3>2, Zenon
    <3>4. kept = OtherShares(entries, group)
      BY <3>2
    <3> HIDE DEF kept
    <3>5. [k \in DOMAIN kept |-> Slice(w, kept[k].from - 4, kept[k].to)]
          = ShareEntries(Kept(ss, {k \in DOMAIN ss : ss[k].group # group}))
      BY <3>3, <3>4, OtherSharesOf
    <3> QED BY <3>1, <3>5, <1>2 DEF OtherShared
  <2>5. Retained(w, e, group) = Vector("shares length", Flat(ShareEntries(left.shares)))
    BY <2>4, <1>4, PayloadOfType, Zenon DEF Retained
  <2>6. ExtensionPayload(left, e.type) = Vector("shares length", Flat(ShareEntries(left.shares)))
    BY <1>4, PayloadOfType
  <2> QED BY <2>2, <2>5, <2>6, <1>4, PayloadOfType, Zenon DEF Malformed, left
<1>5. CASE e.type # TLS_SUPPORTED_GROUPS /\ e.type # TLS_KEY_SHARE
  <2>1. Retained(w, e, group) = Slice(w, e.from, e.to)
    BY <1>5, Zenon DEF Retained
  <2>2. Slice(w, e.from, e.to) = ExtensionPayload(hello, e.type)
    BY DEF Carries
  <2>3. ExtensionPayload(hello, e.type) = ExtensionPayload(left, e.type)
    BY <1>5, PayloadOfType
  <2> QED BY <2>1, <2>2, <2>3, <1>5, Zenon DEF Malformed, left
<1> QED BY <1>3, <1>4, <1>5

\* A message and what follows it.
LEMMA FollowedBy ==
    ASSUME NEW m \in Buffers, NEW tail \in Buffers
    PROVE  /\ m \o tail \in Buffers
           /\ Has(m \o tail, 0, m)
           /\ Size(m \o tail) = Size(m) + Size(tail)
           /\ From(m \o tail, Size(m)) = tail
<1>1. PICK w \in Buffers : w = m \o tail /\ Size(w) = Size(m) + Size(tail)
  BY SizeOfConcat
<1>2. Stands(w, 1, 0, m) /\ Stands(w, Len(m) + 1, Size(m), tail)
  BY <1>1, SizeOfConcat
<1>3. Has(w, 0, m) /\ Has(w, Size(m), tail)
  BY <1>2 DEF Has, Stands
<1>4. Slice(w, Size(m), Size(m) + Size(tail)) = tail
  BY <1>3, SliceOfPart
<1>5. From(w, Size(m)) = tail
  BY <1>1, <1>4 DEF From
<1> QED BY <1>1, <1>3, <1>5

\* There is one entry for each extension.
LEMMA EntriesDomain ==
    ASSUME NEW hello \in Hellos
    PROVE  DOMAIN HelloEntries(hello) = 1 .. Len(hello.order)
  BY DEF HelloEntries, EntriesOf

\* strip_hybrid leaves the message of a client that does not know the group.
LEMMA StripHybridResult ==
    ASSUME NEW hello \in Hellos, NEW group, NEW tail \in Buffers
    PROVE  StripHybrid(EncodeClientHello(hello) \o tail, group)
           = Returned(EncodeClientHello(WithoutGroup(hello, group)) \o tail)
<1>1. PICK m \in Buffers : m = EncodeClientHello(hello) /\ Size(m) = ExtsEnd(hello)
  BY HelloBuffer
<1>2. PICK w \in Buffers : w = m \o tail /\ Has(w, 0, m) /\ From(w, Size(m)) = tail
  BY FollowedBy
<1>3. PICK left \in Hellos : left = WithoutGroup(hello, group) /\ left.order = hello.order
                             /\ left.sid = hello.sid
  BY WithoutGroupHello
<1>4. PICK exts : exts = HelloEntries(hello)
  OBVIOUS
<1>5. PICK n \in Nat : n = Len(hello.order) /\ DOMAIN exts = 1 .. n
  BY <1>4, HelloFields, EntriesDomain
<1>6. Extensions(w) = Returned(exts)
  BY <1>1, <1>2, <1>4, HelloExtensions
<1>7. ASSUME NEW k \in 1 .. n
      PROVE  /\ exts[k].type = hello.order[k]
             /\ Carries(w, exts[k], ExtensionPayload(hello, hello.order[k]))
             /\ ~Malformed(w, exts[k])
             /\ Retained(w, exts[k], group) = ExtensionPayload(left, hello.order[k])
             /\ Slice(w, exts[k].from, exts[k].to) = ExtensionPayload(hello, hello.order[k])
  <2>1. PICK e : e = exts[k]
    OBVIOUS
  <2>2. e.type = hello.order[k] /\ Carries(w, e, ExtensionPayload(hello, hello.order[k]))
    BY <2>1, <1>1, <1>2, <1>4, <1>5, EntryCarries
  <2>3. Carries(w, e, ExtensionPayload(hello, e.type))
    BY <2>2
  <2>4. ~Malformed(w, e) /\ Retained(w, e, group) = ExtensionPayload(left, e.type)
    BY <2>3, <1>3, RetainedOf
  <2> QED BY <2>1, <2>2, <2>4 DEF Carries
<1> DEFINE new == [k \in DOMAIN exts |-> Retained(w, exts[k], group)]
<1>8. new = [k \in 1 .. n |-> ExtensionPayload(left, hello.order[k])]
  BY <1>5, <1>7, Zenon
<1>9. StripHybrid(w, group) = WithPayloads(w, exts, new)
  <2>1. Returned(exts).ok /\ Returned(exts).value = exts
    BY DEF Returned
  <2>2. Extensions(w).ok /\ Extensions(w).value = exts
    BY <2>1, <1>6
  <2>3. ~\E k \in DOMAIN exts : Malformed(w, exts[k])
    BY <1>5, <1>7
  <2> QED BY <2>2, <2>3, Zenon DEF StripHybrid, Then
<1> HIDE DEF new
<1>10. DOMAIN left.order = 1 .. n /\ DOMAIN hello.order = 1 .. n
  BY <1>3, <1>5, HelloFields
<1>11. CASE \A k \in DOMAIN exts : new[k] = Slice(w, exts[k].from, exts[k].to)
  <2>1. \A k \in 1 .. n :
           ExtensionPayload(left, hello.order[k]) = ExtensionPayload(hello, hello.order[k])
    BY <1>11, <1>5, <1>7, <1>8
  <2>2. HelloExts(left) = HelloExts(hello)
    BY <2>1, <1>3, <1>10, Zenon DEF HelloExts
  <2>3. HelloBody(left) = HelloBody(hello)
    BY <2>2, <1>3 DEF HelloBody
  <2>4. EncodeClientHello(left) = m
    BY <2>3, <1>1, <1>3, HelloBuffer
  <2>5. WithPayloads(w, exts, new) = Returned(w)
    BY <1>11, Zenon DEF WithPayloads
  <2> QED BY <2>4, <2>5, <1>1, <1>2, <1>3, <1>9
<1>12. CASE ~\A k \in DOMAIN exts : new[k] = Slice(w, exts[k].from, exts[k].to)
  <2>1. 1 \in 1 .. n
    BY <1>5, <1>12
  <2>2. exts[1].from - 4 = ExtsStart(hello)
    <3>1. PICK start \in Nat : start = ExtsStart(hello)
      BY HelloBuffer
    <3>2. PICK ws \in Seq(Buffers) : ws = HelloExts(hello)
      BY ExtsTyped
    <3>3. exts[1] = Entry(ws, hello.order, start, 1)
      BY <2>1, <3>1, <3>2, <1>4, <1>5 DEF HelloEntries, EntriesOf
    <3>4. exts[1].from = start + Offs(ws)[1] + 4
      BY <3>3 DEF Entry
    <3>5. Offs(ws)[1] = 0
      BY OffsOfParts
    <3>6. exts[1].from = start + 0 + 4
      BY <3>4, <3>5
    <3> QED BY <3>1, <3>6
  <2>3. [k \in DOMAIN exts |-> Extension(exts[k].type, new[k])] = HelloExts(left)
    <3>1. \A k \in 1 .. n : Extension(exts[k].type, new[k])
                            = Extension(left.order[k], ExtensionPayload(left, left.order[k]))
      BY <1>3, <1>7, <1>8
    <3> QED BY <3>1, <1>5, <1>10, Zenon DEF HelloExts
  <2>4. WithPayloads(w, exts, new) = Returned(Rebuilt(w, ExtsStart(hello), Flat(HelloExts(left))))
    BY <2>2, <2>3, <1>12, Zenon DEF WithPayloads
  <2>5. Slice(w, 9, ExtsStart(hello) - 2) = HelloHead(left.sid)
    <3>1. PICK h \in Buffers : h = HelloHead(hello.sid) /\ Size(h) = 45 + hello.sid
      BY HelloBuffer
    <3>2. Has(w, 9, h)
      BY <3>1, <1>1, <1>2, HelloBounds
    <3>3. Slice(w, 9, 9 + Size(h)) = h
      BY <3>2, SliceOfPart
    <3>4. 9 + Size(h) = ExtsStart(hello) - 2
      <4>1. PICK sid \in Nat : sid = hello.sid
        BY HelloFields
      <4>2. Size(h) = 45 + sid /\ ExtsStart(hello) = 56 + sid
        BY <3>1, <4>1 DEF ExtsStart
      <4> QED BY <4>2
    <3> QED BY <3>1, <3>3, <3>4, <1>3
  <2>6. From(w, EndOf(w, 3, 2)) = tail
    <3>1. EndOf(w, 3, 2) = ExtsEnd(hello)
      BY <1>1, <1>2, HelloBounds
    <3> QED BY <3>1, <1>1, <1>2
  <2>7. Rebuilt(w, ExtsStart(hello), Flat(HelloExts(left)))
        = Record(TLS_CLIENT_HELLO, HelloBody(left)) \o tail
    BY <2>5, <2>6, Zenon DEF Rebuilt, HelloBody
  <2>8. Record(TLS_CLIENT_HELLO, HelloBody(left)) = EncodeClientHello(left)
    BY HelloBuffer
  <2> QED BY <2>4, <2>7, <2>8, <1>1, <1>2, <1>3, <1>9
<1> QED BY <1>11, <1>12

-----------------------------------------------------------------------------
\* The extensions of a type, and what the capture parser reads.

\* A selection of one position, and of none.
LEMMA OnePosition ==
    ASSUME NEW n \in Nat, NEW K, NEW i \in 1 .. n, \A k \in 1 .. n : k \in K <=> k = i
    PROVE  Positions(n, K) = <<i>>
<1> DEFINE p == Positions(n, K)
<1>1. Lists(p, n, K)
  BY PositionsListed
<1> HIDE DEF p
<1>2. p \in Seq(Nat) /\ Len(p) \in Nat /\ \A j \in 1 .. Len(p) : p[j] = i
  BY <1>1 DEF Lists
<1>3. \E j \in 1 .. Len(p) : p[j] = i
  BY <1>1 DEF Lists
<1>4. Len(p) < 2
  <2>1. SUFFICES ASSUME Len(p) >= 2 PROVE FALSE
    BY <1>2
  <2>2. 1 \in 1 .. Len(p) /\ 2 \in 1 .. Len(p) /\ 1 < 2
    BY <1>2, <2>1
  <2>3. p[1] < p[2]
    BY <2>2, <1>1 DEF Lists
  <2> QED BY <2>2, <2>3, <1>2
<1>5. Len(p) = 1
  <2>1. Len(p) # 0
    BY <1>3
  <2>2. PICK m \in Nat : m = Len(p)
    BY <1>2
  <2>3. m # 0 /\ m < 2
    BY <2>1, <2>2, <1>4
  <2>4. m = 1
    BY <2>3
  <2> QED BY <2>2, <2>4
<1>6. p = <<i>>
  BY <1>2, <1>5
<1> QED BY <1>6 DEF p

\* The selection of no position.
LEMMA NoPosition ==
    ASSUME NEW n \in Nat, NEW K, \A k \in 1 .. n : k \notin K
    PROVE  Positions(n, K) = <<>>
<1> DEFINE p == Positions(n, K)
<1>1. Lists(p, n, K)
  BY PositionsListed
<1> HIDE DEF p
<1>2. p \in Seq(Nat) /\ Len(p) \in Nat /\ \A j \in 1 .. Len(p) : p[j] \in 1 .. n /\ p[j] \in K
  BY <1>1 DEF Lists
<1>3. Len(p) = 0
  BY <1>2
<1>4. p = <<>>
  BY <1>2, <1>3
<1> QED BY <1>4 DEF p

\* The extensions of a type, when there is one and when there is none.
OnlyAt(exts, n, type, i) ==
    /\ n \in Nat /\ Len(exts) = n /\ DOMAIN exts = 1 .. n /\ i \in 1 .. n
    /\ \A k \in 1 .. n : exts[k].type = type <=> k = i

\* If one extension has the type, it is the one found.
LEMMA OfTypeOne ==
    ASSUME NEW exts, NEW n, NEW type, NEW i, OnlyAt(exts, n, type, i)
    PROVE  OfType(exts, type) = <<exts[i]>>
<1> USE DEF OnlyAt
<1> DEFINE K == {k \in DOMAIN exts : exts[k].type = type}
<1>1. Positions(n, K) = <<i>>
  <2>1. \A k \in 1 .. n : k \in K <=> k = i
    OBVIOUS
  <2> HIDE DEF K
  <2> QED BY <2>1, OnePosition
<1>2. OfType(exts, type) = Kept(exts, K)
  BY DEF OfType
<1> HIDE DEF K
<1>3. Kept(exts, K) = [j \in DOMAIN <<i>> |-> exts[<<i>>[j]]]
  BY <1>1, Zenon DEF Kept
<1>4. [j \in DOMAIN <<i>> |-> exts[<<i>>[j]]] = <<exts[i]>>
  OBVIOUS
<1> QED BY <1>2, <1>3, <1>4

\* If none has the type, none is found.
LEMMA OfTypeNone ==
    ASSUME NEW exts, NEW n \in Nat, Len(exts) = n, DOMAIN exts = 1 .. n, NEW type,
           \A k \in 1 .. n : exts[k].type # type
    PROVE  OfType(exts, type) = <<>>
<1> DEFINE K == {k \in DOMAIN exts : exts[k].type = type}
<1>1. Positions(n, K) = <<>>
  <2>1. \A k \in 1 .. n : k \notin K
    OBVIOUS
  <2> HIDE DEF K
  <2> QED BY <2>1, NoPosition
<1>2. OfType(exts, type) = Kept(exts, K)
  BY DEF OfType
<1> HIDE DEF K
<1>3. Kept(exts, K) = [j \in DOMAIN <<>> |-> exts[<<>>[j]]]
  BY <1>1, Zenon DEF Kept
<1>4. [j \in DOMAIN <<>> |-> exts[<<>>[j]]] = <<>>
  OBVIOUS
<1> QED BY <1>2, <1>3, <1>4

\* The concatenation of one part, and of none.
LEMMA FlatOne ==
    ASSUME NEW x
    PROVE  Flat(<<x>>) = x
<1> DEFINE ws == <<x>>
           h == CHOOSE h : h = FlatStep(h, ws)
           g == [i \in 1 .. 1 |-> x]
<1>1. Len(ws) = 1 /\ ws[1] = x
  OBVIOUS
<1> HIDE DEF ws
<1>2. g = FlatStep(g, ws)
  <2>1. FlatStep(g, ws) = [i \in 1 .. 1 |-> IF i = 1 THEN ws[i] ELSE g[i - 1] \o ws[i]]
    BY <1>1, Zenon DEF FlatStep
  <2>2. \A i \in 1 .. 1 : (IF i = 1 THEN ws[i] ELSE g[i - 1] \o ws[i]) = x
    BY <1>1
  <2> QED BY <2>1, <2>2, Zenon
<1>3. h = FlatStep(h, ws)
  <2> HIDE DEF g
  <2> QED BY <1>2, Zenon
<1>4. Flat(ws) = h[1]
  <2>1. Flat(ws) = h[Len(ws)]
    BY <1>1 DEF Flat, FlattenSeq, FlatStep
  <2> QED BY <2>1, <1>1
<1> HIDE DEF h
<1>5. h[1] = x
  <2>1. FlatStep(h, ws)[1] = x
    BY <1>1 DEF FlatStep
  <2> QED BY <2>1, <1>3
<1> QED BY <1>4, <1>5 DEF ws

\* The concatenation of no part is empty.
LEMMA FlatNone == Flat(<<>>) = <<>>
  BY DEF Flat, FlattenSeq

\* What the extensions of a hello are, by type.
LEMMA HelloOfType ==
    ASSUME NEW hello \in Hellos, NEW w \in Buffers, Has(w, 0, EncodeClientHello(hello)),
           NEW type, type # 0
    PROVE  \/ /\ type \in ToSet(hello.order)
              /\ \E e : /\ OfType(HelloEntries(hello), type) = <<e>>
                        /\ e.type = type
                        /\ Carries(w, e, ExtensionPayload(hello, type))
           \/ type \notin ToSet(hello.order) /\ OfType(HelloEntries(hello), type) = <<>>
<1>1. PICK exts : exts = HelloEntries(hello)
  OBVIOUS
<1>2. PICK n \in Nat : n = Len(hello.order) /\ DOMAIN exts = 1 .. n /\ DOMAIN hello.order = 1 .. n
                       /\ Len(exts) = n
  <2>1. Len(hello.order) \in Nat /\ DOMAIN hello.order = 1 .. Len(hello.order)
    BY HelloFields
  <2> QED BY <2>1, <1>1 DEF HelloEntries, EntriesOf
<1>3. ASSUME NEW k \in 1 .. n
      PROVE  exts[k].type = hello.order[k]
             /\ Carries(w, exts[k], ExtensionPayload(hello, hello.order[k]))
  BY <1>1, <1>2, EntryCarries
<1>4. \A j, k \in 1 .. n : hello.order[j] = hello.order[k] /\ hello.order[j] # 0 => j = k
  BY <1>2 DEF Hellos
<1>5. CASE \E i \in 1 .. n : hello.order[i] = type
  <2>1. PICK i \in 1 .. n : hello.order[i] = type
    BY <1>5
  <2>2. \A k \in 1 .. n : exts[k].type = type <=> k = i
    BY <2>1, <1>3, <1>4
  <2>3. OfType(exts, type) = <<exts[i]>>
    <3>1. OnlyAt(exts, n, type, i)
      BY <2>2, <1>2 DEF OnlyAt
    <3> QED BY <3>1, OfTypeOne
  <2>4. type \in ToSet(hello.order)
    BY <2>1, <1>2 DEF ToSet
  <2> QED BY <2>1, <2>3, <2>4, <1>1, <1>3
<1>6. CASE \A i \in 1 .. n : hello.order[i] # type
  <2>1. \A k \in 1 .. n : exts[k].type # type
    BY <1>3, <1>6
  <2>2. OfType(exts, type) = <<>>
    BY <2>1, <1>2, OfTypeNone
  <2>3. type \notin ToSet(hello.order)
    BY <1>2, <1>6 DEF ToSet
  <2> QED BY <2>2, <2>3, <1>1
<1> QED BY <1>5, <1>6

\* The groups of the key shares a hello carries.
GroupsOfShares(hello) == [k \in DOMAIN Shared(hello) |-> Shared(hello)[k].group]

\* The parser reads the groups and the groups of the key shares.
LEMMA ValuesOfGroups ==
    ASSUME NEW gs \in Seq(Nat)
    PROVE  Values(GroupFields(gs)) = gs
<1>1. PICK fs \in Buffers : fs = GroupFields(gs)
  BY GroupsBuffer
<1>2. PICK n \in Nat : n = Len(gs) /\ DOMAIN gs = 1 .. n
  OBVIOUS
<1>3. Len(fs) = n /\ \A k \in 1 .. n : fs[k].value[1] = gs[k]
  BY <1>1, <1>2, GroupsBuffer
<1>4. DOMAIN fs = 1 .. n
  BY <1>3, StartsOfBuffer
<1>5. Values(fs) = [k \in 1 .. n |-> gs[k]]
  BY <1>3, <1>4, Zenon DEF Values
<1>6. gs = [k \in 1 .. n |-> gs[k]]
  BY <1>2
<1> QED BY <1>1, <1>5, <1>6

\* The types of the entries are the groups of the key shares.
LEMMA TypesOfShares ==
    ASSUME NEW ss \in Seq(KeyShares), NEW cursor
    PROVE  Types(EntriesOf(ShareEntries(ss), ShareGroups(ss), cursor, Len(ss)))
           = [k \in DOMAIN ss |-> ss[k].group]
<1>1. PICK n \in Nat : n = Len(ss) /\ DOMAIN ss = 1 .. n
  OBVIOUS
<1>2. PICK entries : entries = [k \in 1 .. n |-> Entry(ShareEntries(ss), ShareGroups(ss), cursor, k)]
  OBVIOUS
<1>3. DOMAIN entries = 1 .. n /\ \A k \in 1 .. n : entries[k].type = ShareGroups(ss)[k]
  BY <1>2 DEF Entry
<1>4. \A k \in 1 .. n : ShareGroups(ss)[k] = ss[k].group
  BY <1>1 DEF ShareGroups
<1>5. Types(entries) = [k \in 1 .. n |-> ss[k].group]
  BY <1>3, <1>4, Zenon DEF Types
<1> QED BY <1>1, <1>2, <1>5, Zenon DEF EntriesOf

\* The two extensions the tools look into are none of the others.
LEMMA HelloTypes ==
    /\ TLS_SUPPORTED_GROUPS # 0 /\ TLS_KEY_SHARE # 0
  BY DEF TLS_SUPPORTED_GROUPS, TLS_KEY_SHARE

\* The triples of the key shares that start at cursor.
SharedEntries(hello, cursor) ==
    EntriesOf(ShareEntries(hello.shares), ShareGroups(hello.shares), cursor, Len(hello.shares))

\* The key shares of a hello in a buffer: none without the extension.
LEMMA HelloShares ==
    ASSUME NEW hello \in Hellos, NEW w \in Buffers, Has(w, 0, EncodeClientHello(hello))
    PROVE  LET shares == OfType(HelloEntries(hello), TLS_KEY_SHARE)
           IN  \/ /\ TLS_KEY_SHARE \in ToSet(hello.order)
                  /\ \E e : \E at \in Nat :
                        /\ shares = <<e>> /\ ~SharesMalformed(w, e)
                        /\ Entries(w, e) = SharedEntries(hello, at)
                        /\ Has(w, at, Flat(ShareEntries(hello.shares)))
               \/ TLS_KEY_SHARE \notin ToSet(hello.order) /\ shares = <<>>
<1>1. PICK shares : shares = OfType(HelloEntries(hello), TLS_KEY_SHARE)
  OBVIOUS
<1>2. hello.shares \in Seq(KeyShares)
  BY HelloFields
<1>3. CASE TLS_KEY_SHARE \in ToSet(hello.order)
  <2>1. PICK e : shares = <<e>> /\ Carries(w, e, ExtensionPayload(hello, TLS_KEY_SHARE))
    BY <1>1, <1>3, HelloTypes, HelloOfType
  <2>2. Carries(w, e, Vector("shares length", Flat(ShareEntries(hello.shares))))
    BY <2>1, PayloadOfType
  <2>3. /\ ~SharesMalformed(w, e)
        /\ Entries(w, e) = EntriesOf(ShareEntries(hello.shares), ShareGroups(hello.shares),
                                     e.from + 2, Len(hello.shares))
        /\ Has(w, e.from + 2, Flat(ShareEntries(hello.shares)))
        /\ e.from \in Nat
    BY <2>2, <1>2, Names, SharesRead, Zenon
  <2>4. PICK at \in Nat : at = e.from + 2
    BY <2>3
  <2>5. Entries(w, e) = SharedEntries(hello, at) /\ Has(w, at, Flat(ShareEntries(hello.shares)))
    BY <2>3, <2>4, Zenon DEF SharedEntries
  <2> QED BY <2>1, <2>3, <2>5, <1>1, <1>3, Zenon
<1>4. CASE TLS_KEY_SHARE \notin ToSet(hello.order)
  BY <1>4, HelloTypes, HelloOfType
<1> QED BY <1>3, <1>4

\* The groups of a hello in a buffer: none without the extension.
LEMMA HelloGroups ==
    ASSUME NEW hello \in Hellos, NEW w \in Buffers, Has(w, 0, EncodeClientHello(hello))
    PROVE  LET groups == OfType(HelloEntries(hello), TLS_SUPPORTED_GROUPS)
           IN  (IF groups = <<>> THEN <<>> ELSE Values(Groups(w, Last(groups)))) = Listed(hello)
<1>1. PICK groups : groups = OfType(HelloEntries(hello), TLS_SUPPORTED_GROUPS)
  OBVIOUS
<1>2. hello.groups \in Seq(Nat)
  BY HelloFields
<1>3. CASE TLS_SUPPORTED_GROUPS \in ToSet(hello.order)
  <2>1. PICK e : groups = <<e>> /\ Carries(w, e, ExtensionPayload(hello, TLS_SUPPORTED_GROUPS))
    BY <1>1, <1>3, HelloTypes, HelloOfType
  <2>2. Carries(w, e, Vector("groups length", GroupFields(hello.groups)))
    BY <2>1, PayloadOfType
  <2>3. Groups(w, e) = GroupFields(hello.groups)
    BY <2>2, <1>2, Names, GroupsRead, Zenon
  <2>4. Values(Groups(w, e)) = hello.groups
    BY <2>3, <1>2, ValuesOfGroups
  <2>5. groups # <<>> /\ Last(groups) = e
    BY <2>1 DEF Last
  <2>6. Listed(hello) = hello.groups
    BY <1>3 DEF Listed
  <2> QED BY <2>4, <2>5, <2>6, <1>1, Zenon
<1>4. CASE TLS_SUPPORTED_GROUPS \notin ToSet(hello.order)
  <2>1. groups = <<>>
    BY <1>1, <1>4, HelloTypes, HelloOfType
  <2>2. Listed(hello) = <<>>
    BY <1>4 DEF Listed
  <2> QED BY <2>1, <2>2, <1>1, Zenon
<1> QED BY <1>3, <1>4

\* _client_hello reads the groups and the key shares a hello carries.
LEMMA ReadClientHelloResult ==
    ASSUME NEW hello \in Hellos, NEW w \in Buffers, Has(w, 0, EncodeClientHello(hello))
    PROVE  ReadClientHello(w)
           = Returned([groups |-> Listed(hello), shares |-> GroupsOfShares(hello)])
<1>1. PICK exts : exts = HelloEntries(hello)
  OBVIOUS
<1> DEFINE groups == OfType(exts, TLS_SUPPORTED_GROUPS)
           shares == OfType(exts, TLS_KEY_SHARE)
<1>2. Extensions(w).ok /\ Extensions(w).value = exts
  BY <1>1, HelloExtensions DEF Returned
<1>3. (IF groups = <<>> THEN <<>> ELSE Values(Groups(w, Last(groups)))) = Listed(hello)
  BY <1>1, HelloGroups, Zenon
<1>4. Flat([k \in DOMAIN shares |-> Types(Entries(w, shares[k]))]) = GroupsOfShares(hello)
  <2>1. CASE TLS_KEY_SHARE \in ToSet(hello.order)
    <3>0. PICK e : shares = <<e>> /\ \E at \in Nat : Entries(w, e) = SharedEntries(hello, at)
      BY <2>1, <1>1, HelloShares, Zenon
    <3>1. PICK at \in Nat : shares = <<e>> /\ Entries(w, e) = SharedEntries(hello, at)
      BY <3>0
    <3>2. hello.shares \in Seq(KeyShares)
      BY HelloFields
    <3>3. Types(Entries(w, e)) = [k \in DOMAIN hello.shares |-> hello.shares[k].group]
      BY <3>1, <3>2, TypesOfShares, Zenon DEF SharedEntries
    <3>4. GroupsOfShares(hello) = [k \in DOMAIN hello.shares |-> hello.shares[k].group]
      BY <2>1, Zenon DEF GroupsOfShares, Shared
    <3>5. PICK x : x = Types(Entries(w, e))
      OBVIOUS
    <3> HIDE DEF shares
    <3>6. [k \in DOMAIN shares |-> Types(Entries(w, shares[k]))] = <<x>>
      <4>1. DOMAIN shares = {1} /\ shares[1] = e
        BY <3>1
      <4>2. \A k \in {1} : Types(Entries(w, shares[k])) = x
        BY <4>1, <3>5, Zenon
      <4>3. [k \in DOMAIN shares |-> Types(Entries(w, shares[k]))] = [k \in {1} |-> x]
        BY <4>1, <4>2, Zenon
      <4>4. [k \in {1} |-> x] = <<x>>
        OBVIOUS
      <4> QED BY <4>3, <4>4
    <3>7. Flat([k \in DOMAIN shares |-> Types(Entries(w, shares[k]))]) = x
      BY <3>6, FlatOne, Zenon
    <3> QED BY <3>3, <3>4, <3>5, <3>7, Zenon
  <2>2. CASE TLS_KEY_SHARE \notin ToSet(hello.order)
    <3>1. shares = <<>>
      BY <2>2, <1>1, HelloShares, Zenon
    <3>2. GroupsOfShares(hello) = <<>>
      BY <2>2 DEF GroupsOfShares, Shared
    <3> HIDE DEF shares
    <3>3. [k \in DOMAIN shares |-> Types(Entries(w, shares[k]))] = <<>>
      BY <3>1
    <3> QED BY <3>2, <3>3, FlatNone, Zenon
  <2> QED BY <2>1, <2>2
<1> QED BY <1>2, <1>3, <1>4, Zenon DEF ReadClientHello, Then

-----------------------------------------------------------------------------
\* Buffers that differ in one part.

\* Concatenation is associative.
Regrouped(a, b, c) == (a \o b) \o c = a \o (b \o c)

\* The concatenation of three buffers can be regrouped.
LEMMA BuffersAssociative ==
    ASSUME NEW a \in Buffers, NEW b \in Buffers, NEW c \in Buffers
    PROVE  Regrouped(a, b, c)
  BY DEF Buffers, Regrouped

\* The empty buffer adds nothing.
LEMMA ConcatEmpty ==
    ASSUME NEW a \in Buffers
    PROVE  a \o <<>> = a /\ <<>> \o a = a
  BY DEF Buffers

\* w and v are the same around a and b, which start at off.
SameAround(w, v, off, a, b, x, y) ==
    /\ x \in Buffers /\ y \in Buffers
    /\ w = x \o a \o y /\ v = x \o b \o y /\ Size(x) = off
Framed(w, v, off, a, b) ==
    \E x, y \in Buffers : SameAround(w, v, off, a, b, x, y)

\* Two buffers differ in themselves.
LEMMA FramedSelf ==
    ASSUME NEW a \in Buffers, NEW b \in Buffers
    PROVE  Framed(a, b, 0, a, b)
<1>1. PICK e \in Buffers : e = <<>> /\ Size(e) = 0
  BY EmptyBuffer
<1>2. e \o a \o e = a /\ e \o b \o e = b
  BY <1>1, ConcatEmpty
<1>3. SameAround(a, b, 0, a, b, e, e)
  BY <1>1, <1>2 DEF SameAround
<1> QED BY <1>3, Zenon DEF Framed

\* What precedes two buffers moves the part they differ in.
LEMMA FramedLeft ==
    ASSUME NEW a \in Buffers, NEW b \in Buffers, NEW c \in Buffers, NEW w, NEW v, NEW off,
           Framed(w, v, off, a, b)
    PROVE  Framed(c \o w, c \o v, Size(c) + off, a, b)
<1>1. PICK x, y \in Buffers : SameAround(w, v, off, a, b, x, y)
  BY DEF Framed
<1>2. PICK cx \in Buffers : cx = c \o x /\ Size(cx) = Size(c) + Size(x)
  BY SizeOfConcat
<1>3. c \o (x \o a \o y) = cx \o a \o y
  <2>1. PICK xa \in Buffers : xa = x \o a
    BY SizeOfConcat
  <2>2. Regrouped(c, xa, y)
    BY BuffersAssociative
  <2>3. Regrouped(c, x, a)
    BY BuffersAssociative
  <2> QED BY <2>1, <2>2, <2>3, <1>2 DEF Regrouped
<1>4. c \o (x \o b \o y) = cx \o b \o y
  <2>1. PICK xa \in Buffers : xa = x \o b
    BY SizeOfConcat
  <2>2. Regrouped(c, xa, y)
    BY BuffersAssociative
  <2>3. Regrouped(c, x, b)
    BY BuffersAssociative
  <2> QED BY <2>1, <2>2, <2>3, <1>2 DEF Regrouped
<1>5. SameAround(c \o w, c \o v, Size(c) + off, a, b, cx, y)
  BY <1>1, <1>2, <1>3, <1>4, Zenon DEF SameAround
<1> QED BY <1>5, Zenon DEF Framed

\* What follows them does not.
LEMMA FramedRight ==
    ASSUME NEW a \in Buffers, NEW b \in Buffers, NEW c \in Buffers, NEW w, NEW v, NEW off,
           Framed(w, v, off, a, b)
    PROVE  Framed(w \o c, v \o c, off, a, b)
<1>1. PICK x, y \in Buffers : SameAround(w, v, off, a, b, x, y)
  BY DEF Framed
<1>2. PICK yc \in Buffers : yc = y \o c
  BY SizeOfConcat
<1>3. (x \o a \o y) \o c = x \o a \o yc
  <2>1. PICK xa \in Buffers : xa = x \o a
    BY SizeOfConcat
  <2>2. Regrouped(xa, y, c)
    BY BuffersAssociative
  <2> QED BY <2>1, <2>2, <1>2 DEF Regrouped
<1>4. (x \o b \o y) \o c = x \o b \o yc
  <2>1. PICK xa \in Buffers : xa = x \o b
    BY SizeOfConcat
  <2>2. Regrouped(xa, y, c)
    BY BuffersAssociative
  <2> QED BY <2>1, <2>2, <1>2 DEF Regrouped
<1>5. SameAround(w \o c, v \o c, off, a, b, x, yc)
  BY <1>1, <1>2, <1>3, <1>4, Zenon DEF SameAround
<1> QED BY <1>5, Zenon DEF Framed

\* Buffers that differ in two parts of one size have one size.
LEMMA FramedBuffers ==
    ASSUME NEW a \in Buffers, NEW b \in Buffers, NEW w, NEW v, NEW off,
           Framed(w, v, off, a, b), Size(a) = Size(b)
    PROVE  w \in Buffers /\ v \in Buffers /\ Size(w) = Size(v) /\ off \in Nat
<1>1. PICK x, y \in Buffers : SameAround(w, v, off, a, b, x, y)
  BY DEF Framed
<1>2. x \o a \o y \in Buffers /\ Size(x \o a \o y) = Size(x) + Size(a) + Size(y)
  BY ThreeParts
<1>3. x \o b \o y \in Buffers /\ Size(x \o b \o y) = Size(x) + Size(b) + Size(y)
  BY ThreeParts
<1>4. Size(x) \in Nat
  BY StartsOfBuffer
<1> QED BY <1>1, <1>2, <1>3, <1>4, Zenon DEF SameAround

\* The concatenation is built part by part.
Iterates(h, ws) ==
    /\ h[1] = ws[1]
    /\ \A i \in 2 .. Len(ws) : h[i] = h[i - 1] \o ws[i]
    /\ Flat(ws) = h[Len(ws)]

\* Every sequence of parts is flattened in that way.
LEMMA FlatIterates ==
    ASSUME NEW ws \in Seq(Buffers), Len(ws) # 0
    PROVE  \E h : Iterates(h, ws)
<1> DEFINE h == CHOOSE h : h = FlatStep(h, ws)
<1>0. Len(ws) \in Nat
  OBVIOUS
<1>1. h = FlatStep(h, ws)
  <2>1. PICK f : f = [i \in 1 .. Len(ws) |-> f[i]] /\ FlatUpTo(f, ws, Len(ws))
    BY FlatUpToExists
  <2>2. f = FlatStep(f, ws)
    BY <2>1, Zenon DEF FlatUpTo, FlatStep
  <2> QED BY <2>2, Zenon
<1>2. Flat(ws) = h[Len(ws)]
  BY DEF Flat, FlattenSeq, FlatStep
<1> HIDE DEF h
<1>3. h[1] = ws[1]
  <2>1. 1 \in 1 .. Len(ws)
    BY <1>0
  <2>2. FlatStep(h, ws)[1] = ws[1]
    BY <2>1 DEF FlatStep
  <2> QED BY <2>2, <1>1
<1>4. ASSUME NEW i \in 2 .. Len(ws) PROVE h[i] = h[i - 1] \o ws[i]
  <2>1. i \in 1 .. Len(ws) /\ i # 1
    BY <1>0
  <2>2. FlatStep(h, ws)[i] = h[i - 1] \o ws[i]
    BY <2>1 DEF FlatStep
  <2> QED BY <2>2, <1>1
<1> QED BY <1>2, <1>3, <1>4 DEF Iterates

\* Two sequences of parts that differ in part i only.
DifferAt(ws, vs, i) ==
    /\ ws \in Seq(Buffers) /\ vs \in Seq(Buffers) /\ Len(vs) = Len(ws)
    /\ i \in 1 .. Len(ws)
    /\ \A k \in 1 .. Len(ws) : k # i => vs[k] = ws[k]

\* If two sequences differ in part i, and that part in a and b, so do the
\* concatenations.
LEMMA FramedFlat ==
    ASSUME NEW ws, NEW vs, NEW i, DifferAt(ws, vs, i), NEW a \in Buffers, NEW b \in Buffers,
           NEW off, Framed(ws[i], vs[i], off, a, b)
    PROVE  Framed(Flat(ws), Flat(vs), Offs(ws)[i] + off, a, b)
<1> DEFINE n == Len(ws)
<1>1. /\ ws \in Seq(Buffers) /\ vs \in Seq(Buffers) /\ n \in Nat /\ n # 0 /\ i \in 1 .. n
      /\ Len(vs) = n /\ i \in Nat
      /\ \A k \in 1 .. n : k # i => vs[k] = ws[k]
      /\ \A k \in 1 .. n : ws[k] \in Buffers /\ vs[k] \in Buffers
  <2>1. /\ ws \in Seq(Buffers) /\ vs \in Seq(Buffers) /\ i \in 1 .. n
        /\ Len(vs) = n
        /\ \A k \in 1 .. n : k # i => vs[k] = ws[k]
    BY DEF DifferAt
  <2>2. n \in Nat /\ \A k \in 1 .. n : ws[k] \in Buffers /\ vs[k] \in Buffers
    BY <2>1
  <2> QED BY <2>1, <2>2
<1>2. /\ Offs(ws) \in [1 .. n + 1 -> Nat] /\ Offs(ws)[1] = 0
      /\ \A k \in 1 .. n : Offs(ws)[k + 1] = Offs(ws)[k] + Size(ws[k])
  BY <1>1, OffsOfParts
<1> HIDE DEF n
<1>3. PICK h : Iterates(h, ws)
  BY <1>1, FlatIterates DEF n
<1>4. PICK g : Iterates(g, vs)
  BY <1>1, FlatIterates
<1>5. /\ h[1] = ws[1] /\ Flat(ws) = h[n] /\ g[1] = vs[1] /\ Flat(vs) = g[n]
      /\ \A k \in 2 .. n : h[k] = h[k - 1] \o ws[k] /\ g[k] = g[k - 1] \o vs[k]
  BY <1>1, <1>3, <1>4 DEF Iterates, n
\* before part i the two agree
<1> DEFINE S == {m \in Nat : m + 1 < i => h[m + 1] = g[m + 1] /\ h[m + 1] \in Buffers
                                          /\ Size(h[m + 1]) = Offs(ws)[m + 2]}
<1>6. 0 \in S
  <2>1. SUFFICES ASSUME 1 < i
                 PROVE  h[1] = g[1] /\ h[1] \in Buffers /\ Size(h[1]) = Offs(ws)[2]
    OBVIOUS
  <2>2. 1 \in 1 .. n /\ 1 # i
    BY <2>1, <1>1
  <2>3. vs[1] = ws[1] /\ ws[1] \in Buffers /\ Offs(ws)[1 + 1] = Offs(ws)[1] + Size(ws[1])
    BY <2>2, <1>1, <1>2
  <2>4. Size(ws[1]) \in Nat
    BY <2>3, StartsOfBuffer
  <2>5. Offs(ws)[2] = Size(ws[1])
    BY <2>3, <2>4, <1>2
  <2> QED BY <2>3, <2>5, <1>5
<1>7. ASSUME NEW m \in Nat, m \in S PROVE m + 1 \in S
  <2>1. SUFFICES ASSUME m + 2 < i
                 PROVE  h[m + 2] = g[m + 2] /\ h[m + 2] \in Buffers
                        /\ Size(h[m + 2]) = Offs(ws)[m + 3]
    BY <1>1
  <2>2. m + 2 \in 2 .. n /\ m + 2 \in 1 .. n /\ m + 2 # i /\ (m + 2) - 1 = m + 1 /\ m + 1 < i
    BY <2>1, <1>1
  <2>3. h[m + 1] = g[m + 1] /\ h[m + 1] \in Buffers /\ Size(h[m + 1]) = Offs(ws)[m + 2]
    BY <1>7, <2>2
  <2>4. h[m + 2] = h[m + 1] \o ws[m + 2] /\ g[m + 2] = g[m + 1] \o vs[m + 2]
    BY <2>2, <1>5
  <2>5. vs[m + 2] = ws[m + 2] /\ ws[m + 2] \in Buffers
        /\ Offs(ws)[(m + 2) + 1] = Offs(ws)[m + 2] + Size(ws[m + 2])
    BY <2>2, <1>1, <1>2
  <2>6. PICK p, q \in Buffers : p = h[m + 1] /\ q = ws[m + 2]
    BY <2>3, <2>5
  <2>7. p \o q \in Buffers /\ Size(p \o q) = Size(p) + Size(q)
    BY SizeOfConcat
  <2>8. (m + 2) + 1 = m + 3
    OBVIOUS
  <2> HIDE DEF S
  <2>9. h[m + 2] = p \o q /\ g[m + 2] = p \o q
    BY <2>3, <2>4, <2>5, <2>6
  <2>10. Size(p) + Size(q) = Offs(ws)[m + 3]
    BY <2>3, <2>5, <2>6, <2>8
  <2> QED BY <2>7, <2>9, <2>10
<1>8. Nat \subseteq S
  <2> HIDE DEF S
  <2> QED BY <1>6, <1>7, NatSetInduction
\* from part i on they differ in a and b
<1> DEFINE T == {m \in Nat : i + m <= n => Framed(h[i + m], g[i + m], Offs(ws)[i] + off, a, b)}
<1>9. 0 \in T
  <2>0. i + 0 = i
    BY <1>1
  <2>1. SUFFICES Framed(h[i], g[i], Offs(ws)[i] + off, a, b)
    BY <2>0
  <2>2. CASE i = 1
    <3>1. PICK e \in Buffers : e = <<>> /\ Size(e) = 0
      BY EmptyBuffer
    <3>2. Framed(e \o ws[1], e \o vs[1], Size(e) + off, a, b)
      BY <2>2, FramedLeft
    <3>3. e \o ws[1] = ws[1] /\ e \o vs[1] = vs[1]
      BY <2>2, <3>1, <1>1, ConcatEmpty
    <3>4. Offs(ws)[i] = Size(e)
      BY <2>2, <3>1, <1>2
    <3> QED BY <2>2, <3>2, <3>3, <3>4, <1>5
  <2>3. CASE i # 1
    <3>1. PICK m \in Nat : i = m + 2
      <4>1. i - 2 \in Nat /\ i = (i - 2) + 2
        BY <2>3, <1>1
      <4> QED BY <4>1
    <3>2. m \in S /\ m + 1 < i
      BY <3>1, <1>8
    <3>3. h[m + 1] = g[m + 1] /\ h[m + 1] \in Buffers /\ Size(h[m + 1]) = Offs(ws)[m + 2]
      BY <3>2
    <3>4. i \in 2 .. n /\ i - 1 = m + 1
      BY <3>1, <1>1
    <3>5. h[i] = h[m + 1] \o ws[i] /\ g[i] = g[m + 1] \o vs[i]
      BY <3>4, <1>5
    <3>6. PICK p \in Buffers : p = h[m + 1] /\ Size(p) = Offs(ws)[i]
      BY <3>1, <3>3
    <3>7. Framed(p \o ws[i], p \o vs[i], Size(p) + off, a, b)
      BY FramedLeft
    <3> HIDE DEF S
    <3> QED BY <3>3, <3>5, <3>6, <3>7
  <2> QED BY <2>2, <2>3
<1>10. ASSUME NEW m \in Nat, m \in T PROVE m + 1 \in T
  <2> HIDE DEF S
  <2>1. SUFFICES ASSUME i + (m + 1) <= n
                 PROVE  Framed(h[i + (m + 1)], g[i + (m + 1)], Offs(ws)[i] + off, a, b)
    OBVIOUS
  <2>2. Framed(h[i + m], g[i + m], Offs(ws)[i] + off, a, b)
    BY <1>10, <2>1, <1>1
  <2>3. PICK k \in 2 .. n : k = i + (m + 1) /\ k - 1 = i + m /\ k # i /\ k \in 1 .. n
    BY <2>1, <1>1
  <2>4. h[k] = h[i + m] \o ws[k] /\ g[k] = g[i + m] \o vs[k] /\ vs[k] = ws[k] /\ ws[k] \in Buffers
    BY <2>3, <1>1, <1>5
  <2>5. Framed(h[i + m] \o ws[k], g[i + m] \o ws[k], Offs(ws)[i] + off, a, b)
    BY <2>2, <2>4, FramedRight
  <2> QED BY <2>3, <2>4, <2>5
<1>11. Framed(h[n], g[n], Offs(ws)[i] + off, a, b)
  <2>1. Nat \subseteq T
    <3> HIDE DEF S, T
    <3> QED BY <1>9, <1>10, NatSetInduction
  <2>2. n - i \in Nat /\ i + (n - i) = n /\ n <= n
    BY <1>1
  <2>3. n - i \in T
    <3> HIDE DEF T
    <3> QED BY <2>1, <2>2
  <2> HIDE DEF S
  <2>4. i + (n - i) <= n
    BY <2>2
  <2>5. Framed(h[i + (n - i)], g[i + (n - i)], Offs(ws)[i] + off, a, b)
    BY <2>3, <2>4
  <2> HIDE DEF T
  <2> QED BY <2>2, <2>5, Zenon
<1> QED BY <1>5, <1>11

\* A part whose bytes are inverted.
Negated(part) == [k \in DOMAIN part |-> [part[k] EXCEPT !.value = <<0 - @[1]>>]]

\* A number inverted is the number with the inverted value.
LEMMA NumNegated ==
    ASSUME NEW name, NEW size, NEW value \in Int
    PROVE  Negated(Num(name, size, value)) = Num(name, size, 0 - value)
<1> DEFINE f == [name |-> name, size |-> size, value |-> <<value>>]
           g == [name |-> name, size |-> size, value |-> <<0 - value>>]
<1>1. Num(name, size, value) = <<f>> /\ Num(name, size, 0 - value) = <<g>>
  BY DEF Num
<1>2. [f EXCEPT !.value = <<0 - @[1]>>] = g
  OBVIOUS
<1> HIDE DEF f, g
<1>3. DOMAIN <<f>> = {1} /\ <<f>>[1] = f
  OBVIOUS
<1>4. Negated(<<f>>) = [k \in {1} |-> g]
  BY <1>2, <1>3, Zenon DEF Negated
<1>5. [k \in {1} |-> g] = <<g>>
  OBVIOUS
<1> QED BY <1>1, <1>4, <1>5

\* The bytes of one field are inverted and no others.
LEMMA InvertedOf ==
    ASSUME NEW a \in Buffers, NEW b \in Buffers, NEW w, NEW v, NEW off,
           Framed(w, v, off, a, b), b = Negated(a)
    PROVE  Inverted(w, off, Size(a)) = v
<1>1. PICK x, y \in Buffers : SameAround(w, v, off, a, b, x, y)
  BY DEF Framed
<1>2. PICK xa \in Buffers : xa = x \o a /\ Size(xa) = Size(x) + Size(a)
  BY SizeOfConcat
<1>3. w = xa \o y /\ v = x \o b \o y /\ off = Size(x)
  BY <1>1, <1>2 DEF SameAround
<1>4. w \in Buffers /\ Has(w, 0, xa) /\ From(w, Size(xa)) = y
  BY <1>3, FollowedBy
<1>5. Has(w, 0, x) /\ Has(w, 0 + Size(x), a)
  BY <1>2, <1>4, HasConcat
<1>6. Size(x) \in Nat /\ Size(a) \in Nat /\ 0 + Size(x) = Size(x)
  BY StartsOfBuffer
<1>7. UpTo(w, off) = x
  <2>1. Slice(w, 0, 0 + Size(x)) = x
    BY <1>4, <1>5, SliceOfPart
  <2> QED BY <2>1, <1>3, <1>6 DEF UpTo
<1>8. Slice(w, off, off + Size(a)) = a
  <2>1. Has(w, off, a)
    BY <1>3, <1>5, <1>6
  <2> QED BY <2>1, <1>4, SliceOfPart
<1>9. From(w, off + Size(a)) = y
  BY <1>2, <1>3, <1>4
<1>10. Inverted(w, off, Size(a)) = x \o (b \o y)
  BY <1>7, <1>8, <1>9, Zenon DEF Inverted, Negated
<1>11. Regrouped(x, b, y)
  BY BuffersAssociative
<1> QED BY <1>3, <1>10, <1>11 DEF Regrouped

\* The encoders carry a change of one part, if its size stays, outwards.
LEMMA FramedTyped ==
    ASSUME NEW name \in FieldNames, NEW type \in Int, NEW a \in Buffers, NEW b \in Buffers,
           NEW w, NEW v, NEW off, Size(a) = Size(b), Framed(w, v, off, a, b)
    PROVE  Framed(Typed(name, type, w), Typed(name, type, v), 4 + off, a, b)
<1>1. w \in Buffers /\ v \in Buffers /\ Size(w) = Size(v)
  BY FramedBuffers
<1>2. PICK c \in Buffers : c = Num(name, 2, type) \o Num("length", 2, Size(w)) /\ Size(c) = 4
  <2>1. Size(w) \in Int /\ 2 \in Nat \ {0}
    BY <1>1, StartsOfBuffer
  <2>2. PICK p \in Buffers : p = Num(name, 2, type) /\ Size(p) = 2
    <3>1. IsNum(Num(name, 2, type), 2, type)
      BY <2>1, NumIs, Zenon
    <3> QED BY <3>1 DEF IsNum
  <2>3. PICK q \in Buffers : q = Num("length", 2, Size(w)) /\ Size(q) = 2
    <3>1. IsNum(Num("length", 2, Size(w)), 2, Size(w))
      BY <2>1, Names, NumIs, Zenon
    <3> QED BY <3>1 DEF IsNum
  <2>4. p \o q \in Buffers /\ Size(p \o q) = Size(p) + Size(q)
    BY SizeOfConcat
  <2>5. Size(p) + Size(q) = 4
    BY <2>2, <2>3
  <2> QED BY <2>2, <2>3, <2>4, <2>5, Zenon
<1>3. Typed(name, type, w) = c \o w /\ Typed(name, type, v) = c \o v
  BY <1>1, <1>2, Zenon DEF Typed
<1>4. Framed(c \o w, c \o v, Size(c) + off, a, b)
  BY FramedLeft
<1> QED BY <1>2, <1>3, <1>4

\* The length of a vector.
LEMMA FramedVector ==
    ASSUME NEW name \in FieldNames, NEW a \in Buffers, NEW b \in Buffers,
           NEW w, NEW v, NEW off, Size(a) = Size(b), Framed(w, v, off, a, b)
    PROVE  Framed(Vector(name, w), Vector(name, v), 2 + off, a, b)
<1>1. w \in Buffers /\ v \in Buffers /\ Size(w) = Size(v)
  BY FramedBuffers
<1>2. PICK c \in Buffers : c = Num(name, 2, Size(w)) /\ Size(c) = 2
  <2>1. Size(w) \in Int /\ 2 \in Nat \ {0}
    BY <1>1, StartsOfBuffer
  <2>2. IsNum(Num(name, 2, Size(w)), 2, Size(w))
    BY <2>1, NumIs, Zenon
  <2> QED BY <2>2 DEF IsNum
<1>3. Vector(name, w) = c \o w /\ Vector(name, v) = c \o v
  BY <1>1, <1>2, Zenon DEF Vector
<1>4. Framed(c \o w, c \o v, Size(c) + off, a, b)
  BY FramedLeft
<1> QED BY <1>2, <1>3, <1>4

\* The lengths of a record.
LEMMA FramedRecord ==
    ASSUME NEW t \in Int, NEW a \in Buffers, NEW b \in Buffers,
           NEW w, NEW v, NEW off, Size(a) = Size(b), Framed(w, v, off, a, b)
    PROVE  Framed(Record(t, w), Record(t, v), 9 + off, a, b)
<1>1. w \in Buffers /\ v \in Buffers /\ Size(w) = Size(v)
  BY FramedBuffers
<1>2. PICK z \in Nat : z = Size(w)
  BY <1>1, StartsOfBuffer
<1>3. PICK c \in Buffers : c = RecordHead(t, z) /\ Size(c) = 9
  BY RecordHeadRead
<1>4. Record(t, w) = c \o w /\ Record(t, v) = c \o v
  BY <1>1, <1>2, <1>3, RecordRead
<1>5. Framed(c \o w, c \o v, Size(c) + off, a, b)
  BY FramedLeft
<1> QED BY <1>3, <1>4, <1>5

-----------------------------------------------------------------------------
\* forge_pq_component.

\* A key share whose post-quantum key is inverted.
ForgedShare(s, group) == [s EXCEPT !.key = IF s.group = group THEN 0 - @ ELSE @]
ForgedShares(ss, group) == [k \in DOMAIN ss |-> ForgedShare(ss[k], group)]

\* Forging a key share changes its key if it is of the group, and nothing else.
LEMMA ForgedShareFields ==
    ASSUME NEW s \in KeyShares, NEW group
    PROVE  /\ ForgedShare(s, group) \in KeyShares
           /\ ForgedShare(s, group).group = s.group
           /\ ForgedShare(s, group).size = s.size
           /\ s.group = group => ForgedShare(s, group).key = 0 - s.key
           /\ s.group # group => ForgedShare(s, group) = s
           /\ s.key \in Int /\ s.key # 0 /\ s.group \in Nat /\ s.size \in Nat
  BY DEF ForgedShare, KeyShares

\* The hello whose key share of the group is forged.
LEMMA WithForgedHello ==
    ASSUME NEW hello \in Hellos, NEW group
    PROVE  /\ WithForged(hello, group) \in Hellos
           /\ WithForged(hello, group).groups = hello.groups
           /\ WithForged(hello, group).shares = ForgedShares(hello.shares, group)
           /\ WithForged(hello, group).order = hello.order
           /\ WithForged(hello, group).sid = hello.sid
<1>1. PICK ss \in Seq(KeyShares) : ss = hello.shares
  BY HelloFields
<1>2. PICK n \in Nat : n = Len(ss) /\ DOMAIN ss = 1 .. n /\ \A k \in 1 .. n : ss[k] \in KeyShares
  OBVIOUS
<1> DEFINE fs == ForgedShares(ss, group)
           h == WithForged(hello, group)
<1>3. \A k \in 1 .. n : ForgedShare(ss[k], group) \in KeyShares
                        /\ ForgedShare(ss[k], group).group = ss[k].group
  BY <1>2, ForgedShareFields
<1>4. fs = [k \in 1 .. n |-> ForgedShare(ss[k], group)]
  BY <1>2, Zenon DEF ForgedShares
<1>5. fs \in Seq(KeyShares) /\ DOMAIN fs = 1 .. n /\ \A k \in 1 .. n : fs[k].group = ss[k].group
  BY <1>3, <1>4
<1>6. h = [hello EXCEPT !.shares = fs]
  BY <1>1, Zenon DEF WithForged, ForgedShares, ForgedShare
<1>7. hello \in [groups : Seq(Nat), shares : Seq(KeyShares),
                 order : Seq({0, TLS_SUPPORTED_GROUPS, TLS_KEY_SHARE}), sid : Nat]
  BY DEF Hellos
<1> HIDE DEF fs, h
<1>8. h.groups = hello.groups /\ h.shares = fs /\ h.order = hello.order /\ h.sid = hello.sid
      /\ h = [hello EXCEPT !.groups = hello.groups, !.shares = fs]
  BY <1>6, <1>7
<1>9. \A j, k \in DOMAIN ss : ss[j].group = ss[k].group => j = k
  BY <1>1 DEF Hellos
<1>10. OneEach(fs)
  BY <1>2, <1>5, <1>9 DEF OneEach
<1>11. hello.groups \in Seq(Nat)
  BY HelloFields
<1>12. h \in Hellos
  <2>1. PICK gs \in Seq(Nat) : gs = hello.groups
    BY <1>11
  <2>2. fs \in Seq(KeyShares)
    BY <1>5
  <2>3. [hello EXCEPT !.groups = gs, !.shares = fs] \in Hellos
    BY <2>2, <1>10, HelloRecord
  <2> QED BY <2>1, <2>3, <1>8, Zenon
<1> QED BY <1>1, <1>8, <1>12 DEF fs, h

\* Inverting the post-quantum key changes that part of the share's value.
Inverts(b, c, size) ==
    b \in Buffers /\ c \in Buffers /\ c = Negated(b) /\ Size(b) = size /\ Size(c) = size
    /\ b[1] # c[1] /\ Len(b) = 1 /\ Len(c) = 1

\* Inverting a number that is not zero changes it.
LEMMA NumInverts ==
    ASSUME NEW name \in FieldNames, NEW size \in Nat \ {0}, NEW key \in Int, key # 0
    PROVE  Inverts(Num(name, size, key), Num(name, size, 0 - key), size)
<1>1. PICK inv \in Int : inv = 0 - key /\ inv # key
  OBVIOUS
<1>2. IsNum(Num(name, size, key), size, key) /\ IsNum(Num(name, size, inv), size, inv)
  BY NumIs
<1>3. Num(name, size, inv) = Negated(Num(name, size, key))
  BY <1>1, NumNegated
<1>4. PICK b, c : b = Num(name, size, key) /\ c = Num(name, size, inv)
  OBVIOUS
<1>5. b[1].value = <<key>> /\ c[1].value = <<inv>>
  BY <1>2, <1>4 DEF IsNum
<1>6. <<key>> # <<inv>>
  BY <1>1
<1>7. b[1] # c[1]
  BY <1>5, <1>6, Zenon
<1>8. Inverts(b, c, size)
  BY <1>2, <1>3, <1>4, <1>7 DEF Inverts, IsNum
<1> QED BY <1>1, <1>4, <1>8

\* The value of a hybrid share and of the forged one differ in the post-quantum
\* key.
LEMMA ForgedValue ==
    ASSUME NEW s \in KeyShares, Hybrid(s)
    PROVE  \E b, c \in Buffers :
              /\ Inverts(b, c, PQ_COMPONENTS[s.group].length)
              /\ Framed(ShareValue(s), ShareValue(ForgedShare(s, s.group)),
                        PQ_COMPONENTS[s.group].offset, b, c)
<1>1. PICK f \in KeyShares : /\ f = ForgedShare(s, s.group) /\ f.group = s.group
                             /\ f.size = s.size /\ f.key = 0 - s.key
  BY ForgedShareFields
<1>2. s.key \in Int /\ s.key # 0 /\ f.key \in Int
  BY <1>1, ForgedShareFields
<1>3. Hybrid(f)
  BY <1>1 DEF Hybrid
<1>4. PICK x, b, y \in Buffers : PqParts(s, s.key, x, b, y)
  BY <1>2, HybridValue
<1>5. PICK u, c, v \in Buffers : PqParts(f, f.key, u, c, v)
  BY <1>2, <1>3, HybridValue
<1>6. u = x /\ v = y /\ Size(x) = PQ_COMPONENTS[s.group].offset
  BY <1>1, <1>4, <1>5, Zenon DEF PqParts
<1>7. ShareValue(s) = x \o b \o y
  BY <1>4, Zenon DEF ShareValue, PqParts
<1>8. ShareValue(f) = u \o c \o v
  BY <1>3, <1>5, Zenon DEF ShareValue, PqParts
<1>9. SameAround(ShareValue(s), ShareValue(f), PQ_COMPONENTS[s.group].offset, b, c, x, y)
  BY <1>6, <1>7, <1>8, Zenon DEF SameAround
<1>10. Framed(ShareValue(s), ShareValue(f), PQ_COMPONENTS[s.group].offset, b, c)
  BY <1>9, Zenon DEF Framed
<1>11. Inverts(b, c, PQ_COMPONENTS[s.group].length)
  <2>1. PICK l \in Nat \ {0} : l = PQ_COMPONENTS[s.group].length
    BY PqComponents DEF Hybrid
  <2>2. PICK key \in Int : key = s.key /\ key # 0
    BY <1>2
  <2>3. b = Num("pq", l, key) /\ c = Num("pq", l, 0 - key)
    BY <2>1, <2>2, <1>1, <1>4, <1>5, Zenon DEF PqParts
  <2>4. Inverts(Num("pq", l, key), Num("pq", l, 0 - key), l)
    BY <2>2, Names, NumInverts, Zenon
  <2> QED BY <2>1, <2>3, <2>4, Zenon
<1> QED BY <1>1, <1>10, <1>11, Zenon

\* The key shares of a hello and of the forged one differ in that share.
LEMMA ForgedSharesFramed ==
    ASSUME NEW ss \in Seq(KeyShares), OneEach(ss), NEW i \in 1 .. Len(ss), Hybrid(ss[i])
    PROVE  \E b, c \in Buffers :
              /\ Inverts(b, c, PQ_COMPONENTS[ss[i].group].length)
              /\ Framed(Flat(ShareEntries(ss)), Flat(ShareEntries(ForgedShares(ss, ss[i].group))),
                        Offs(ShareEntries(ss))[i] + (4 + PQ_COMPONENTS[ss[i].group].offset), b, c)
<1>1. PICK n \in Nat : n = Len(ss) /\ DOMAIN ss = 1 .. n /\ i \in 1 .. n
                       /\ \A k \in 1 .. n : ss[k] \in KeyShares
  OBVIOUS
<1>2. PICK s \in KeyShares : s = ss[i]
  BY <1>1
<1>3. PICK fs : fs = ForgedShares(ss, s.group)
  OBVIOUS
<1>4. fs \in Seq(KeyShares) /\ Len(fs) = n /\ fs[i] = ForgedShare(s, s.group)
      /\ \A k \in 1 .. n : k # i => fs[k] = ss[k]
  <2>1. fs = [k \in 1 .. n |-> ForgedShare(ss[k], s.group)]
    BY <1>1, <1>3, Zenon DEF ForgedShares
  <2>2. \A k \in 1 .. n : ForgedShare(ss[k], s.group) \in KeyShares
    BY <1>1, ForgedShareFields
  <2>3. \A k \in 1 .. n : k # i => ss[k].group # s.group
    BY <1>1, <1>2 DEF OneEach
  <2>4. \A k \in 1 .. n : k # i => ForgedShare(ss[k], s.group) = ss[k]
    BY <2>3, <1>1, ForgedShareFields
  <2>5. fs \in Seq(KeyShares) /\ Len(fs) = n /\ \A k \in 1 .. n : fs[k] = ForgedShare(ss[k], s.group)
    BY <2>1, <2>2
  <2> QED BY <2>4, <2>5, <1>1, <1>2
<1>5. PICK o \in Nat : o = PQ_COMPONENTS[s.group].offset
  BY <1>2, PqComponents DEF Hybrid
<1>6. PICK b, c \in Buffers :
              /\ Inverts(b, c, PQ_COMPONENTS[s.group].length)
              /\ Framed(ShareValue(s), ShareValue(fs[i]), o, b, c)
  BY <1>2, <1>4, <1>5, ForgedValue
<1>7. PICK ws \in Seq(Buffers) : ws = ShareEntries(ss)
  BY SharesTyped
<1>8. PICK vs \in Seq(Buffers) : vs = ShareEntries(fs)
  BY <1>4, SharesTyped
<1>9. /\ Len(ws) = n /\ Len(vs) = n
      /\ \A k \in 1 .. n : ws[k] = ShareEntry(ss[k])
      /\ \A k \in 1 .. n : vs[k] = ShareEntry(fs[k])
  BY <1>1, <1>4, <1>7, <1>8, SharesTyped
<1>10. DifferAt(ws, vs, i)
  BY <1>1, <1>4, <1>9 DEF DifferAt
<1>11. Framed(ws[i], vs[i], 4 + o, b, c)
  <2>1. PICK g \in Int : g = s.group /\ g = fs[i].group
    BY <1>2, <1>4, ForgedShareFields
  <2>2. Size(b) = Size(c)
    BY <1>6 DEF Inverts
  <2>3. Framed(Typed("share group", g, ShareValue(s)), Typed("share group", g, ShareValue(fs[i])),
               4 + o, b, c)
    BY <2>2, <1>6, Names, FramedTyped, Zenon
  <2>4. ws[i] = Typed("share group", g, ShareValue(s))
        /\ vs[i] = Typed("share group", g, ShareValue(fs[i]))
    BY <2>1, <1>1, <1>2, <1>9, Zenon DEF ShareEntry
  <2> QED BY <2>3, <2>4, Zenon
<1>12. Framed(Flat(ws), Flat(vs), Offs(ws)[i] + (4 + o), b, c)
  <2>1. PICK off : off = 4 + o
    OBVIOUS
  <2>2. Framed(Flat(ws), Flat(vs), Offs(ws)[i] + off, b, c)
    BY <2>1, <1>10, <1>11, FramedFlat
  <2> QED BY <2>1, <2>2
<1> QED BY <1>2, <1>3, <1>5, <1>6, <1>7, <1>8, <1>12, Zenon

\* Where the key share at position i of extension j has its post-quantum key.
PqOffset(hello, j, i) ==
    HelloEntries(hello)[j].from + 2 + Offs(ShareEntries(hello.shares))[i] + 4
    + PQ_COMPONENTS[hello.shares[i].group].offset

\* So do the records of the two hellos, where the post-quantum key is.
LEMMA ForgedHello ==
    ASSUME NEW hello \in Hellos, NEW tail \in Buffers, NEW i \in 1 .. Len(hello.shares),
           Hybrid(hello.shares[i]), NEW j \in 1 .. Len(hello.order), hello.order[j] = TLS_KEY_SHARE
    PROVE  \E b, c \in Buffers :
              /\ Inverts(b, c, PQ_COMPONENTS[hello.shares[i].group].length)
              /\ Framed(EncodeClientHello(hello) \o tail,
                        EncodeClientHello(WithForged(hello, hello.shares[i].group)) \o tail,
                        PqOffset(hello, j, i), b, c)
<1>1. PICK ss \in Seq(KeyShares) : ss = hello.shares
  BY HelloFields
<1>2. OneEach(ss)
  BY <1>1 DEF Hellos, OneEach
<1>3. PICK g : g = ss[i].group
  OBVIOUS
<1>4. PICK f \in Hellos : /\ f = WithForged(hello, g) /\ f.groups = hello.groups
                          /\ f.shares = ForgedShares(ss, g) /\ f.order = hello.order
                          /\ f.sid = hello.sid
  BY <1>1, WithForgedHello
<1>5. PICK o \in Nat : o = PQ_COMPONENTS[g].offset
  BY <1>1, <1>3, PqComponents DEF Hybrid
<1>6. PICK y \in Nat : y = Offs(ShareEntries(ss))[i]
  <2>1. PICK ws \in Seq(Buffers) : ws = ShareEntries(ss) /\ Len(ws) = Len(ss)
    BY SharesTyped
  <2>2. i \in 1 .. Len(ws) + 1
    BY <2>1, <1>1
  <2> QED BY <2>1, <2>2, OffsOfParts
<1>7. PICK b, c \in Buffers :
        /\ Inverts(b, c, PQ_COMPONENTS[g].length)
        /\ Framed(Flat(ShareEntries(ss)), Flat(ShareEntries(f.shares)), y + (4 + o), b, c)
  <2>1. i \in 1 .. Len(ss) /\ Hybrid(ss[i])
    BY <1>1
  <2>2. \E b, c \in Buffers :
              /\ Inverts(b, c, PQ_COMPONENTS[ss[i].group].length)
              /\ Framed(Flat(ShareEntries(ss)), Flat(ShareEntries(ForgedShares(ss, ss[i].group))),
                        Offs(ShareEntries(ss))[i] + (4 + PQ_COMPONENTS[ss[i].group].offset), b, c)
    BY <2>1, <1>2, ForgedSharesFramed
  <2> QED BY <2>2, <1>3, <1>4, <1>5, <1>6, Zenon
<1>8. Size(b) = Size(c)
  BY <1>7 DEF Inverts
<1>9. PICK o1 \in Nat : o1 = y + (4 + o)
  OBVIOUS
<1>10. PICK o2 \in Nat : o2 = 2 + o1
  OBVIOUS
<1>11. Framed(ExtensionPayload(hello, TLS_KEY_SHARE), ExtensionPayload(f, TLS_KEY_SHARE), o2, b, c)
  <2>1. Framed(Flat(ShareEntries(ss)), Flat(ShareEntries(f.shares)), o1, b, c)
    BY <1>7, <1>9
  <2>2. Framed(Vector("shares length", Flat(ShareEntries(ss))),
               Vector("shares length", Flat(ShareEntries(f.shares))), 2 + o1, b, c)
    BY <2>1, <1>8, Names, FramedVector, Zenon
  <2> QED BY <2>2, <1>1, <1>10, PayloadOfType, Zenon
<1>12. PICK ws \in Seq(Buffers) : ws = HelloExts(hello)
  BY ExtsTyped
<1>13. PICK vs \in Seq(Buffers) : vs = HelloExts(f)
  BY ExtsTyped
<1>14. PICK n \in Nat : n = Len(hello.order)
  BY HelloFields
<1>15. /\ Len(ws) = n /\ Len(vs) = n /\ j \in 1 .. n
       /\ \A k \in 1 .. n : ws[k] = Extension(hello.order[k], ExtensionPayload(hello, hello.order[k]))
       /\ \A k \in 1 .. n : vs[k] = Extension(hello.order[k], ExtensionPayload(f, hello.order[k]))
  BY <1>4, <1>12, <1>13, <1>14, ExtsTyped, ZenonT(60)
<1>16. \A k \in 1 .. n : k # j => vs[k] = ws[k]
  <2> SUFFICES ASSUME NEW k \in 1 .. n, k # j PROVE vs[k] = ws[k]
    OBVIOUS
  <2>1. hello.order[k] # TLS_KEY_SHARE
    <3>1. \A p, q \in DOMAIN hello.order :
             hello.order[p] = hello.order[q] /\ hello.order[p] # 0 => p = q
      BY DEF Hellos
    <3>2. DOMAIN hello.order = 1 .. n
      BY <1>14, HelloFields
    <3> QED BY <3>1, <3>2, <1>15, HelloTypes
  <2>2. CASE hello.order[k] = TLS_SUPPORTED_GROUPS
    <3>1. ExtensionPayload(f, hello.order[k]) = ExtensionPayload(hello, hello.order[k])
      BY <2>2, <1>4, PayloadOfType, Zenon
    <3> QED BY <3>1, <1>15
  <2>3. CASE hello.order[k] # TLS_SUPPORTED_GROUPS
    <3>1. ExtensionPayload(f, hello.order[k]) = ExtensionPayload(hello, hello.order[k])
      BY <2>1, <2>3, PayloadOfType, Zenon
    <3> QED BY <3>1, <1>15
  <2> QED BY <2>2, <2>3
<1>17. DifferAt(ws, vs, j)
  BY <1>15, <1>16 DEF DifferAt
<1>18. PICK o3 \in Nat : o3 = 4 + o2
  OBVIOUS
<1>19. Framed(ws[j], vs[j], o3, b, c)
  <2>1. PICK t \in Int : t = TLS_KEY_SHARE
    BY DEF TLS_KEY_SHARE
  <2>2. Framed(Typed("extension type", t, ExtensionPayload(hello, t)),
               Typed("extension type", t, ExtensionPayload(f, t)), 4 + o2, b, c)
    BY <2>1, <1>8, <1>11, Names, FramedTyped, Zenon
  <2>3. ws[j] = Typed("extension type", t, ExtensionPayload(hello, t))
        /\ vs[j] = Typed("extension type", t, ExtensionPayload(f, t))
    BY <2>1, <1>15, Zenon DEF Extension
  <2> QED BY <2>2, <2>3, <1>18, Zenon
<1>20. PICK x \in Nat : x = Offs(ws)[j]
  <2>1. Offs(ws) \in [1 .. Len(ws) + 1 -> Nat]
    BY OffsOfParts
  <2>2. j \in 1 .. Len(ws) + 1
    BY <1>15
  <2> QED BY <2>1, <2>2
<1>21. PICK o4 \in Nat : o4 = x + o3
  OBVIOUS
<1>22. Framed(Flat(ws), Flat(vs), o4, b, c)
  BY <1>17, <1>19, <1>20, <1>21, FramedFlat
<1>23. PICK o5 \in Nat : o5 = 2 + o4
  OBVIOUS
<1>24. Framed(Vector("extensions length", Flat(ws)), Vector("extensions length", Flat(vs)), o5, b, c)
  BY <1>8, <1>22, <1>23, Names, FramedVector, Zenon
<1>25. PICK h \in Buffers : h = HelloHead(hello.sid) /\ Size(h) = 45 + hello.sid
  BY HelloBuffer
<1>26. PICK sid \in Nat : sid = hello.sid
  BY HelloFields
<1>27. PICK o6 \in Nat : o6 = 45 + sid + o5
  OBVIOUS
<1>28. Framed(HelloBody(hello), HelloBody(f), o6, b, c)
  <2>1. Framed(h \o Vector("extensions length", Flat(ws)), h \o Vector("extensions length", Flat(vs)),
               Size(h) + o5, b, c)
    BY <1>24, FramedLeft
  <2>2. Size(h) + o5 = o6
    BY <1>25, <1>26, <1>27
  <2> QED BY <2>1, <2>2, <1>4, <1>12, <1>13, <1>25, Zenon DEF HelloBody
<1>29. PICK o7 \in Nat : o7 = 9 + o6
  OBVIOUS
<1>30. Framed(EncodeClientHello(hello), EncodeClientHello(f), o7, b, c)
  <2>1. PICK t \in Int : t = TLS_CLIENT_HELLO
    BY DEF TLS_CLIENT_HELLO
  <2>2. Framed(Record(t, HelloBody(hello)), Record(t, HelloBody(f)), 9 + o6, b, c)
    BY <1>8, <1>28, FramedRecord
  <2> QED BY <2>1, <2>2, <1>29, HelloBuffer, Zenon
<1>31. Framed(EncodeClientHello(hello) \o tail, EncodeClientHello(f) \o tail, o7, b, c)
  BY <1>30, FramedRight
<1>32. PqOffset(hello, j, i) = o7
  <2>1. HelloEntries(hello)[j] = Entry(ws, hello.order, ExtsStart(hello), j)
    BY <1>12, <1>14, <1>15, Zenon DEF HelloEntries, EntriesOf
  <2>2. HelloEntries(hello)[j].from = ExtsStart(hello) + x + 4
    BY <2>1, <1>20 DEF Entry
  <2>3. ExtsStart(hello) = 56 + sid
    BY <1>26 DEF ExtsStart
  <2>4. PqOffset(hello, j, i) = HelloEntries(hello)[j].from + 2 + y + 4 + o
    BY <1>1, <1>3, <1>5, <1>6 DEF PqOffset
  <2>5. PqOffset(hello, j, i) = (56 + sid) + x + 4 + 2 + y + 4 + o
    BY <2>2, <2>3, <2>4
  <2> QED BY <2>5, <1>9, <1>10, <1>18, <1>21, <1>23, <1>27, <1>29
<1> QED BY <1>1, <1>3, <1>4, <1>7, <1>31, <1>32, Zenon

\* The extension of a type that a hello carries at position j is the only one.
LEMMA OfTypeAt ==
    ASSUME NEW hello \in Hellos, NEW w \in Buffers, Has(w, 0, EncodeClientHello(hello)),
           NEW j \in 1 .. Len(hello.order), hello.order[j] # 0
    PROVE  OfType(HelloEntries(hello), hello.order[j]) = <<HelloEntries(hello)[j]>>
<1>1. PICK exts : exts = HelloEntries(hello)
  OBVIOUS
<1>2. PICK n \in Nat : n = Len(hello.order) /\ DOMAIN exts = 1 .. n /\ DOMAIN hello.order = 1 .. n
                       /\ Len(exts) = n
  <2>1. Len(hello.order) \in Nat /\ DOMAIN hello.order = 1 .. Len(hello.order)
    BY HelloFields
  <2> QED BY <2>1, <1>1 DEF HelloEntries, EntriesOf
<1>3. \A k \in 1 .. n : exts[k].type = hello.order[k]
  BY <1>1, <1>2, EntryCarries
<1>4. \A i, k \in 1 .. n : hello.order[i] = hello.order[k] /\ hello.order[i] # 0 => i = k
  BY <1>2 DEF Hellos
<1>5. \A k \in 1 .. n : exts[k].type = hello.order[j] <=> k = j
  BY <1>2, <1>3, <1>4
<1>6. OnlyAt(exts, n, hello.order[j], j)
  BY <1>2, <1>5 DEF OnlyAt
<1> QED BY <1>1, <1>6, OfTypeOne

\* _find_key_share returns the entries of the one key_share extension.
LEMMA FindKeyShareAt ==
    ASSUME NEW hello \in Hellos, NEW w \in Buffers, Has(w, 0, EncodeClientHello(hello)),
           NEW j \in 1 .. Len(hello.order), hello.order[j] = TLS_KEY_SHARE
    PROVE  /\ FindKeyShare(w) = Returned(SharedEntries(hello, HelloEntries(hello)[j].from + 2))
           /\ HelloEntries(hello)[j].from \in Nat
<1>1. PICK exts : exts = HelloEntries(hello)
  OBVIOUS
<1> DEFINE shares == OfType(exts, TLS_KEY_SHARE)
<1>2. Extensions(w).ok /\ Extensions(w).value = exts
  BY <1>1, HelloExtensions DEF Returned
<1>3. PICK e : e = HelloEntries(hello)[j]
  OBVIOUS
<1>4. shares = <<e>>
  BY <1>1, <1>3, OfTypeAt, HelloTypes, Zenon
<1>5. Carries(w, e, Vector("shares length", Flat(ShareEntries(hello.shares))))
  <2>1. Carries(w, e, ExtensionPayload(hello, hello.order[j]))
    BY <1>3, EntryCarries
  <2> QED BY <2>1, PayloadOfType
<1>6. hello.shares \in Seq(KeyShares)
  BY HelloFields
<1>7. /\ ~SharesMalformed(w, e)
      /\ Entries(w, e) = EntriesOf(ShareEntries(hello.shares), ShareGroups(hello.shares),
                                   e.from + 2, Len(hello.shares))
      /\ e.from \in Nat
  BY <1>5, <1>6, Names, SharesRead, Zenon
<1>8. Entries(w, e) = SharedEntries(hello, e.from + 2)
  BY <1>7, Zenon DEF SharedEntries
<1> HIDE DEF shares
<1>9. DOMAIN shares = {1} /\ shares[1] = e
  BY <1>4
<1>10. ~ \E k \in DOMAIN shares : SharesMalformed(w, shares[k])
  BY <1>7, <1>9, Zenon
<1>11. PICK x : x = Entries(w, e)
  OBVIOUS
<1>12. [k \in DOMAIN shares |-> Entries(w, shares[k])] = <<x>>
  <2>1. \A k \in {1} : Entries(w, shares[k]) = x
    BY <1>9, <1>11, Zenon
  <2>2. [k \in DOMAIN shares |-> Entries(w, shares[k])] = [k \in {1} |-> x]
    BY <1>9, <2>1, Zenon
  <2>3. [k \in {1} |-> x] = <<x>>
    OBVIOUS
  <2> QED BY <2>2, <2>3
<1>13. Flat([k \in DOMAIN shares |-> Entries(w, shares[k])]) = x
  BY <1>12, FlatOne, Zenon
<1>14. FindKeyShare(w) = Returned(x)
  BY <1>2, <1>10, <1>13, Zenon DEF FindKeyShare, Then, shares
<1> QED BY <1>3, <1>7, <1>8, <1>11, <1>14, Zenon

\* Without the extension it returns no entries.
LEMMA FindKeyShareNone ==
    ASSUME NEW hello \in Hellos, NEW w \in Buffers, Has(w, 0, EncodeClientHello(hello)),
           TLS_KEY_SHARE \notin ToSet(hello.order)
    PROVE  FindKeyShare(w) = Returned(<<>>)
<1>1. PICK exts : exts = HelloEntries(hello)
  OBVIOUS
<1> DEFINE shares == OfType(exts, TLS_KEY_SHARE)
<1>2. Extensions(w).ok /\ Extensions(w).value = exts
  BY <1>1, HelloExtensions DEF Returned
<1>3. shares = <<>>
  BY <1>1, HelloShares, Zenon
<1> HIDE DEF shares
<1>4. [k \in DOMAIN shares |-> Entries(w, shares[k])] = <<>>
  BY <1>3
<1>5. ~ \E k \in DOMAIN shares : SharesMalformed(w, shares[k])
  BY <1>3
<1> QED BY <1>2, <1>4, <1>5, FlatNone, Zenon DEF FindKeyShare, Then, shares

\* Among the entries of the key shares, the one of a group.
LEMMA ShareOfGroup ==
    ASSUME NEW hello \in Hellos, NEW cursor \in Nat
    PROVE  /\ \A i \in 1 .. Len(hello.shares) :
                 /\ OfType(SharedEntries(hello, cursor), hello.shares[i].group)
                       = <<SharedEntries(hello, cursor)[i]>>
                 /\ SharedEntries(hello, cursor)[i].from
                       = cursor + Offs(ShareEntries(hello.shares))[i] + 4
                 /\ SharedEntries(hello, cursor)[i].to - SharedEntries(hello, cursor)[i].from
                       = hello.shares[i].size
                 /\ Offs(ShareEntries(hello.shares))[i] \in Nat
           /\ \A group : (\A i \in 1 .. Len(hello.shares) : hello.shares[i].group # group)
                 => OfType(SharedEntries(hello, cursor), group) = <<>>
<1>1. PICK ss \in Seq(KeyShares) : ss = hello.shares
  BY HelloFields
<1>2. PICK n \in Nat : n = Len(ss) /\ DOMAIN ss = 1 .. n
  OBVIOUS
<1>3. PICK ws \in Seq(Buffers) : ws = ShareEntries(ss) /\ Len(ws) = n
  BY <1>2, SharesTyped
<1>4. PICK entries : entries = SharedEntries(hello, cursor)
  OBVIOUS
<1>5. entries = [k \in 1 .. n |-> Entry(ws, ShareGroups(ss), cursor, k)]
  BY <1>1, <1>2, <1>3, <1>4, Zenon DEF SharedEntries, EntriesOf
<1>6. DOMAIN entries = 1 .. n /\ Len(entries) = n
  BY <1>5
<1>7. ASSUME NEW k \in 1 .. n
      PROVE  /\ entries[k].type = ss[k].group
             /\ entries[k].from = cursor + Offs(ws)[k] + 4
             /\ entries[k].to - entries[k].from = ss[k].size
             /\ Offs(ws)[k] \in Nat
  <2>1. entries[k] = Entry(ws, ShareGroups(ss), cursor, k)
    BY <1>5
  <2>2. ShareGroups(ss)[k] = ss[k].group
    BY <1>2 DEF ShareGroups
  <2>3. PICK x \in Nat : x = Offs(ws)[k]
    <3>1. Offs(ws) \in [1 .. Len(ws) + 1 -> Nat]
      BY OffsOfParts
    <3>2. k \in 1 .. Len(ws) + 1
      BY <1>3
    <3> QED BY <3>1, <3>2
  <2>4. ss[k] \in KeyShares
    BY <1>2
  <2>5. PICK v \in Buffers : v = ShareValue(ss[k]) /\ Size(v) = ss[k].size
    BY <2>4, ShareValueBuffer
  <2>6. PICK g \in Int : g = ss[k].group
    BY <2>4 DEF KeyShares
  <2>7. PICK z \in Nat : z = ss[k].size
    BY <2>4 DEF KeyShares
  <2>8. Size(ws[k]) = 4 + z
    <3>1. ws[k] = ShareEntry(ss[k])
      BY <1>2, <1>3 DEF ShareEntries
    <3>2. ws[k] = Typed("share group", g, v)
      BY <3>1, <2>5, <2>6, Zenon DEF ShareEntry
    <3>3. Size(ws[k]) = 4 + Size(v)
      <4>1. PICK name \in FieldNames : name = "share group"
        BY Names, Zenon
      <4>2. Size(Typed(name, g, v)) = 4 + Size(v)
        BY TypedBuffer
      <4> QED BY <3>2, <4>1, <4>2, Zenon
    <3> QED BY <3>3, <2>5, <2>7
  <2>9. Offs(ws)[k + 1] = x + (4 + z)
    <3>1. k \in 1 .. Len(ws)
      BY <1>3
    <3>2. Offs(ws)[k + 1] = Offs(ws)[k] + Size(ws[k])
      BY <3>1, OffsOfParts
    <3> QED BY <3>2, <2>3, <2>8
  <2>10. entries[k].type = ShareGroups(ss)[k] /\ entries[k].from = cursor + x + 4
         /\ entries[k].to = cursor + (x + (4 + z))
    BY <2>1, <2>3, <2>9 DEF Entry
  <2>11. entries[k].to - entries[k].from = z
    BY <2>10
  <2> QED BY <2>2, <2>3, <2>7, <2>10, <2>11
<1>8. ASSUME NEW i \in 1 .. n
      PROVE  OfType(entries, ss[i].group) = <<entries[i]>>
  <2>1. \A k \in 1 .. n : ss[k].group = ss[i].group => k = i
    BY <1>1, <1>2 DEF Hellos
  <2>2. \A k \in 1 .. n : entries[k].type = ss[i].group <=> k = i
    BY <2>1, <1>7
  <2>3. OnlyAt(entries, n, ss[i].group, i)
    BY <1>6, <2>2 DEF OnlyAt
  <2> QED BY <2>3, OfTypeOne
<1>9. ASSUME NEW group, \A i \in 1 .. n : ss[i].group # group
      PROVE  OfType(entries, group) = <<>>
  <2>1. \A k \in 1 .. n : entries[k].type # group
    BY <1>7, <1>9
  <2> QED BY <2>1, <1>6, OfTypeNone
<1> QED BY <1>1, <1>2, <1>3, <1>4, <1>7, <1>8, <1>9

\* Two buffers that differ in one inverted field are not the same.
LEMMA FramedDiffer ==
    ASSUME NEW b \in Buffers, NEW c \in Buffers, NEW size, Inverts(b, c, size),
           NEW w, NEW v, NEW off, Framed(w, v, off, b, c)
    PROVE  w # v
<1>1. PICK x, y \in Buffers : SameAround(w, v, off, b, c, x, y)
  BY DEF Framed
<1>2. w = x \o b \o y /\ v = x \o c \o y
  BY <1>1 DEF SameAround
<1>3. Len(b) = 1 /\ Len(c) = 1 /\ b[1] # c[1]
  BY DEF Inverts
<1>4. PICK n \in Nat : n = Len(x)
  BY StartsOfBuffer
<1>5. (x \o b)[n + 1] = b[1] /\ Len(x \o b) = n + 1 /\ x \o b \in Buffers
  <2>1. /\ x \o b \in Buffers /\ Len(x \o b) = Len(x) + Len(b)
        /\ \A i \in 1 .. Len(b) : (x \o b)[Len(x) + i] = b[i]
    BY ConcatOfBuffers
  <2> QED BY <2>1, <1>3, <1>4
<1>6. (x \o c)[n + 1] = c[1] /\ Len(x \o c) = n + 1 /\ x \o c \in Buffers
  <2>1. /\ x \o c \in Buffers /\ Len(x \o c) = Len(x) + Len(c)
        /\ \A i \in 1 .. Len(c) : (x \o c)[Len(x) + i] = c[i]
    BY ConcatOfBuffers
  <2> QED BY <2>1, <1>3, <1>4
<1>7. w[n + 1] = b[1]
  BY <1>2, <1>4, <1>5, ConcatOfBuffers
<1>8. v[n + 1] = c[1]
  BY <1>2, <1>4, <1>6, ConcatOfBuffers
<1> QED BY <1>3, <1>7, <1>8

\* The hybrid's key share a hello offers.
Offers(hello, group) == \E s \in ToSet(Shared(hello)) : s.group = group /\ Hybrid(s)

\* forge_pq_component inverts the post-quantum key and nothing else, and
\* refuses a hello without a full-length share of the group.
LEMMA ForgePqResult ==
    ASSUME NEW hello \in Hellos, NEW group \in DOMAIN PQ_COMPONENTS, NEW tail \in Buffers
    PROVE  LET w == EncodeClientHello(hello) \o tail
           IN  /\ Offers(hello, group) =>
                     /\ ForgePqComponent(w, group)
                          = Returned(EncodeClientHello(WithForged(hello, group)) \o tail)
                     /\ w # EncodeClientHello(WithForged(hello, group)) \o tail
               /\ ~Offers(hello, group) => ForgePqComponent(w, group) = Raised
<1>1. PICK w \in Buffers : w = EncodeClientHello(hello) \o tail /\ Has(w, 0, EncodeClientHello(hello))
  BY HelloBuffer, FollowedBy
<1>2. PICK pq : pq = PQ_COMPONENTS[group]
  OBVIOUS
<1>3. pq.offset \in Nat /\ pq.length \in Nat
  BY <1>2, PqComponents
<1>4. PICK ss \in Seq(KeyShares) : ss = hello.shares
  BY HelloFields
<1>5. DOMAIN ss = 1 .. Len(ss) /\ Len(ss) \in Nat
  OBVIOUS
<1>6. DOMAIN hello.order = 1 .. Len(hello.order)
  BY HelloFields
<1>7. CASE TLS_KEY_SHARE \notin ToSet(hello.order)
  <2>1. FindKeyShare(w) = Returned(<<>>)
    BY <1>1, <1>7, FindKeyShareNone
  <2>2. FindKeyShare(w).ok /\ FindKeyShare(w).value = <<>>
    BY <2>1 DEF Returned
  <2>3. OfType(<<>>, group) = <<>>
    <3>1. PICK exts : exts = <<>>
      OBVIOUS
    <3>2. 0 \in Nat /\ Len(exts) = 0 /\ DOMAIN exts = 1 .. 0 /\ \A k \in 1 .. 0 : exts[k].type # group
      BY <3>1
    <3> QED BY <3>1, <3>2, OfTypeNone
  <2>4. ForgePqComponent(w, group) = Raised
    BY <2>2, <2>3, Zenon DEF ForgePqComponent, Then
  <2>5. ~Offers(hello, group)
    <3>1. Shared(hello) = <<>>
      BY <1>7 DEF Shared
    <3>2. ToSet(Shared(hello)) = {}
      BY <3>1 DEF ToSet
    <3> QED BY <3>2 DEF Offers
  <2> QED BY <2>4, <2>5, <1>1
<1>8. CASE TLS_KEY_SHARE \in ToSet(hello.order)
  <2>1. PICK j \in 1 .. Len(hello.order) : hello.order[j] = TLS_KEY_SHARE
    BY <1>6, <1>8 DEF ToSet
  <2>2. PICK cursor \in Nat : cursor = HelloEntries(hello)[j].from + 2
    BY <1>1, <2>1, FindKeyShareAt
  <2>3. PICK entries : entries = SharedEntries(hello, cursor)
    OBVIOUS
  <2>4. FindKeyShare(w).ok /\ FindKeyShare(w).value = entries
    <3>1. FindKeyShare(w) = Returned(entries)
      BY <1>1, <2>1, <2>2, <2>3, FindKeyShareAt
    <3> QED BY <3>1 DEF Returned
  <2>5. Shared(hello) = ss
    BY <1>4, <1>8 DEF Shared
  <2>6. Offers(hello, group) <=> \E i \in 1 .. Len(ss) : ss[i].group = group /\ Hybrid(ss[i])
    <3>1. ToSet(Shared(hello)) = {ss[i] : i \in 1 .. Len(ss)}
      BY <1>5, <2>5, Zenon DEF ToSet
    <3> QED BY <3>1, Zenon DEF Offers
  <2>7. CASE \A i \in 1 .. Len(ss) : ss[i].group # group
    <3>1. OfType(entries, group) = <<>>
      BY <1>4, <2>3, <2>7, ShareOfGroup
    <3>2. ForgePqComponent(w, group) = Raised
      BY <2>4, <3>1, Zenon DEF ForgePqComponent, Then
    <3>3. ~Offers(hello, group)
      BY <2>6, <2>7
    <3> QED BY <3>2, <3>3, <1>1
  <2>8. CASE \E i \in 1 .. Len(ss) : ss[i].group = group
    <3>1. PICK i \in 1 .. Len(ss) : ss[i].group = group
      BY <2>8
    <3>2. PICK e : e = entries[i]
      OBVIOUS
    <3>3. PICK y \in Nat : y = Offs(ShareEntries(ss))[i]
      BY <1>4, ShareOfGroup
    <3>4. OfType(entries, group) = <<e>> /\ e.from = cursor + y + 4 /\ e.to - e.from = ss[i].size
      BY <1>4, <2>3, <3>1, <3>2, <3>3, ShareOfGroup
    <3>5. PICK mine : mine = OfType(entries, group)
      OBVIOUS
    <3>6. mine # <<>> /\ mine[1] = e
      BY <3>4, <3>5
    <3>7. Hybrid(ss[i]) <=> ~(pq.offset + pq.length > e.to - e.from)
      <4>1. PICK z \in Nat : z = ss[i].size
        <5>1. ss[i] \in KeyShares
          BY <1>5
        <5> QED BY <5>1 DEF KeyShares
      <4>2. Hybrid(ss[i]) <=> z >= pq.offset + pq.length
        BY <1>2, <3>1, <4>1, Zenon DEF Hybrid
      <4>3. e.to - e.from = z
        BY <3>4, <4>1
      <4> QED BY <1>3, <4>2, <4>3
    <3>8. CASE ~Hybrid(ss[i])
      <4>1. ForgePqComponent(w, group) = Raised
        BY <1>2, <2>4, <3>5, <3>6, <3>7, <3>8, Zenon DEF ForgePqComponent, Then
      <4>2. \A k \in 1 .. Len(ss) : ss[k].group = group => k = i
        BY <1>4, <1>5, <3>1 DEF Hellos
      <4>3. ~Offers(hello, group)
        BY <2>6, <3>8, <4>2
      <4> QED BY <4>1, <4>3, <1>1
    <3>9. CASE Hybrid(ss[i])
      <4>1. ForgePqComponent(w, group) = Returned(Inverted(w, e.from + pq.offset, pq.length))
        BY <1>2, <2>4, <3>5, <3>6, <3>7, <3>9, Zenon DEF ForgePqComponent, Then
      <4>2. PICK v : v = EncodeClientHello(WithForged(hello, group)) \o tail
        OBVIOUS
      <4>3. PICK off : off = PqOffset(hello, j, i)
        OBVIOUS
      <4>4. PICK b, c \in Buffers : Inverts(b, c, pq.length) /\ Framed(w, v, off, b, c)
        <5>1. \E b, c \in Buffers :
                 /\ Inverts(b, c, PQ_COMPONENTS[hello.shares[i].group].length)
                 /\ Framed(EncodeClientHello(hello) \o tail,
                           EncodeClientHello(WithForged(hello, hello.shares[i].group)) \o tail,
                           PqOffset(hello, j, i), b, c)
          BY <1>4, <2>1, <3>9, ForgedHello
        <5> QED BY <5>1, <1>1, <1>2, <1>4, <3>1, <4>2, <4>3, Zenon
      <4>5. off = e.from + pq.offset
        <5>1. off = HelloEntries(hello)[j].from + 2 + y + 4 + pq.offset
          BY <1>2, <1>4, <3>1, <3>3, <4>3 DEF PqOffset
        <5>2. off = cursor + y + 4 + pq.offset
          BY <5>1, <2>2
        <5> QED BY <5>2, <3>4
      <4>6. c = Negated(b) /\ Size(b) = pq.length
        BY <4>4 DEF Inverts
      <4>7. Inverted(w, off, pq.length) = v
        BY <4>4, <4>6, InvertedOf
      <4>8. w # v
        BY <4>4, FramedDiffer
      <4>9. Offers(hello, group)
        BY <2>6, <3>1, <3>9
      <4> QED BY <4>1, <4>2, <4>5, <4>7, <4>8, <4>9, <1>1
    <3> QED BY <3>8, <3>9
  <2> QED BY <2>7, <2>8
<1> QED BY <1>7, <1>8

-----------------------------------------------------------------------------
\* When strip_hybrid changes something.

\* The hellos strip_hybrid has something to remove from.
Offered(hello, group) ==
    group \in ToSet(Listed(hello)) \/ \E s \in ToSet(Shared(hello)) : s.group = group

\* Leaving out a value a list has makes it shorter, and one it has not leaves it.
LEMMA KeptShorter ==
    ASSUME NEW T, NEW s \in Seq(T), NEW K
    PROVE  /\ (\E k \in DOMAIN s : k \notin K) => Kept(s, K) # s
           /\ (\A k \in DOMAIN s : k \in K) => Kept(s, K) = s
           /\ (\E k \in DOMAIN s : k \notin K) => Len(Kept(s, K)) # Len(s)
           /\ Kept(s, K) \in Seq(T)
<1>1. Len(s) \in Nat /\ DOMAIN s = 1 .. Len(s) /\ Kept(s, K) \in Seq(T)
  BY KeptListed
<1>2. 1 .. Len(s) \subseteq K => Kept(s, K) = s
  BY KeptListed
<1>3. ~(1 .. Len(s) \subseteq K) => Len(Kept(s, K)) < Len(s)
  BY KeptListed
<1>4. Len(Kept(s, K)) \in Nat
  BY <1>1
<1> QED BY <1>1, <1>2, <1>3, <1>4

\* Leaving a group out changes what a hello offers if it offers the group, and no
\* extension if it does not.
LEMMA WithoutGroupOffer ==
    ASSUME NEW hello \in Hellos, NEW group
    PROVE  /\ Offered(hello, group) =>
                 \/ Listed(WithoutGroup(hello, group)) # Listed(hello)
                 \/ GroupsOfShares(WithoutGroup(hello, group)) # GroupsOfShares(hello)
           /\ ~Offered(hello, group) =>
                 \A k \in 1 .. Len(hello.order) :
                    ExtensionPayload(WithoutGroup(hello, group), hello.order[k])
                    = ExtensionPayload(hello, hello.order[k])
<1>1. PICK left \in Hellos : left = WithoutGroup(hello, group)
  BY WithoutGroupHello
<1>2. /\ left.groups = OtherListed(hello, group) /\ left.shares = OtherShared(hello, group)
      /\ left.order = hello.order
  BY <1>1, WithoutGroupHello
<1>3. PICK gs \in Seq(Nat) : gs = hello.groups
  BY HelloFields
<1>4. PICK ss \in Seq(KeyShares) : ss = hello.shares
  BY HelloFields
<1>5. PICK G : G = {k \in DOMAIN gs : gs[k] # group}
  OBVIOUS
<1>6. PICK S : S = {k \in DOMAIN ss : ss[k].group # group}
  OBVIOUS
<1>7. left.groups = Kept(gs, G)
  BY <1>2, <1>3, <1>5, Zenon DEF OtherListed
<1>8. left.shares = Kept(ss, S)
  BY <1>2, <1>4, <1>6, Zenon DEF OtherShared
<1>9. CASE \E k \in DOMAIN gs : gs[k] = group /\ TLS_SUPPORTED_GROUPS \in ToSet(hello.order)
  <2>1. Listed(left) = left.groups /\ Listed(hello) = gs
    BY <1>2, <1>3, <1>9, Zenon DEF Listed
  <2>2. \E k \in DOMAIN gs : k \notin G
    BY <1>5, <1>9
  <2>3. Kept(gs, G) # gs
    BY <2>2, KeptShorter
  <2>4. Listed(left) # Listed(hello)
    BY <2>1, <2>3, <1>7, Zenon
  <2>5. Offered(hello, group)
    BY <1>9, <2>1 DEF Offered, ToSet
  <2> QED BY <2>4, <2>5, <1>1
<1>10. CASE \E k \in DOMAIN ss : ss[k].group = group /\ TLS_KEY_SHARE \in ToSet(hello.order)
  <2>1. Shared(left) = left.shares /\ Shared(hello) = ss
    BY <1>2, <1>4, <1>10, Zenon DEF Shared
  <2>2. \E k \in DOMAIN ss : k \notin S
    BY <1>6, <1>10
  <2>3. PICK ks \in Seq(KeyShares) : ks = Kept(ss, S) /\ Len(ks) # Len(ss)
    BY <2>2, KeptShorter
  <2>4. GroupsOfShares(left) = [k \in DOMAIN ks |-> ks[k].group]
    BY <2>1, <2>3, <1>8, Zenon DEF GroupsOfShares
  <2>5. GroupsOfShares(hello) = [k \in DOMAIN ss |-> ss[k].group]
    BY <2>1, Zenon DEF GroupsOfShares
  <2>6. DOMAIN ks # DOMAIN ss
    BY <2>3
  <2>7. DOMAIN [k \in DOMAIN ks |-> ks[k].group] # DOMAIN [k \in DOMAIN ss |-> ss[k].group]
    BY <2>6, Zenon
  <2>8. GroupsOfShares(left) # GroupsOfShares(hello)
    BY <2>4, <2>5, <2>7, Zenon
  <2>9. Offered(hello, group)
    <3>1. PICK k \in DOMAIN ss : ss[k].group = group
      BY <1>10
    <3>2. ss[k] \in ToSet(Shared(hello))
      BY <2>1 DEF ToSet
    <3> QED BY <3>1, <3>2 DEF Offered
  <2> QED BY <2>8, <2>9, <1>1
<1>11. CASE /\ ~ \E k \in DOMAIN gs : gs[k] = group /\ TLS_SUPPORTED_GROUPS \in ToSet(hello.order)
            /\ ~ \E k \in DOMAIN ss : ss[k].group = group /\ TLS_KEY_SHARE \in ToSet(hello.order)
  <2>1. DOMAIN hello.order = 1 .. Len(hello.order)
    BY HelloFields
  <2>2. ASSUME NEW k \in 1 .. Len(hello.order)
        PROVE  ExtensionPayload(left, hello.order[k]) = ExtensionPayload(hello, hello.order[k])
    <3>1. CASE hello.order[k] = TLS_SUPPORTED_GROUPS
      <4>1. TLS_SUPPORTED_GROUPS \in ToSet(hello.order)
        BY <2>1, <3>1 DEF ToSet
      <4>2. \A i \in DOMAIN gs : i \in G
        BY <4>1, <1>5, <1>11
      <4>3. left.groups = hello.groups
        BY <4>2, <1>3, <1>7, KeptShorter
      <4> QED BY <4>3, <3>1, PayloadOfType, Zenon
    <3>2. CASE hello.order[k] = TLS_KEY_SHARE
      <4>1. TLS_KEY_SHARE \in ToSet(hello.order)
        BY <2>1, <3>2 DEF ToSet
      <4>2. \A i \in DOMAIN ss : i \in S
        BY <4>1, <1>6, <1>11
      <4>3. left.shares = hello.shares
        BY <4>2, <1>4, <1>8, KeptShorter
      <4> QED BY <4>3, <3>2, PayloadOfType, Zenon
    <3>3. CASE hello.order[k] # TLS_SUPPORTED_GROUPS /\ hello.order[k] # TLS_KEY_SHARE
      BY <3>3, PayloadOfType, Zenon
    <3> QED BY <3>1, <3>2, <3>3
  <2>3. ~Offered(hello, group)
    <3>1. group \notin ToSet(Listed(hello))
      <4>1. CASE TLS_SUPPORTED_GROUPS \in ToSet(hello.order)
        <5>1. Listed(hello) = gs
          BY <1>3, <4>1 DEF Listed
        <5> QED BY <5>1, <4>1, <1>11 DEF ToSet
      <4>2. CASE TLS_SUPPORTED_GROUPS \notin ToSet(hello.order)
        <5>1. Listed(hello) = <<>>
          BY <4>2 DEF Listed
        <5> QED BY <5>1 DEF ToSet
      <4> QED BY <4>1, <4>2
    <3>2. \A s \in ToSet(Shared(hello)) : s.group # group
      <4>1. CASE TLS_KEY_SHARE \in ToSet(hello.order)
        <5>1. Shared(hello) = ss
          BY <1>4, <4>1 DEF Shared
        <5> QED BY <5>1, <4>1, <1>11 DEF ToSet
      <4>2. CASE TLS_KEY_SHARE \notin ToSet(hello.order)
        <5>1. Shared(hello) = <<>>
          BY <4>2 DEF Shared
        <5> QED BY <5>1 DEF ToSet
      <4> QED BY <4>1, <4>2
    <3> QED BY <3>1, <3>2 DEF Offered
  <2> QED BY <2>2, <2>3, <1>1
<1> QED BY <1>9, <1>10, <1>11

\* strip_hybrid changes the record exactly when it offers the group.
LEMMA StripChanges ==
    ASSUME NEW hello \in Hellos, NEW group, NEW tail \in Buffers
    PROVE  EncodeClientHello(WithoutGroup(hello, group)) \o tail # EncodeClientHello(hello) \o tail
           <=> Offered(hello, group)
<1>1. PICK left \in Hellos : left = WithoutGroup(hello, group)
  BY WithoutGroupHello
<1>2. PICK w : w = EncodeClientHello(hello) \o tail
  OBVIOUS
<1>3. PICK v : v = EncodeClientHello(left) \o tail
  OBVIOUS
<1>4. CASE Offered(hello, group)
  <2>1. w \in Buffers /\ Has(w, 0, EncodeClientHello(hello))
    BY <1>2, HelloBuffer, FollowedBy
  <2>2. v \in Buffers /\ Has(v, 0, EncodeClientHello(left))
    BY <1>3, HelloBuffer, FollowedBy
  <2>3. ReadClientHello(w) = Returned([groups |-> Listed(hello), shares |-> GroupsOfShares(hello)])
    BY <2>1, ReadClientHelloResult
  <2>4. ReadClientHello(v) = Returned([groups |-> Listed(left), shares |-> GroupsOfShares(left)])
    BY <2>2, ReadClientHelloResult
  <2>5. Listed(left) # Listed(hello) \/ GroupsOfShares(left) # GroupsOfShares(hello)
    BY <1>1, <1>4, WithoutGroupOffer, Zenon
  <2>6. ASSUME w = v PROVE FALSE
    <3>1. Returned([groups |-> Listed(hello), shares |-> GroupsOfShares(hello)]).value
          = Returned([groups |-> Listed(left), shares |-> GroupsOfShares(left)]).value
      BY <2>3, <2>4, <2>6, Zenon
    <3>2. [groups |-> Listed(hello), shares |-> GroupsOfShares(hello)]
          = [groups |-> Listed(left), shares |-> GroupsOfShares(left)]
      BY <3>1 DEF Returned
    <3>3. Listed(hello) = Listed(left) /\ GroupsOfShares(hello) = GroupsOfShares(left)
      BY <3>2
    <3> QED BY <3>3, <2>5
  <2> QED BY <2>6, <1>1, <1>2, <1>3, <1>4
<1>5. CASE ~Offered(hello, group)
  <2>1. left.order = hello.order /\ left.sid = hello.sid
    BY <1>1, WithoutGroupHello
  <2>2. DOMAIN hello.order = 1 .. Len(hello.order)
    BY HelloFields
  <2>3. \A k \in DOMAIN hello.order :
           ExtensionPayload(left, hello.order[k]) = ExtensionPayload(hello, hello.order[k])
    BY <1>1, <1>5, <2>2, WithoutGroupOffer
  <2>4. HelloExts(left) = HelloExts(hello)
    BY <2>1, <2>3, Zenon DEF HelloExts
  <2>5. HelloBody(left) = HelloBody(hello)
    BY <2>1, <2>4, Zenon DEF HelloBody
  <2>6. EncodeClientHello(left) = EncodeClientHello(hello)
    BY <2>5, HelloBuffer, Zenon
  <2> QED BY <2>6, <1>1, <1>5
<1> QED BY <1>4, <1>5

\* A forged hello lists and shares the groups the original one does.
LEMMA ForgedOffer ==
    ASSUME NEW hello \in Hellos, NEW group
    PROVE  /\ Listed(WithForged(hello, group)) = Listed(hello)
           /\ GroupsOfShares(WithForged(hello, group)) = GroupsOfShares(hello)
<1>1. PICK f \in Hellos : f = WithForged(hello, group)
  BY WithForgedHello
<1>2. f.groups = hello.groups /\ f.shares = ForgedShares(hello.shares, group) /\ f.order = hello.order
  BY <1>1, WithForgedHello
<1>3. Listed(f) = Listed(hello)
  BY <1>2, Zenon DEF Listed
<1>4. PICK ss \in Seq(KeyShares) : ss = hello.shares
  BY HelloFields
<1>5. \A k \in DOMAIN ss : ForgedShare(ss[k], group).group = ss[k].group
  <2> TAKE k \in DOMAIN ss
  <2>1. ss[k] \in KeyShares
    OBVIOUS
  <2> QED BY <2>1, ForgedShareFields
<1>6. CASE TLS_KEY_SHARE \in ToSet(hello.order)
  <2>1. Shared(hello) = ss /\ Shared(f) = ForgedShares(ss, group)
    BY <1>2, <1>4, <1>6, Zenon DEF Shared
  <2>2. PICK fs : fs = ForgedShares(ss, group)
    OBVIOUS
  <2>3. DOMAIN fs = DOMAIN ss /\ \A k \in DOMAIN ss : fs[k] = ForgedShare(ss[k], group)
    BY <2>2 DEF ForgedShares
  <2>4. [k \in DOMAIN fs |-> fs[k].group] = [k \in DOMAIN ss |-> ss[k].group]
    BY <2>3, <1>5, Zenon
  <2>5. GroupsOfShares(f) = GroupsOfShares(hello)
    BY <2>1, <2>2, <2>4, Zenon DEF GroupsOfShares
  <2> QED BY <2>5, <1>1, <1>3
<1>7. CASE TLS_KEY_SHARE \notin ToSet(hello.order)
  <2>1. Shared(hello) = <<>> /\ Shared(f) = <<>>
    BY <1>2, <1>7 DEF Shared
  <2>2. GroupsOfShares(f) = GroupsOfShares(hello)
    BY <2>1, Zenon DEF GroupsOfShares
  <2> QED BY <2>2, <1>1, <1>3
<1> QED BY <1>6, <1>7

-----------------------------------------------------------------------------
\* A message of which a recv returned a part.

\* w begins with s.
Leads(w, s) == Stands(w, 1, 0, s)

\* The same by the fields.
LEMMA LeadsBuffer ==
    ASSUME NEW w \in Buffers, NEW s \in Buffers
    PROVE  /\ Len(w) \in Nat /\ Len(s) \in Nat
           /\ Leads(w, s) <=> Len(s) <= Len(w) /\ \A i \in 1 .. Len(s) : w[i] = s[i]
<1>1. Len(w) \in Nat /\ Len(s) \in Nat /\ Starts(w)[1] = 0
  BY StartsOfBuffer
<1>2. \A i \in 1 .. Len(s) : 1 - 1 + i = i
  BY <1>1
<1> QED BY <1>1, <1>2 DEF Leads, Stands

\* What a buffer begins with is in it at offset 0.
LEMMA LeadsHas ==
    ASSUME NEW w \in Buffers, NEW s \in Buffers, Leads(w, s)
    PROVE  Has(w, 0, s)
<1>1. 1 \in 1 .. Len(w) + 1
  BY LeadsBuffer
<1> QED BY <1>1, Zenon DEF Has, Leads

\* Beginning with is transitive.
LEMMA LeadsOn ==
    ASSUME NEW w \in Buffers, NEW s \in Buffers, NEW t \in Buffers, Leads(w, s), Leads(s, t)
    PROVE  Leads(w, t)
  BY LeadsBuffer

\* A concatenation begins with its first part.
LEMMA LeadsConcat ==
    ASSUME NEW a \in Buffers, NEW b \in Buffers
    PROVE  a \o b \in Buffers /\ Leads(a \o b, a)
  BY SizeOfConcat DEF Leads

\* Two concatenations that begin alike.
LEMMA LeadsInside ==
    ASSUME NEW a \in Buffers, NEW b \in Buffers, NEW c \in Buffers, Leads(b, c)
    PROVE  Leads(a \o b, a \o c)
<1>1. PICK m \in Nat : m = Len(a)
  BY LeadsBuffer
<1>2. PICK n \in Nat : n = Len(c) /\ n <= Len(b) /\ Len(b) \in Nat /\ \A i \in 1 .. n : b[i] = c[i]
  BY LeadsBuffer
<1>3. PICK v \in Buffers : v = a \o b /\ Len(v) = m + Len(b)
                           /\ (\A i \in 1 .. m : v[i] = a[i])
                           /\ (\A i \in 1 .. Len(b) : v[m + i] = b[i])
  <2>1. /\ a \o b \in Buffers /\ Len(a \o b) = Len(a) + Len(b)
        /\ \A i \in 1 .. Len(a) : (a \o b)[i] = a[i]
        /\ \A i \in 1 .. Len(b) : (a \o b)[Len(a) + i] = b[i]
    BY ConcatOfBuffers
  <2> QED BY <2>1, <1>1, Zenon
<1>4. PICK u \in Buffers : u = a \o c /\ Len(u) = m + n
                           /\ (\A i \in 1 .. m : u[i] = a[i])
                           /\ (\A i \in 1 .. n : u[m + i] = c[i])
  <2>1. /\ a \o c \in Buffers /\ Len(a \o c) = Len(a) + Len(c)
        /\ \A i \in 1 .. Len(a) : (a \o c)[i] = a[i]
        /\ \A i \in 1 .. Len(c) : (a \o c)[Len(a) + i] = c[i]
    BY ConcatOfBuffers
  <2> QED BY <2>1, <1>1, <1>2, Zenon
<1>5. \A i \in 1 .. m + n : v[i] = u[i]
  <2> TAKE i \in 1 .. m + n
  <2>1. CASE i <= m
    BY <2>1, <1>3, <1>4
  <2>2. CASE i > m
    <3>1. PICK j \in 1 .. n : i = m + j
      <4>1. i - m \in 1 .. n /\ i = m + (i - m)
        BY <2>2
      <4> QED BY <4>1
    <3>2. j \in 1 .. Len(b)
      BY <1>2
    <3> QED BY <3>1, <3>2, <1>2, <1>3, <1>4
  <2> QED BY <2>1, <2>2
<1>6. Len(u) <= Len(v)
  BY <1>2, <1>3, <1>4
<1>7. \A i \in 1 .. Len(u) : v[i] = u[i]
  BY <1>4, <1>5
<1> QED BY <1>3, <1>4, <1>6, <1>7, LeadsBuffer

\* The first n fields of a message.
LEMMA CutBuffer ==
    ASSUME NEW m \in Buffers, NEW n \in Nat, n <= Len(m)
    PROVE  /\ SubSeq(m, 1, n) \in Buffers
           /\ Len(SubSeq(m, 1, n)) = n
           /\ \A i \in 1 .. n : SubSeq(m, 1, n)[i] = m[i]
<1>1. Len(m) \in Nat /\ DOMAIN m = 1 .. Len(m)
  BY StartsOfBuffer
<1>2. SubSeq(m, 1, n) = [i \in 1 .. n |-> m[i]]
  BY <1>1
<1>3. \A i \in 1 .. n : m[i] \in Fields
  BY <1>1 DEF Buffers
<1>4. [i \in 1 .. n |-> m[i]] \in Seq(Fields)
  BY <1>3
<1> QED BY <1>2, <1>4 DEF Buffers

\* The first fields of a message begin with what it begins with.
LEMMA CutLeads ==
    ASSUME NEW m \in Buffers, NEW a \in Buffers, Leads(m, a), NEW n \in Nat, n <= Len(m), Len(a) <= n
    PROVE  Leads(SubSeq(m, 1, n), a)
<1>1. PICK p \in Buffers : p = SubSeq(m, 1, n) /\ Len(p) = n /\ \A i \in 1 .. n : p[i] = m[i]
  BY CutBuffer, Zenon
<1>2. Len(a) \in Nat /\ \A i \in 1 .. Len(a) : m[i] = a[i]
  BY LeadsBuffer
<1>3. \A i \in 1 .. Len(a) : p[i] = a[i]
  BY <1>1, <1>2
<1> QED BY <1>1, <1>3, LeadsBuffer

\* They are shorter than the message.
LEMMA CutShorter ==
    ASSUME NEW m \in Buffers, NEW n \in Nat, n < Len(m)
    PROVE  Size(SubSeq(m, 1, n)) < Size(m)
<1>0. Len(m) \in Nat /\ n <= Len(m)
  BY StartsOfBuffer
<1>1. PICK p \in Buffers : p = SubSeq(m, 1, n) /\ Len(p) = n /\ \A i \in 1 .. n : p[i] = m[i]
  BY <1>0, CutBuffer, Zenon
<1>2. Leads(m, p)
  <2>1. Len(p) <= Len(m) /\ \A i \in 1 .. Len(p) : m[i] = p[i]
    BY <1>0, <1>1
  <2> QED BY <2>1, LeadsBuffer
<1>3. \A i \in 1 .. Len(p) + 1 : Starts(m)[1 - 1 + i] = 0 + Starts(p)[i]
  BY <1>2, StartsInside DEF Leads
<1>4. PICK x : x = Starts(p)[n + 1]
  OBVIOUS
<1>5. x = Size(p) /\ x \in Nat
  BY <1>1, <1>4, StartsOfBuffer
<1>6. Starts(m)[n + 1] = x
  <2>1. n + 1 \in 1 .. Len(p) + 1
    BY <1>1
  <2>2. Starts(m)[1 - 1 + (n + 1)] = 0 + Starts(p)[n + 1]
    BY <2>1, <1>3
  <2>3. 1 - 1 + (n + 1) = n + 1 /\ 0 + x = x
    BY <1>5
  <2> QED BY <2>2, <2>3, <1>4
<1>7. Starts(m)[n + 1] < Starts(m)[Len(m) + 1]
  <2>1. Len(m) \in Nat
    BY StartsOfBuffer
  <2>2. n + 1 \in 1 .. Len(m) + 1 /\ Len(m) + 1 \in 1 .. Len(m) + 1 /\ n + 1 < Len(m) + 1
    BY <2>1
  <2> QED BY <2>2, StartsGrow
<1>8. Starts(m)[Len(m) + 1] = Size(m)
  BY StartsOfBuffer
<1> QED BY <1>1, <1>5, <1>6, <1>7, <1>8

\* They are what the message begins with, if they are as many.
LEMMA CutIs ==
    ASSUME NEW m \in Buffers, NEW a \in Buffers, Leads(m, a)
    PROVE  SubSeq(m, 1, Len(a)) = a
<1>1. PICK n \in Nat : n = Len(a) /\ n <= Len(m) /\ \A i \in 1 .. n : m[i] = a[i]
  BY LeadsBuffer
<1>2. PICK p \in Buffers : p = SubSeq(m, 1, n) /\ Len(p) = n /\ \A i \in 1 .. n : p[i] = m[i]
  BY <1>1, CutBuffer
<1>3. p = a
  BY <1>1, <1>2 DEF Buffers
<1> QED BY <1>1, <1>2, <1>3

\* The two ways in which a recv returns a part of the message.
CutOf(m, p) == p = SubSeq(m, 1, Len(m) - 1) \/ p = SubSeq(m, 1, 3)

\* A record of which a part is missing has no extensions.
LEMMA CutRecord ==
    ASSUME NEW body \in Buffers, body # <<>>, NEW t \in Int, NEW p, CutOf(Record(t, body), p)
    PROVE  ClientHelloExtensions(p) = Raised /\ p \in Buffers
<1>1. PICK m \in Buffers : m = Record(t, body)
  BY RecordRead
<1>2. PICK size \in Nat : size = Size(body)
  BY StartsOfBuffer
<1>3. PICK head \in Buffers : head = RecordHead(t, size)
  BY RecordHeadRead
<1>4. m = head \o body /\ Size(m) = 9 + size
  BY <1>1, <1>2, <1>3, RecordRead
<1>5. Leads(m, head)
  BY <1>4, LeadsConcat
<1>6. Len(m) = Len(head) + Len(body) /\ Len(body) \in Nat /\ Len(head) \in Nat /\ Len(m) \in Nat
  BY <1>4, ConcatOfBuffers, StartsOfBuffer
<1>7. Len(body) > 0
  BY <1>6 DEF Buffers
<1>8. PICK a, b, c, d, e \in Buffers : IsRecordHead(t, size, a, b, c, d, e)
  BY RecordHeadParts
<1>9. CASE p = SubSeq(m, 1, Len(m) - 1)
  <2>1. PICK n \in Nat : n = Len(m) - 1 /\ n < Len(m) /\ Len(head) <= n
    <3>1. Len(m) - 1 \in Nat /\ Len(m) - 1 < Len(m) /\ Len(head) <= Len(m) - 1
      BY <1>6, <1>7
    <3> QED BY <3>1
  <2>2. p \in Buffers
    BY <2>1, <1>9, CutBuffer
  <2>3. Size(p) < 9 + size
    BY <2>1, <1>4, <1>9, CutShorter
  <2>4. Has(p, 0, head)
    <3>1. Leads(p, head)
      BY <2>1, <1>5, <1>9, CutLeads
    <3> QED BY <3>1, <2>2, LeadsHas
  <2>5. HeadNumbers(p, t, size)
    BY <2>2, <2>4, <1>3, RecordHeadRead
  <2>6. EndOf(p, 3, 2) = 9 + size
    BY <2>5 DEF HeadNumbers, EndOf
  <2>7. ~(EndOf(p, 3, 2) <= Size(p))
    <3>1. Size(p) \in Nat
      BY <2>2, StartsOfBuffer
    <3> QED BY <2>3, <2>6, <3>1
  <2> QED BY <2>2, <2>7, Zenon DEF ClientHelloExtensions
<1>10. CASE p = SubSeq(m, 1, 3)
  <2>1. a \o b \o c \in Buffers /\ Leads(a \o b \o c \o d \o e, a \o b \o c)
    <3>1. a \o b \in Buffers
      BY ConcatOfBuffers
    <3>2. PICK abc \in Buffers : abc = a \o b \o c
      BY <3>1, ConcatOfBuffers
    <3>3. PICK abcd \in Buffers : abcd = abc \o d /\ Leads(abcd, abc)
      BY LeadsConcat
    <3>4. PICK abcde \in Buffers : abcde = abcd \o e /\ Leads(abcde, abcd)
      BY LeadsConcat
    <3>5. Leads(abcde, abc)
      BY <3>3, <3>4, LeadsOn
    <3> QED BY <3>2, <3>3, <3>4, <3>5
  <2>2. PICK abc \in Buffers : abc = a \o b \o c
    BY <2>1
  <2>3. Leads(m, abc)
    <3>1. head = a \o b \o c \o d \o e
      BY <1>3, <1>8 DEF IsRecordHead
    <3>2. Leads(head, abc)
      BY <2>1, <2>2, <3>1
    <3> QED BY <3>2, <1>5, LeadsOn
  <2>4. Len(abc) = 3
    <3>1. Len(a) = 1 /\ Len(b) = 1 /\ Len(c) = 1
      BY <1>8 DEF IsRecordHead, IsNum
    <3>2. Len(a \o b) = Len(a) + Len(b) /\ a \o b \in Buffers
      BY ConcatOfBuffers
    <3>3. Len(a \o b \o c) = Len(a \o b) + Len(c)
      BY <3>2, ConcatOfBuffers
    <3> QED BY <3>1, <3>2, <3>3, <2>2
  <2>5. Size(abc) = 5
    <3>1. Size(a) = 1 /\ Size(b) = 2 /\ Size(c) = 2
      BY <1>8 DEF IsRecordHead, IsNum
    <3>2. Size(abc) = Size(a) + Size(b) + Size(c)
      BY <2>2, ThreeParts
    <3> QED BY <3>1, <3>2
  <2>6. p = abc
    BY <2>3, <2>4, <1>10, CutIs
  <2>7. ~(Size(p) >= 9)
    BY <2>5, <2>6
  <2> QED BY <2>6, <2>7, Zenon DEF ClientHelloExtensions
<1> QED BY <1>1, <1>9, <1>10 DEF CutOf

\* Both transforms refuse a ClientHello of which a part is missing.
LEMMA CutClientHello ==
    ASSUME NEW hello \in Hellos, NEW p, CutOf(EncodeClientHello(hello), p), NEW group
    PROVE  StripHybrid(p, group) = Raised /\ ForgePqComponent(p, group) = Raised
<1>1. PICK body \in Buffers : body = HelloBody(hello)
                              /\ EncodeClientHello(hello) = Record(TLS_CLIENT_HELLO, body)
  BY HelloBuffer
<1>2. body # <<>>
  <2>1. PICK sid \in Nat : sid = hello.sid
    BY HelloFields
  <2>2. PICK rest \in Nat : rest = Size(Flat(HelloExts(hello)))
    BY ExtsTyped
  <2>3. Size(body) = 47 + sid + rest
    BY <1>1, <2>1, <2>2, HelloBuffer
  <2>4. Size(body) # 0
    BY <2>3
  <2> QED BY <2>4, EmptyBuffer
<1>3. TLS_CLIENT_HELLO \in Int
  BY DEF TLS_CLIENT_HELLO
<1>4. CutOf(Record(TLS_CLIENT_HELLO, body), p)
  BY <1>1
<1>5. ClientHelloExtensions(p) = Raised
  BY <1>2, <1>3, <1>4, CutRecord
<1>6. ~Raised.ok
  BY DEF Raised
<1>7. Extensions(p) = Raised
  BY <1>5, <1>6, Zenon DEF Extensions, Then
<1>8. FindKeyShare(p) = Raised
  BY <1>6, <1>7, Zenon DEF FindKeyShare, Then
<1>9. StripHybrid(p, group) = Raised
  BY <1>6, <1>7, Zenon DEF StripHybrid, Then
<1>10. ForgePqComponent(p, group) = Raised
  BY <1>6, <1>8, Zenon DEF ForgePqComponent, Then
<1> QED BY <1>9, <1>10

-----------------------------------------------------------------------------
\* SSH packets.

\* A packet by the two numbers in front of its payload.
IsPacket(payload, pad, a, b) ==
    /\ IsNum(a, 4, 1 + Size(payload) + Size(pad)) /\ IsNum(b, 1, Size(pad))
    /\ Packet(payload, pad) = a \o b \o payload \o pad
    /\ a = Num("packet length", 4, 1 + Size(payload) + Size(pad))
    /\ b = Num("padding length", 1, Size(pad))

\* A packet starts with two numbers.
LEMMA PacketParts ==
    ASSUME NEW payload \in Buffers, NEW pad \in Buffers
    PROVE  \E a, b \in Buffers : IsPacket(payload, pad, a, b)
<1>1. PICK n \in Int : n = 1 + Size(payload) + Size(pad)
  BY StartsOfBuffer
<1>2. PICK k \in Int : k = Size(pad)
  BY StartsOfBuffer
<1>3. 4 \in Nat \ {0} /\ 1 \in Nat \ {0}
  OBVIOUS
<1>4. PICK a \in Buffers : a = Num("packet length", 4, n) /\ IsNum(a, 4, n)
  <2>1. IsNum(Num("packet length", 4, n), 4, n)
    BY <1>3, Names, NumIs, Zenon
  <2> QED BY <2>1 DEF IsNum
<1>5. PICK b \in Buffers : b = Num("padding length", 1, k) /\ IsNum(b, 1, k)
  <2>1. IsNum(Num("padding length", 1, k), 1, k)
    BY <1>3, Names, NumIs, Zenon
  <2> QED BY <2>1 DEF IsNum
<1>6. Packet(payload, pad) = a \o b \o payload \o pad
  BY <1>1, <1>2, <1>4, <1>5 DEF Packet
<1>7. IsPacket(payload, pad, a, b)
  BY <1>1, <1>2, <1>4, <1>5, <1>6 DEF IsPacket
<1> QED BY <1>7, Zenon

\* What the functions read of a packet.
PacketFields(w, payload, pad) ==
    /\ PacketEnd(w) = 5 + Size(payload) + Size(pad)
    /\ PayloadEnd(w) = 5 + Size(payload)
    /\ PacketEnd(w) <= Size(w)
    /\ Has(w, 5, payload)
    /\ Slice(w, PayloadEnd(w), PacketEnd(w)) = pad

\* A packet is read as its payload and its padding.
LEMMA PacketRead ==
    ASSUME NEW payload \in Buffers, NEW pad \in Buffers
    PROVE  /\ Packet(payload, pad) \in Buffers
           /\ Size(Packet(payload, pad)) = 5 + Size(payload) + Size(pad)
           /\ Size(payload) \in Nat /\ Size(pad) \in Nat
           /\ \A w \in Buffers : Has(w, 0, Packet(payload, pad)) => PacketFields(w, payload, pad)
<1>1. PICK a, b \in Buffers : IsPacket(payload, pad, a, b)
  BY PacketParts
<1>2. /\ IsNum(a, 4, 1 + Size(payload) + Size(pad)) /\ IsNum(b, 1, Size(pad))
      /\ Packet(payload, pad) = a \o b \o payload \o pad
  BY <1>1 DEF IsPacket
<1>3. Size(a) = 4 /\ Size(b) = 1
  BY <1>2 DEF IsNum
<1>4. PICK n \in Nat : n = Size(payload)
  BY StartsOfBuffer
<1>5. PICK k \in Nat : k = Size(pad)
  BY StartsOfBuffer
<1>6. PICK x \in Buffers : x = a \o b \o payload /\ Size(x) = 5 + n
  <2>1. a \o b \o payload \in Buffers /\ Size(a \o b \o payload) = Size(a) + Size(b) + Size(payload)
    BY ThreeParts
  <2>2. Size(a) + Size(b) + Size(payload) = 5 + n
    BY <1>3, <1>4
  <2> QED BY <2>1, <2>2, Zenon
<1>7. Packet(payload, pad) = x \o pad
  BY <1>2, <1>6, Zenon
<1>8. x \o pad \in Buffers /\ Size(x \o pad) = 5 + n + k
  <2>1. x \o pad \in Buffers /\ Size(x \o pad) = Size(x) + Size(pad)
    BY SizeOfConcat
  <2> QED BY <2>1, <1>5, <1>6
<1>9. ASSUME NEW w \in Buffers, Has(w, 0, x \o pad)
      PROVE  PacketFields(w, payload, pad)
  <2>1. Has(w, 0, x) /\ Has(w, 5 + n, pad)
    <3>1. Has(w, 0, x) /\ Has(w, 0 + Size(x), pad)
      BY <1>9, HasConcat
    <3>2. 0 + Size(x) = 5 + n
      BY <1>6
    <3> QED BY <3>1, <3>2
  <2>2. Has(w, 0, a) /\ Has(w, 4, b) /\ Has(w, 5, payload)
    <3>1. /\ Has(w, 0, a) /\ Has(w, 0 + Size(a), b)
          /\ Has(w, 0 + Size(a) + Size(b), payload)
      BY <2>1, <1>6, HasThree
    <3>2. 0 + Size(a) = 4 /\ 0 + Size(a) + Size(b) = 5
      BY <1>3
    <3> QED BY <3>1, <3>2
  <2>3. Read(w, 0, 4) = 1 + n + k
    BY <2>2, <1>2, <1>4, <1>5, ReadOfNum
  <2>4. Read(w, 4, 1) = k
    BY <2>2, <1>2, <1>5, ReadOfNum
  <2>5. PacketEnd(w) = 5 + n + k /\ PayloadEnd(w) = 5 + n
    BY <2>3, <2>4 DEF PacketEnd, PayloadEnd
  <2>6. /\ (5 + n) + Size(pad) <= Size(w)
        /\ Slice(w, 5 + n, (5 + n) + Size(pad)) = pad
    BY <2>1, SliceOfPart
  <2> QED BY <2>2, <2>5, <2>6, <1>4, <1>5 DEF PacketFields
<1> QED BY <1>4, <1>5, <1>7, <1>8, <1>9

-----------------------------------------------------------------------------
\* Name lists.

\* The names of key exchanges.
KexNames == DOMAIN NameBytes

\* The length of a list of names: no bytes only if it has none.
LEMMA JoinedIs ==
    ASSUME NEW names \in Seq(KexNames)
    PROVE  /\ Joined(names) \in Nat
           /\ names # <<>> => Joined(names) > 0
           /\ names = <<>> => Joined(names) = 0
           /\ names \in Seq(Int)
<1>1. KexNames = 1 .. 4 /\ \A k \in 1 .. 4 : NameBytes[k] \in Nat /\ NameBytes[k] > 0
  BY DEF KexNames, NameBytes
<1>2. names \in Seq(Int)
  BY <1>1
<1>3. CASE names = <<>>
  BY <1>2, <1>3 DEF Joined
<1>4. CASE names # <<>>
  <2>1. PICK n \in Nat : n = Len(names) /\ DOMAIN names = 1 .. n /\ n > 0
    BY <1>4
  <2>2. PICK w : w = [k \in DOMAIN names |-> [size |-> NameBytes[names[k]]]]
    OBVIOUS
  <2>3. \A k \in 1 .. n : w[k].size = NameBytes[names[k]] /\ names[k] \in 1 .. 4
    BY <2>1, <2>2, <1>1
  <2>4. Sized(w, n)
    <3>1. Len(w) = n
      BY <2>1, <2>2
    <3> QED BY <3>1, <2>3, <1>1 DEF Sized
  <2>5. Offsets(Starts(w), w, n)
    BY <2>4, StartsOffsets
  <2>6. Starts(w)[1] + w[1].size <= Starts(w)[n + 1]
    <3>1. 1 \in 1 .. n + 1 /\ n + 1 \in 1 .. n + 1 /\ 1 < n + 1
      BY <2>1
    <3> QED BY <3>1, <2>4, <2>5, OffsetsGrow
  <2>7. Starts(w)[1] = 0 /\ Starts(w)[n + 1] \in Nat
    BY <2>5, <2>1 DEF Offsets
  <2>8. w[1].size \in Nat /\ w[1].size > 0
    BY <2>1, <2>3, <1>1, SMTT(40)
  <2>9. PICK s : s = Starts(w)[n + 1]
    OBVIOUS
  <2>10. Size(w) = s
    BY <2>4, <2>9 DEF Size, Sized
  <2>11. Joined(names) = s + n - 1
    BY <1>4, <2>1, <2>2, <2>10 DEF Joined
  <2>12. s \in Nat /\ s > 0
    BY <2>6, <2>7, <2>8, <2>9
  <2> QED BY <2>1, <2>11, <2>12, <1>2, <1>4
<1> QED BY <1>3, <1>4

\* A list of names as the bytes of a packet.
HoldsNames(a, names) ==
    /\ a \in Buffers /\ Size(a) = Joined(names)
    /\ (IF a = <<>> THEN <<>> ELSE a[1].value) = names

\* The bytes of a list of names are as many as its length says, and are decoded
\* into the names.
LEMMA NameListIs ==
    ASSUME NEW names \in Seq(KexNames)
    PROVE  HoldsNames(NameList(names), names)
<1>1. PICK n \in Nat : n = Joined(names) /\ (names # <<>> => n > 0) /\ (names = <<>> => n = 0)
  BY JoinedIs
<1>2. CASE names = <<>>
  <2>1. NameList(names) = <<>>
    BY <1>2 DEF NameList
  <2> QED BY <2>1, <1>1, <1>2, EmptyBuffer DEF HoldsNames
<1>3. CASE names # <<>>
  <2>1. PICK name \in FieldNames : name = "algorithms"
    BY Names, Zenon
  <2>2. PICK f : f = [name |-> name, size |-> n, value |-> names]
    OBVIOUS
  <2>3. names \in Seq(Int) /\ n \in Nat \ {0}
    BY <1>1, <1>3, JoinedIs
  <2>4. f \in Fields /\ f.size = n /\ f.value = names
    BY <2>2, <2>3 DEF Fields
  <2>5. NameList(names) = <<f>>
    BY <1>1, <1>3, <2>1, <2>2, Zenon DEF NameList
  <2>6. PICK a \in Buffers : a = <<f>> /\ Len(a) = 1 /\ a[1] = f /\ a # <<>>
    <3>1. <<f>> \in Seq(Fields)
      BY <2>4
    <3> QED BY <3>1 DEF Buffers
  <2>7. Size(a) = n
    <3>1. Starts(a)[2] = Starts(a)[1] + f.size /\ Starts(a)[1] = 0 /\ Starts(a)[2] = Size(a)
      <4>1. 1 \in 1 .. Len(a)
        BY <2>6
      <4>2. Starts(a)[1 + 1] = Starts(a)[1] + a[1].size
        BY <4>1, FieldOfBuffer
      <4>3. Starts(a)[1] = 0 /\ Starts(a)[Len(a) + 1] = Size(a)
        BY StartsOfBuffer
      <4> QED BY <4>2, <4>3, <2>6
    <3> QED BY <3>1, <2>4
  <2>8. (IF a = <<>> THEN <<>> ELSE a[1].value) = names
    BY <2>4, <2>6
  <2> QED BY <2>5, <2>6, <2>7, <2>8, <1>1 DEF HoldsNames
<1> QED BY <1>2, <1>3

-----------------------------------------------------------------------------
\* KEXINIT.

\* The payload of a KEXINIT by its five fields.
IsKexPayload(names, m, c, l, n, o) ==
    /\ IsNum(m, 1, SSH_MSG_KEXINIT) /\ c \in Buffers /\ Size(c) = 16
    /\ IsNum(l, 4, Joined(names)) /\ HoldsNames(n, names)
    /\ o \in Buffers /\ Size(o) = OtherListBytes
    /\ m = Num("message", 1, SSH_MSG_KEXINIT) /\ c = Opaque("cookie", 16)
    /\ l = Num("algorithms length", 4, Joined(names)) /\ n = NameList(names)
    /\ o = Opaque("other lists", OtherListBytes)

\* The payload of a KEXINIT has these fields.
LEMMA KexPayloadParts ==
    ASSUME NEW names \in Seq(KexNames)
    PROVE  \E m, c, l, n, o \in Buffers : IsKexPayload(names, m, c, l, n, o)
<1>1. 4 \in Nat \ {0} /\ 1 \in Nat \ {0} /\ 16 \in Nat
  OBVIOUS
<1>2. SSH_MSG_KEXINIT \in Int /\ OtherListBytes \in Nat
  BY DEF SSH_MSG_KEXINIT, OtherListBytes
<1>3. PICK j \in Int : j = Joined(names)
  BY JoinedIs
<1>4. PICK m \in Buffers : m = Num("message", 1, SSH_MSG_KEXINIT) /\ IsNum(m, 1, SSH_MSG_KEXINIT)
  <2>1. IsNum(Num("message", 1, SSH_MSG_KEXINIT), 1, SSH_MSG_KEXINIT)
    BY <1>1, <1>2, Names, NumIs, Zenon
  <2> QED BY <2>1 DEF IsNum
<1>5. PICK c \in Buffers : c = Opaque("cookie", 16) /\ Size(c) = 16
  BY <1>1, Names, OpaqueBuffer, Zenon
<1>6. PICK l \in Buffers : l = Num("algorithms length", 4, j) /\ IsNum(l, 4, j)
  <2>1. IsNum(Num("algorithms length", 4, j), 4, j)
    BY <1>1, Names, NumIs, Zenon
  <2> QED BY <2>1 DEF IsNum
<1>7. PICK n \in Buffers : n = NameList(names) /\ HoldsNames(n, names)
  BY NameListIs DEF HoldsNames
<1>8. PICK o \in Buffers : o = Opaque("other lists", OtherListBytes) /\ Size(o) = OtherListBytes
  BY <1>2, Names, OpaqueBuffer, Zenon
<1>9. IsKexPayload(names, m, c, l, n, o)
  BY <1>3, <1>4, <1>5, <1>6, <1>7, <1>8, Zenon DEF IsKexPayload
<1> QED BY <1>9, Zenon

\* The payload the functions of ssh_kexinit.py take apart and put together.
KexPayloadFields(w, names, m, c, l, n, o) ==
    /\ Read(w, 5, 1) = SSH_MSG_KEXINIT
    /\ Read(w, 22, 4) = Joined(names)
    /\ Slice(w, 5, 22) = m \o c
    /\ Slice(w, 26, 26 + Joined(names)) = n
    /\ Slice(w, 26 + Joined(names), 26 + Joined(names) + OtherListBytes) = o

\* Their order in the payload, and where the functions find them.
LEMMA KexPayloadRead ==
    ASSUME NEW names \in Seq(KexNames), NEW m, NEW c, NEW l, NEW n, NEW o,
           IsKexPayload(names, m, c, l, n, o)
    PROVE  /\ KexInitPayload(names) = m \o c \o l \o n \o o
           /\ KexInitPayload(names) \in Buffers
           /\ Size(KexInitPayload(names)) = 21 + Joined(names) + OtherListBytes
           /\ Leads(KexInitPayload(names), m)
           /\ \A w \in Buffers : Has(w, 5, KexInitPayload(names)) =>
                 KexPayloadFields(w, names, m, c, l, n, o)
<1>1. PICK j \in Nat : j = Joined(names)
  BY JoinedIs
<1>2. PICK r \in Nat : r = OtherListBytes
  BY DEF OtherListBytes
<1>3. /\ m \in Buffers /\ Size(m) = 1 /\ c \in Buffers /\ Size(c) = 16 /\ l \in Buffers /\ Size(l) = 4
      /\ n \in Buffers /\ Size(n) = j /\ o \in Buffers /\ Size(o) = r
      /\ IsNum(m, 1, SSH_MSG_KEXINIT) /\ IsNum(l, 4, j)
  BY <1>1, <1>2 DEF IsKexPayload, IsNum, HoldsNames
<1>4. KexInitPayload(names) = m \o c \o l \o n \o o
  BY Zenon DEF KexInitPayload, IsKexPayload
<1>5. PICK mc \in Buffers : mc = m \o c /\ Size(mc) = 17 /\ Leads(mc, m)
  <2>1. m \o c \in Buffers /\ Size(m \o c) = Size(m) + Size(c) /\ Leads(m \o c, m)
    BY <1>3, SizeOfConcat, LeadsConcat
  <2>2. Size(m) + Size(c) = 17
    BY <1>3
  <2> QED BY <2>1, <2>2, Zenon
<1>6. PICK mcl \in Buffers : mcl = mc \o l /\ Size(mcl) = 21 /\ Leads(mcl, mc)
  <2>1. mc \o l \in Buffers /\ Size(mc \o l) = Size(mc) + Size(l) /\ Leads(mc \o l, mc)
    BY <1>3, SizeOfConcat, LeadsConcat
  <2>2. Size(mc) + Size(l) = 21
    BY <1>3, <1>5
  <2> QED BY <2>1, <2>2, Zenon
<1>7. PICK mcln \in Buffers : mcln = mcl \o n /\ Size(mcln) = 21 + j /\ Leads(mcln, mcl)
  <2>1. mcl \o n \in Buffers /\ Size(mcl \o n) = Size(mcl) + Size(n) /\ Leads(mcl \o n, mcl)
    BY <1>3, SizeOfConcat, LeadsConcat
  <2>2. Size(mcl) + Size(n) = 21 + j
    BY <1>3, <1>6
  <2> QED BY <2>1, <2>2, Zenon
<1>8. PICK p \in Buffers : p = mcln \o o /\ Size(p) = 21 + j + r /\ Leads(p, mcln)
  <2>1. mcln \o o \in Buffers /\ Size(mcln \o o) = Size(mcln) + Size(o) /\ Leads(mcln \o o, mcln)
    BY <1>3, SizeOfConcat, LeadsConcat
  <2>2. Size(mcln) + Size(o) = 21 + j + r
    BY <1>3, <1>7
  <2> QED BY <2>1, <2>2, Zenon
<1>9. KexInitPayload(names) = p
  BY <1>4, <1>5, <1>6, <1>7, <1>8, Zenon
<1>10. Leads(p, m)
  <2>1. Leads(mcl, m)
    BY <1>3, <1>5, <1>6, LeadsOn
  <2>2. Leads(mcln, m)
    BY <2>1, <1>3, <1>7, LeadsOn
  <2> QED BY <2>2, <1>3, <1>8, LeadsOn
<1>11. ASSUME NEW w \in Buffers, Has(w, 5, p)
       PROVE  KexPayloadFields(w, names, m, c, l, n, o)
  <2>1. Has(w, 5, mcln) /\ Has(w, 26 + j, o)
    <3>1. Has(w, 5, mcln) /\ Has(w, 5 + Size(mcln), o)
      BY <1>3, <1>8, <1>11, HasConcat
    <3>2. 5 + Size(mcln) = 26 + j
      BY <1>7
    <3> QED BY <3>1, <3>2
  <2>2. Has(w, 5, mcl) /\ Has(w, 26, n)
    <3>1. Has(w, 5, mcl) /\ Has(w, 5 + Size(mcl), n)
      BY <2>1, <1>3, <1>7, HasConcat
    <3>2. 5 + Size(mcl) = 26
      BY <1>6
    <3> QED BY <3>1, <3>2
  <2>3. Has(w, 5, mc) /\ Has(w, 22, l)
    <3>1. Has(w, 5, mc) /\ Has(w, 5 + Size(mc), l)
      BY <2>2, <1>3, <1>6, HasConcat
    <3>2. 5 + Size(mc) = 22
      BY <1>5
    <3> QED BY <3>1, <3>2
  <2>4. Has(w, 5, m)
    BY <2>3, <1>3, <1>5, HasConcat
  <2>5. Read(w, 5, 1) = SSH_MSG_KEXINIT
    BY <2>4, <1>3, ReadOfNum
  <2>6. Read(w, 22, 4) = j
    BY <2>3, <1>3, ReadOfNum
  <2>7. Slice(w, 5, 22) = mc
    <3>1. Slice(w, 5, 5 + Size(mc)) = mc
      BY <2>3, SliceOfPart
    <3>2. 5 + Size(mc) = 22
      BY <1>5
    <3> QED BY <3>1, <3>2
  <2>8. Slice(w, 26, 26 + j) = n
    <3>1. Slice(w, 26, 26 + Size(n)) = n
      BY <2>2, <1>3, SliceOfPart
    <3> QED BY <3>1, <1>3
  <2>9. Slice(w, 26 + j, 26 + j + r) = o
    <3>1. Slice(w, 26 + j, (26 + j) + Size(o)) = o
      BY <2>1, <1>3, SliceOfPart, SMTT(40)
    <3> QED BY <3>1, <1>3
  <2> QED BY <2>5, <2>6, <2>7, <2>8, <2>9, <1>1, <1>2, <1>5, Zenon DEF KexPayloadFields
<1> QED BY <1>1, <1>2, <1>4, <1>8, <1>9, <1>10, <1>11, Zenon

\* kexinit_algorithms reads the names a client put into its KEXINIT.
LEMMA KexinitAlgorithmsResult ==
    ASSUME NEW names \in Seq(KexNames), NEW pad \in Buffers, NEW w \in Buffers,
           Has(w, 0, Packet(KexInitPayload(names), pad))
    PROVE  /\ KexinitAlgorithms(w) = Returned(names)
           /\ Size(w) >= 26
<1>1. PICK m, c, l, n, o \in Buffers : IsKexPayload(names, m, c, l, n, o)
  BY KexPayloadParts
<1>2. PICK p \in Buffers : p = KexInitPayload(names) /\ Size(p) = 21 + Joined(names) + OtherListBytes
  BY <1>1, KexPayloadRead
<1>3. PICK j \in Nat : j = Joined(names)
  BY JoinedIs
<1>4. PICK r \in Nat : r = OtherListBytes
  BY DEF OtherListBytes
<1>5. PICK k \in Nat : k = Size(pad)
  BY StartsOfBuffer
<1>6. PacketFields(w, p, pad)
  BY <1>2, PacketRead
<1>7. /\ PacketEnd(w) = 5 + (21 + j + r) + k /\ PayloadEnd(w) = 5 + (21 + j + r)
      /\ PacketEnd(w) <= Size(w) /\ Has(w, 5, p)
  BY <1>2, <1>3, <1>4, <1>5, <1>6 DEF PacketFields
<1>8. Size(w) \in Nat
  BY StartsOfBuffer
<1>9. KexPayloadFields(w, names, m, c, l, n, o)
  BY <1>1, <1>2, <1>7, KexPayloadRead
<1>10. Read(w, 5, 1) = SSH_MSG_KEXINIT /\ Read(w, 22, 4) = j /\ Slice(w, 26, 26 + j) = n
  BY <1>3, <1>9 DEF KexPayloadFields
<1>11. Size(w) >= 26 /\ PayloadEnd(w) >= 26 /\ 26 + j <= PayloadEnd(w)
  BY <1>7, <1>8
<1>12. KexinitAlgorithmBounds(w) = Returned(<<26, 26 + j>>)
  BY <1>7, <1>10, <1>11, Zenon DEF KexinitAlgorithmBounds
<1>13. (IF n = <<>> THEN <<>> ELSE n[1].value) = names
  BY <1>1 DEF IsKexPayload, HoldsNames
<1>14. PICK bounds : bounds = <<26, 26 + j>>
  OBVIOUS
<1>15. bounds[1] = 26 /\ bounds[2] = 26 + j
  BY <1>14
<1>16. KexinitAlgorithmBounds(w).ok /\ KexinitAlgorithmBounds(w).value = bounds
  BY <1>12, <1>14 DEF Returned
<1>17. Slice(w, bounds[1], bounds[2]) = n
  BY <1>10, <1>15, Zenon
<1>18. KexinitAlgorithms(w) = Returned(names)
  BY <1>13, <1>16, <1>17, Zenon DEF KexinitAlgorithms, Then
<1> QED BY <1>11, <1>18

\* A list without one of the names.
LEMMA WithoutNameIs ==
    ASSUME NEW names \in Seq(KexNames), NEW name
    PROVE  /\ WithoutName(names, name) \in Seq(KexNames)
           /\ WithoutName(names, name) # names <=> name \in ToSet(names)
<1>1. PICK K : K = {k \in DOMAIN names : names[k] # name}
  OBVIOUS
<1>2. WithoutName(names, name) = Kept(names, K)
  BY <1>1, Zenon DEF WithoutName
<1>3. /\ (\E k \in DOMAIN names : k \notin K) => Kept(names, K) # names
      /\ (\A k \in DOMAIN names : k \in K) => Kept(names, K) = names
      /\ Kept(names, K) \in Seq(KexNames)
  BY KeptShorter
<1>4. name \in ToSet(names) <=> \E k \in DOMAIN names : names[k] = name
  BY DEF ToSet
<1>5. (\E k \in DOMAIN names : names[k] = name) <=> (\E k \in DOMAIN names : k \notin K)
  BY <1>1
<1> QED BY <1>2, <1>3, <1>4, <1>5

\* strip_kexinit_algorithm on a whole KEXINIT.
LEMMA StripKexinitResult ==
    ASSUME NEW names \in Seq(KexNames), NEW pad \in Buffers, NEW tail \in Buffers, NEW name
    PROVE  LET w == Packet(KexInitPayload(names), pad) \o tail
           IN  StripKexinitAlgorithm(w, name)
               = Returned(IF WithoutName(names, name) = names THEN w
                          ELSE Packet(KexInitPayload(WithoutName(names, name)), pad))
<1>1. PICK m, c, l, n, o \in Buffers : IsKexPayload(names, m, c, l, n, o)
  BY KexPayloadParts
<1>2. PICK p \in Buffers : p = KexInitPayload(names) /\ Size(p) = 21 + Joined(names) + OtherListBytes
  BY <1>1, KexPayloadRead
<1>3. PICK w \in Buffers : w = Packet(p, pad) \o tail /\ Has(w, 0, Packet(p, pad))
  BY PacketRead, FollowedBy
<1>4. PICK left \in Seq(KexNames) : left = WithoutName(names, name)
  BY WithoutNameIs
<1>5. KexinitAlgorithms(w).ok /\ KexinitAlgorithms(w).value = names
  <2>1. KexinitAlgorithms(w) = Returned(names)
    BY <1>2, <1>3, KexinitAlgorithmsResult
  <2> QED BY <2>1 DEF Returned
<1>6. left = Kept(names, {k \in DOMAIN names : names[k] # name})
  BY <1>4, Zenon DEF WithoutName
<1>7. CASE left = names
  <2>1. StripKexinitAlgorithm(w, name) = Returned(w)
    BY <1>5, <1>6, <1>7, Zenon DEF StripKexinitAlgorithm, Then
  <2> QED BY <2>1, <1>2, <1>3, <1>4, <1>7, Zenon
<1>8. CASE left # names
  <2>1. StripKexinitAlgorithm(w, name)
        = Returned(Packet(
                   Slice(w, 5, 22) \o Num("algorithms length", 4, Joined(left))
                   \o NameList(left) \o Slice(w, EndOf(w, 22, 4), PayloadEnd(w)),
                   Slice(w, PayloadEnd(w), PacketEnd(w))))
    BY <1>5, <1>6, <1>8, Zenon DEF StripKexinitAlgorithm, Then
  <2>2. PICK j \in Nat : j = Joined(names)
    BY JoinedIs
  <2>3. PICK r \in Nat : r = OtherListBytes
    BY DEF OtherListBytes
  <2>4. PacketFields(w, p, pad)
    BY <1>3, PacketRead
  <2>5. PayloadEnd(w) = 26 + j + r /\ Has(w, 5, p) /\ Slice(w, PayloadEnd(w), PacketEnd(w)) = pad
    <3>1. PayloadEnd(w) = 5 + (21 + j + r)
      BY <2>2, <2>3, <2>4, <1>2 DEF PacketFields
    <3> QED BY <3>1, <2>4 DEF PacketFields
  <2>6. KexPayloadFields(w, names, m, c, l, n, o)
    BY <2>5, <1>1, <1>2, KexPayloadRead
  <2>7. Slice(w, 5, 22) = m \o c /\ EndOf(w, 22, 4) = 26 + j /\ Slice(w, 26 + j, 26 + j + r) = o
    <3>1. Read(w, 22, 4) = j
      BY <2>2, <2>6 DEF KexPayloadFields
    <3>2. EndOf(w, 22, 4) = 26 + j
      BY <3>1 DEF EndOf
    <3>3. Slice(w, 5, 22) = m \o c /\ Slice(w, 26 + j, 26 + j + r) = o
      BY <2>2, <2>3, <2>6, Zenon DEF KexPayloadFields
    <3> QED BY <3>2, <3>3
  <2>8. KexInitPayload(left) = m \o c \o Num("algorithms length", 4, Joined(left)) \o NameList(left) \o o
    <3>1. /\ m = Num("message", 1, SSH_MSG_KEXINIT) /\ c = Opaque("cookie", 16)
          /\ o = Opaque("other lists", OtherListBytes)
      BY <1>1 DEF IsKexPayload
    <3> QED BY <3>1, Zenon DEF KexInitPayload
  <2>9. StripKexinitAlgorithm(w, name) = Returned(Packet(KexInitPayload(left), pad))
    BY <2>1, <2>5, <2>7, <2>8, Zenon
  <2> QED BY <2>9, <1>2, <1>3, <1>4, <1>8, Zenon
<1> QED BY <1>7, <1>8

\* It changes the packet when it removes a name.
LEMMA StripKexinitChanges ==
    ASSUME NEW names \in Seq(KexNames), NEW left \in Seq(KexNames), left # names,
           NEW pad \in Buffers, NEW tail \in Buffers
    PROVE  Packet(KexInitPayload(left), pad) # Packet(KexInitPayload(names), pad) \o tail
<1>1. KexInitPayload(names) \in Buffers /\ KexInitPayload(left) \in Buffers
  <2>1. PICK m, c, l, n, o \in Buffers : IsKexPayload(names, m, c, l, n, o)
    BY KexPayloadParts
  <2>2. PICK m2, c2, l2, n2, o2 \in Buffers : IsKexPayload(left, m2, c2, l2, n2, o2)
    BY KexPayloadParts
  <2> QED BY <2>1, <2>2, KexPayloadRead
<1>2. PICK w \in Buffers : w = Packet(KexInitPayload(names), pad) \o tail
                           /\ Has(w, 0, Packet(KexInitPayload(names), pad))
  BY <1>1, PacketRead, FollowedBy
<1>3. PICK v \in Buffers : v = Packet(KexInitPayload(left), pad)
                           /\ Has(v, 0, Packet(KexInitPayload(left), pad))
  BY <1>1, PacketRead, HasAll
<1>4. KexinitAlgorithms(w) = Returned(names) /\ KexinitAlgorithms(v) = Returned(left)
  BY <1>2, <1>3, KexinitAlgorithmsResult
<1>5. Returned(names).value = names /\ Returned(left).value = left
  BY DEF Returned
<1> QED BY <1>2, <1>3, <1>4, <1>5, Zenon

\* A packet of which a part is missing is refused.
LEMMA CutPacket ==
    ASSUME NEW payload \in Buffers, NEW pad \in Buffers, pad # <<>>, NEW x \in Buffers,
           Leads(payload, x), Len(x) = 1, Size(x) = 1, NEW p, CutOf(Packet(payload, pad), p)
    PROVE  KexinitAlgorithmBounds(p) = Raised /\ FindKexEcdhInit(p) = Raised
<1>1. PICK a, b \in Buffers : IsPacket(payload, pad, a, b)
  BY PacketParts
<1>2. /\ IsNum(a, 4, 1 + Size(payload) + Size(pad)) /\ IsNum(b, 1, Size(pad))
      /\ Packet(payload, pad) = a \o b \o payload \o pad
  BY <1>1 DEF IsPacket
<1>3. Size(a) = 4 /\ Size(b) = 1 /\ Len(a) = 1 /\ Len(b) = 1
  BY <1>2 DEF IsNum
<1>4. PICK ab \in Buffers : ab = a \o b /\ Len(ab) = 2 /\ Size(ab) = 5 /\ Leads(ab, a)
  <2>1. a \o b \in Buffers /\ Len(a \o b) = Len(a) + Len(b) /\ Size(a \o b) = Size(a) + Size(b)
        /\ Leads(a \o b, a)
    BY ConcatOfBuffers, SizeOfConcat, LeadsConcat
  <2>2. Len(a) + Len(b) = 2 /\ Size(a) + Size(b) = 5
    BY <1>3
  <2> QED BY <2>1, <2>2, Zenon
<1>5. PICK q \in Buffers : q = ab \o payload /\ Leads(q, ab) /\ Leads(q, ab \o x)
  BY LeadsConcat, LeadsInside
<1>6. PICK m \in Buffers : m = q \o pad /\ Leads(m, q)
  BY LeadsConcat
<1>7. Packet(payload, pad) = m
  BY <1>2, <1>4, <1>5, <1>6, Zenon
<1>8. Size(m) = 5 + Size(payload) + Size(pad) /\ Size(payload) \in Nat /\ Size(pad) \in Nat
  BY <1>7, PacketRead
<1>9. CASE p = SubSeq(m, 1, Len(m) - 1)
  <2>1. Len(m) = Len(q) + Len(pad) /\ Len(m) \in Nat /\ Len(q) \in Nat /\ Len(pad) \in Nat
    BY <1>6, ConcatOfBuffers, StartsOfBuffer
  <2>2. Len(pad) > 0
    BY <2>1 DEF Buffers
  <2>3. Len(q) >= 2
    BY <2>1, <1>4, <1>5, LeadsBuffer
  <2>4. PICK n \in Nat : n = Len(m) - 1 /\ n < Len(m) /\ 2 <= n
    <3>1. Len(m) - 1 \in Nat /\ Len(m) - 1 < Len(m) /\ 2 <= Len(m) - 1
      BY <2>1, <2>2, <2>3
    <3> QED BY <3>1
  <2>5. p \in Buffers
    BY <2>4, <2>1, <1>9, CutBuffer
  <2>6. Size(p) < Size(m)
    BY <2>4, <1>9, CutShorter
  <2>7. Leads(m, a)
    <3>1. Leads(m, ab)
      BY <1>5, <1>6, LeadsOn
    <3> QED BY <3>1, <1>4, LeadsOn
  <2>8. Has(p, 0, a)
    <3>1. Leads(p, a)
      <4>1. n <= Len(m) /\ Len(a) <= n
        BY <2>1, <2>4, <1>3
      <4>2. Leads(SubSeq(m, 1, n), a)
        BY <4>1, <2>7, CutLeads
      <4> QED BY <4>2, <2>4, <1>9, Zenon
    <3> QED BY <3>1, <2>5, LeadsHas
  <2>9. Read(p, 0, 4) = 1 + Size(payload) + Size(pad)
    BY <2>5, <2>8, <1>2, ReadOfNum
  <2>10. ~(PacketEnd(p) <= Size(p))
    <3>1. PacketEnd(p) = Size(m)
      BY <2>9, <1>8 DEF PacketEnd
    <3>2. Size(p) \in Nat /\ Size(m) \in Nat
      BY <2>5, StartsOfBuffer
    <3> QED BY <2>6, <3>1, <3>2
  <2> QED BY <2>10, Zenon DEF KexinitAlgorithmBounds, FindKexEcdhInit
<1>10. CASE p = SubSeq(m, 1, 3)
  <2>1. PICK abx \in Buffers : abx = ab \o x /\ Len(abx) = 3 /\ Size(abx) = 6
    <3>1. ab \o x \in Buffers /\ Len(ab \o x) = Len(ab) + Len(x) /\ Size(ab \o x) = Size(ab) + Size(x)
      BY ConcatOfBuffers, SizeOfConcat
    <3>2. Len(ab) + Len(x) = 3 /\ Size(ab) + Size(x) = 6
      BY <1>4
    <3> QED BY <3>1, <3>2, Zenon
  <2>2. Leads(m, abx)
    BY <2>1, <1>5, <1>6, LeadsOn
  <2>3. p = abx
    BY <2>1, <2>2, <1>10, CutIs
  <2>4. ~(Size(p) >= 26) /\ ~(Size(p) >= 10)
    BY <2>1, <2>3
  <2> QED BY <2>4, Zenon DEF KexinitAlgorithmBounds, FindKexEcdhInit
<1> QED BY <1>7, <1>9, <1>10 DEF CutOf

\* The padding of a packet is at least four bytes.
LEMMA PaddingIs ==
    ASSUME NEW payload \in Buffers
    PROVE  /\ Padding(payload) \in Nat
           /\ Opaque("padding", Padding(payload)) \in Buffers
           /\ Opaque("padding", Padding(payload)) # <<>>
           /\ Padded(payload) = Packet(payload, Opaque("padding", Padding(payload)))
<1>1. PICK n \in Nat : n = Size(payload)
  BY StartsOfBuffer
<1>2. PICK s \in 0 .. 7 : s = (5 + n) % 8
  <2>1. (5 + n) % 8 \in 0 .. 7
    OBVIOUS
  <2> QED BY <2>1
<1>3. Padding(payload) = IF s > 4 THEN 16 - s ELSE 8 - s
  BY <1>1, <1>2, Zenon DEF Padding
<1>4. PICK k \in Nat : k = Padding(payload) /\ k # 0
  <2>1. (IF s > 4 THEN 16 - s ELSE 8 - s) \in Nat /\ (IF s > 4 THEN 16 - s ELSE 8 - s) # 0
    BY <1>2
  <2> QED BY <2>1, <1>3
<1>5. PICK pad \in Buffers : pad = Opaque("padding", k) /\ Size(pad) = k
  BY Names, OpaqueBuffer, Zenon
<1>6. pad # <<>>
  BY <1>4, <1>5, EmptyBuffer
<1> QED BY <1>4, <1>5, <1>6, Zenon DEF Padded

-----------------------------------------------------------------------------
\* KEX_ECDH_INIT.

\* The public value: two keys if it is long enough for them.
BlobOf(blob, key) ==
    IF blob < SNTRUP761_PUBLICKEY_BYTES THEN Opaque("ecdh", blob)
    ELSE Num("pq", SNTRUP761_PUBLICKEY_BYTES, key) \o Opaque("ecdh", blob - SNTRUP761_PUBLICKEY_BYTES)

\* The public value has the size the message says.
LEMMA BlobIs ==
    ASSUME NEW blob \in Nat, NEW key \in Int
    PROVE  BlobOf(blob, key) \in Buffers /\ Size(BlobOf(blob, key)) = blob
<1>1. PICK l \in Nat \ {0} : l = SNTRUP761_PUBLICKEY_BYTES
  BY DEF SNTRUP761_PUBLICKEY_BYTES
<1>2. CASE blob < l
  <2>1. BlobOf(blob, key) = Opaque("ecdh", blob)
    BY <1>1, <1>2, Zenon DEF BlobOf
  <2>2. Opaque("ecdh", blob) \in Buffers /\ Size(Opaque("ecdh", blob)) = blob
    BY Names, OpaqueBuffer, Zenon
  <2> QED BY <2>1, <2>2, Zenon
<1>3. CASE ~(blob < l)
  <2>1. PICK r \in Nat : r = blob - l /\ l + r = blob
    <3>1. blob - l \in Nat /\ l + (blob - l) = blob
      BY <1>3
    <3> QED BY <3>1
  <2>2. BlobOf(blob, key) = Num("pq", l, key) \o Opaque("ecdh", r)
    BY <1>1, <1>3, <2>1, Zenon DEF BlobOf
  <2>3. PICK b \in Buffers : b = Num("pq", l, key) /\ Size(b) = l
    <3>1. IsNum(Num("pq", l, key), l, key)
      BY Names, NumIs, Zenon
    <3> QED BY <3>1 DEF IsNum
  <2>4. PICK c \in Buffers : c = Opaque("ecdh", r) /\ Size(c) = r
    BY Names, OpaqueBuffer, Zenon
  <2>5. b \o c \in Buffers /\ Size(b \o c) = Size(b) + Size(c)
    BY SizeOfConcat
  <2>6. Size(b \o c) = blob
    BY <2>1, <2>3, <2>4, <2>5
  <2> QED BY <2>2, <2>3, <2>4, <2>5, <2>6, Zenon
<1> QED BY <1>2, <1>3

\* The payload of a KEX_ECDH_INIT by its three fields.
IsEcdhPayload(blob, key, m, l, v) ==
    /\ IsNum(m, 1, SSH_MSG_KEX_ECDH_INIT) /\ IsNum(l, 4, blob)
    /\ m = Num("message", 1, SSH_MSG_KEX_ECDH_INIT) /\ l = Num("blob length", 4, blob)
    /\ v \in Buffers /\ Size(v) = blob /\ v = BlobOf(blob, key)
    /\ EcdhInitPayload(blob, key) = m \o l \o v

\* The payload of a KEX_ECDH_INIT has these fields.
LEMMA EcdhPayloadParts ==
    ASSUME NEW blob \in Nat, NEW key \in Int
    PROVE  \E m, l, v \in Buffers : IsEcdhPayload(blob, key, m, l, v)
<1>1. 4 \in Nat \ {0} /\ 1 \in Nat \ {0} /\ blob \in Int
  OBVIOUS
<1>2. SSH_MSG_KEX_ECDH_INIT \in Int
  BY DEF SSH_MSG_KEX_ECDH_INIT
<1>3. PICK m \in Buffers :
         m = Num("message", 1, SSH_MSG_KEX_ECDH_INIT) /\ IsNum(m, 1, SSH_MSG_KEX_ECDH_INIT)
  <2>1. IsNum(Num("message", 1, SSH_MSG_KEX_ECDH_INIT), 1, SSH_MSG_KEX_ECDH_INIT)
    BY <1>1, <1>2, Names, NumIs, Zenon
  <2> QED BY <2>1 DEF IsNum
<1>4. PICK l \in Buffers : l = Num("blob length", 4, blob) /\ IsNum(l, 4, blob)
  <2>1. IsNum(Num("blob length", 4, blob), 4, blob)
    BY <1>1, Names, NumIs, Zenon
  <2> QED BY <2>1 DEF IsNum
<1>5. PICK v \in Buffers : v = BlobOf(blob, key) /\ Size(v) = blob
  BY BlobIs
<1>6. EcdhInitPayload(blob, key) = m \o l \o v
  BY <1>3, <1>4, <1>5, Zenon DEF EcdhInitPayload, BlobOf
<1>7. IsEcdhPayload(blob, key, m, l, v)
  BY <1>3, <1>4, <1>5, <1>6, Zenon DEF IsEcdhPayload
<1> QED BY <1>7, Zenon

\* Its size, and what is read of it in a packet.
LEMMA EcdhPayloadRead ==
    ASSUME NEW blob \in Nat, NEW key \in Int
    PROVE  /\ EcdhInitPayload(blob, key) \in Buffers
           /\ Size(EcdhInitPayload(blob, key)) = 5 + blob
           /\ \E x \in Buffers : Leads(EcdhInitPayload(blob, key), x) /\ Len(x) = 1 /\ Size(x) = 1
           /\ \A w \in Buffers : Has(w, 5, EcdhInitPayload(blob, key)) =>
                 Read(w, 5, 1) = SSH_MSG_KEX_ECDH_INIT /\ Read(w, 6, 4) = blob
<1>1. PICK m, l, v \in Buffers : IsEcdhPayload(blob, key, m, l, v)
  BY EcdhPayloadParts
<1>2. /\ Size(m) = 1 /\ Len(m) = 1 /\ Size(l) = 4 /\ Size(v) = blob
      /\ IsNum(m, 1, SSH_MSG_KEX_ECDH_INIT) /\ IsNum(l, 4, blob)
  BY <1>1 DEF IsEcdhPayload, IsNum
<1>3. PICK p \in Buffers : p = m \o l \o v /\ Size(p) = 5 + blob /\ Leads(p, m)
  <2>1. m \o l \in Buffers /\ m \o l \o v \in Buffers
        /\ Size(m \o l \o v) = Size(m) + Size(l) + Size(v)
    BY ThreeParts
  <2>2. Size(m) + Size(l) + Size(v) = 5 + blob
    BY <1>2
  <2>3. Leads(m \o l, m) /\ Leads(m \o l \o v, m \o l)
    BY <2>1, LeadsConcat
  <2>4. Leads(m \o l \o v, m)
    BY <2>1, <2>3, LeadsOn
  <2> QED BY <2>1, <2>2, <2>4, Zenon
<1>4. EcdhInitPayload(blob, key) = p
  BY <1>1, <1>3, Zenon DEF IsEcdhPayload
<1>5. ASSUME NEW w \in Buffers, Has(w, 5, p)
      PROVE  Read(w, 5, 1) = SSH_MSG_KEX_ECDH_INIT /\ Read(w, 6, 4) = blob
  <2>1. Has(w, 5, m) /\ Has(w, 5 + Size(m), l)
    BY <1>3, <1>5, HasThree
  <2>2. 5 + Size(m) = 6
    BY <1>2
  <2>3. Has(w, 6, l)
    BY <2>1, <2>2
  <2> QED BY <2>1, <2>3, <1>2, ReadOfNum
<1> QED BY <1>2, <1>3, <1>4, <1>5, Zenon

\* find_kex_ecdh_init finds the public value of a whole packet.
LEMMA FindKexEcdhInitResult ==
    ASSUME NEW blob \in Nat, NEW key \in Int, NEW pad \in Buffers, NEW w \in Buffers,
           Has(w, 0, Packet(EcdhInitPayload(blob, key), pad))
    PROVE  FindKexEcdhInit(w) = Returned(<<10, blob>>)
<1>1. PICK p \in Buffers : p = EcdhInitPayload(blob, key) /\ Size(p) = 5 + blob
  BY EcdhPayloadRead
<1>2. PICK k \in Nat : k = Size(pad)
  BY StartsOfBuffer
<1>3. PacketFields(w, p, pad)
  BY <1>1, PacketRead
<1>4. /\ PacketEnd(w) = 5 + (5 + blob) + k /\ PayloadEnd(w) = 5 + (5 + blob)
      /\ PacketEnd(w) <= Size(w) /\ Has(w, 5, p)
  BY <1>1, <1>2, <1>3 DEF PacketFields
<1>5. Size(w) \in Nat
  BY StartsOfBuffer
<1>6. Read(w, 5, 1) = SSH_MSG_KEX_ECDH_INIT /\ Read(w, 6, 4) = blob
  BY <1>1, <1>4, EcdhPayloadRead
<1>7. Size(w) >= 10 /\ PayloadEnd(w) >= 10 /\ 10 + blob <= PayloadEnd(w)
  BY <1>4, <1>5
<1> QED BY <1>4, <1>6, <1>7, Zenon DEF FindKexEcdhInit

\* The packets of two payloads of one size have the same framing.
LEMMA FramedPacket ==
    ASSUME NEW pad \in Buffers, NEW a \in Buffers, NEW b \in Buffers,
           NEW w, NEW v, NEW off, Size(a) = Size(b), Framed(w, v, off, a, b)
    PROVE  Framed(Packet(w, pad), Packet(v, pad), 5 + off, a, b)
<1>1. w \in Buffers /\ v \in Buffers /\ Size(w) = Size(v) /\ off \in Nat
  BY FramedBuffers
<1>2. PICK x, y \in Buffers : IsPacket(w, pad, x, y)
  BY <1>1, PacketParts
<1>3. /\ Packet(w, pad) = x \o y \o w \o pad
      /\ x = Num("packet length", 4, 1 + Size(w) + Size(pad))
      /\ y = Num("padding length", 1, Size(pad))
  BY <1>2, Zenon DEF IsPacket
<1>4. Packet(v, pad) = x \o y \o v \o pad
  BY <1>1, <1>3, Zenon DEF Packet
<1>5. PICK h \in Buffers : h = x \o y /\ Size(h) = 5
  <2>1. x \o y \in Buffers /\ Size(x \o y) = Size(x) + Size(y)
    BY SizeOfConcat
  <2>2. Size(x) = 4 /\ Size(y) = 1
    BY <1>2 DEF IsPacket, IsNum
  <2>3. Size(x) + Size(y) = 5
    BY <2>2
  <2> QED BY <2>1, <2>3, Zenon
<1>6. Framed(h \o w, h \o v, Size(h) + off, a, b)
  BY FramedLeft
<1>7. Framed(h \o w \o pad, h \o v \o pad, Size(h) + off, a, b)
  BY <1>6, FramedRight
<1> QED BY <1>3, <1>4, <1>5, <1>7, Zenon

\* forge_ssh_pq_component inverts the post-quantum key of a public value that
\* holds one, and refuses any other.
LEMMA ForgeSshResult ==
    ASSUME NEW blob \in Nat, NEW key \in Int, key # 0, NEW tail \in Buffers
    PROVE  LET w == EncodeEcdhInit(blob, key) \o tail
               v == EncodeEcdhInit(blob, 0 - key) \o tail
           IN  /\ blob >= SNTRUP761_PUBLICKEY_BYTES + X25519_BYTES =>
                     ForgeSshPqComponent(w) = Returned(v) /\ w # v
               /\ ~(blob >= SNTRUP761_PUBLICKEY_BYTES + X25519_BYTES) => ForgeSshPqComponent(w) = Raised
<1>1. PICK p \in Buffers : p = EcdhInitPayload(blob, key) /\ Size(p) = 5 + blob
  BY EcdhPayloadRead
<1>2. PICK neg \in Int : neg = 0 - key
  OBVIOUS
<1>3. PICK q \in Buffers : q = EcdhInitPayload(blob, neg) /\ Size(q) = 5 + blob
  BY EcdhPayloadRead
<1>4. Padding(q) = Padding(p)
  BY <1>1, <1>3, Zenon DEF Padding
<1>5. PICK pad \in Buffers : pad = Opaque("padding", Padding(p))
  BY PaddingIs
<1>6. EncodeEcdhInit(blob, key) = Packet(p, pad) /\ EncodeEcdhInit(blob, neg) = Packet(q, pad)
  BY <1>1, <1>3, <1>4, <1>5, PaddingIs, Zenon DEF EncodeEcdhInit
<1>7. PICK w \in Buffers : w = Packet(p, pad) \o tail /\ Has(w, 0, Packet(p, pad))
  BY PacketRead, FollowedBy
<1>8. PICK v : v = Packet(q, pad) \o tail
  OBVIOUS
<1>9. PICK found : found = <<10, blob>>
  OBVIOUS
<1>10. found[1] = 10 /\ found[2] = blob
  BY <1>9
<1>11. FindKexEcdhInit(w).ok /\ FindKexEcdhInit(w).value = found
  <2>1. FindKexEcdhInit(w) = Returned(found)
    BY <1>1, <1>7, <1>9, FindKexEcdhInitResult
  <2> QED BY <2>1 DEF Returned
<1>12. PICK l \in Nat \ {0} : l = SNTRUP761_PUBLICKEY_BYTES
  BY DEF SNTRUP761_PUBLICKEY_BYTES
<1>13. PICK e \in Nat : e = X25519_BYTES
  BY DEF X25519_BYTES
<1>14. CASE ~(blob >= l + e)
  <2>1. blob < l + e
    BY <1>14
  <2>2. ForgeSshPqComponent(w) = Raised
    BY <2>1, <1>10, <1>11, <1>12, <1>13, Zenon DEF ForgeSshPqComponent, Then
  <2> QED BY <2>2, <1>2, <1>6, <1>7, <1>12, <1>13, <1>14, Zenon
<1>15. CASE blob >= l + e
  <2>1. ~(blob < l + e) /\ ~(blob < l)
    BY <1>15
  <2>2. ForgeSshPqComponent(w) = Returned(Inverted(w, 10, l))
    BY <2>1, <1>10, <1>11, <1>12, <1>13, Zenon DEF ForgeSshPqComponent, Then
  <2>3. PICK b : b = Num("pq", l, key)
    OBVIOUS
  <2>4. PICK c : c = Num("pq", l, neg)
    OBVIOUS
  <2>5. Inverts(b, c, l)
    BY <2>3, <2>4, <1>2, Names, NumInverts, Zenon
  <2>6. b \in Buffers /\ c \in Buffers /\ Size(b) = l /\ Size(c) = l /\ c = Negated(b)
    BY <2>5 DEF Inverts
  <2>7. PICK m, z, x \in Buffers : IsEcdhPayload(blob, key, m, z, x)
    BY EcdhPayloadParts
  <2>8. m = Num("message", 1, SSH_MSG_KEX_ECDH_INIT) /\ z = Num("blob length", 4, blob)
    BY <2>7, Zenon DEF IsEcdhPayload
  <2>9. PICK r \in Nat : r = blob - l
    <3>1. blob - l \in Nat
      BY <2>1
    <3> QED BY <3>1
  <2>10. PICK y \in Buffers : y = Opaque("ecdh", r)
    BY Names, OpaqueBuffer, Zenon
  <2>11. p = m \o z \o (b \o y) /\ q = m \o z \o (c \o y)
    BY <1>1, <1>3, <1>12, <2>1, <2>3, <2>4, <2>8, <2>9, <2>10, Zenon DEF EcdhInitPayload
  <2>12. PICK mz \in Buffers : mz = m \o z /\ Size(mz) = 5
    <3>1. m \o z \in Buffers /\ Size(m \o z) = Size(m) + Size(z)
      BY SizeOfConcat
    <3>2. Size(m) = 1 /\ Size(z) = 4
      BY <2>7 DEF IsEcdhPayload, IsNum
    <3>3. Size(m) + Size(z) = 5
      BY <3>2
    <3> QED BY <3>1, <3>3, Zenon
  <2>13. Framed(b \o y, c \o y, 0, b, c)
    BY <2>6, FramedSelf, FramedRight
  <2>14. Framed(p, q, 5, b, c)
    <3>1. Framed(mz \o (b \o y), mz \o (c \o y), Size(mz) + 0, b, c)
      BY <2>6, <2>13, FramedLeft
    <3>2. Size(mz) + 0 = 5
      BY <2>12
    <3> QED BY <3>1, <3>2, <2>11, <2>12, Zenon
  <2>15. Framed(Packet(p, pad), Packet(q, pad), 10, b, c)
    <3>1. Framed(Packet(p, pad), Packet(q, pad), 5 + 5, b, c)
      BY <2>6, <2>14, FramedPacket
    <3>2. 5 + 5 = 10
      OBVIOUS
    <3> QED BY <3>1, <3>2
  <2>16. Framed(w, v, 10, b, c)
    <3>1. Framed(Packet(p, pad) \o tail, Packet(q, pad) \o tail, 10, b, c)
      BY <2>6, <2>15, FramedRight
    <3> QED BY <3>1, <1>7, <1>8, Zenon
  <2>17. Inverted(w, 10, l) = v
    BY <2>6, <2>16, InvertedOf
  <2>18. w # v
    BY <2>5, <2>6, <2>16, FramedDiffer
  <2> QED BY <2>2, <2>17, <2>18, <1>2, <1>6, <1>7, <1>8, <1>12, <1>13, <1>15, Zenon
<1> QED BY <1>14, <1>15

-----------------------------------------------------------------------------
\* The server's answer.

\* What a server sends.
Answers == [hrr : BOOLEAN, group : Nat, order : Seq({0, TLS_KEY_SHARE}), sid : Nat]

\* The extensions of an answer.
AnswerPayloads(hello) == [k \in DOMAIN hello.order |-> AnswerPayload(hello, hello.order[k])]
AnswerExts(hello) ==
    [k \in DOMAIN hello.order |->
        Extension(hello.order[k], AnswerPayload(hello, hello.order[k]))]

\* The key share of an answer starts with its group.
LEMMA AnswerPayloadRead ==
    ASSUME NEW hello \in Answers, NEW type
    PROVE  /\ AnswerPayload(hello, type) \in Buffers
           /\ type = TLS_KEY_SHARE =>
                 \A w \in Buffers : \A off \in Int : Has(w, off, AnswerPayload(hello, type)) =>
                    Read(w, off, 2) = hello.group
<1>1. PICK g \in Nat : g = hello.group
  BY DEF Answers
<1>2. 2 \in Nat /\ 2 \in Nat \ {0} /\ g \in Int
  OBVIOUS
<1>3. CASE type # TLS_KEY_SHARE
  <2>1. AnswerPayload(hello, type) = Opaque("other extension", 2)
    BY <1>3, Zenon DEF AnswerPayload
  <2>2. Opaque("other extension", 2) \in Buffers
    BY <1>2, Names, OpaqueBuffer, Zenon
  <2> QED BY <2>1, <2>2, <1>3, Zenon
<1>4. CASE type = TLS_KEY_SHARE /\ hello.hrr
  <2>1. AnswerPayload(hello, type) = Num("group", 2, g)
    BY <1>1, <1>4, Zenon DEF AnswerPayload
  <2>2. PICK a : a = Num("group", 2, g) /\ IsNum(a, 2, g)
    BY <1>2, Names, NumIs, Zenon
  <2>3. a \in Buffers
    BY <2>2 DEF IsNum
  <2>4. \A w \in Buffers : \A off \in Int : Has(w, off, a) => Read(w, off, 2) = g
    BY <2>2, ReadOfNum, Zenon
  <2> QED BY <2>1, <2>2, <2>3, <2>4, <1>1, Zenon
<1>5. CASE type = TLS_KEY_SHARE /\ ~hello.hrr
  <2>1. PICK s \in KeyShares : s = ServerShare(g) /\ s.group = g
    <3>1. ServerShare(g) \in KeyShares /\ ServerShare(g).group = g
      BY DEF ServerShare, KeyShares
    <3> QED BY <3>1
  <2>2. PICK v \in Buffers : v = ShareValue(s)
    BY ShareValueBuffer
  <2>3. AnswerPayload(hello, type) = Typed("share group", g, v)
    BY <1>1, <1>5, <2>1, <2>2, Zenon DEF AnswerPayload, ShareEntry
  <2>4. PICK name \in FieldNames : name = "share group"
    BY Names, Zenon
  <2>5. PICK a \in Buffers : a = Typed(name, g, v)
    BY <1>2, TypedBuffer
  <2>6. \A w \in Buffers : \A off \in Int : Has(w, off, a) => Read(w, off, 2) = g
    BY <1>2, <2>5, TypedBuffer
  <2> QED BY <2>3, <2>4, <2>5, <2>6, <1>1, Zenon
<1> QED BY <1>3, <1>4, <1>5

\* What the proofs use of an answer.
LEMMA AnswerFields ==
    ASSUME NEW hello \in Answers
    PROVE  /\ hello.sid \in Nat /\ hello.hrr \in BOOLEAN /\ hello.group \in Nat
           /\ Len(hello.order) \in Nat /\ DOMAIN hello.order = 1 .. Len(hello.order)
           /\ \A k \in 1 .. Len(hello.order) : hello.order[k] \in Int
<1>1. hello.order \in Seq({0, TLS_KEY_SHARE}) /\ hello.sid \in Nat /\ hello.hrr \in BOOLEAN
      /\ hello.group \in Nat
  BY DEF Answers
<1>2. {0, TLS_KEY_SHARE} \subseteq Int
  BY DEF TLS_KEY_SHARE
<1> QED BY <1>1, <1>2

\* The extensions of an answer are triples.
LEMMA AnswerTyped ==
    ASSUME NEW hello \in Answers
    PROVE  /\ AnswerExts(hello) \in Seq(Buffers)
           /\ Len(AnswerExts(hello)) = Len(hello.order)
           /\ TypedOk(AnswerExts(hello), hello.order, AnswerPayloads(hello), "extension type")
           /\ Flat(AnswerExts(hello)) \in Buffers
           /\ Size(Flat(AnswerExts(hello))) \in Nat
           /\ \A k \in 1 .. Len(hello.order) :
                 AnswerPayloads(hello)[k] = AnswerPayload(hello, hello.order[k])
<1> DEFINE o == hello.order
           n == Len(hello.order)
<1>1. n \in Nat /\ DOMAIN o = 1 .. n /\ \A k \in 1 .. n : o[k] \in Int
  BY AnswerFields
<1>2. \A k \in 1 .. n : AnswerPayload(hello, o[k]) \in Buffers
  BY AnswerPayloadRead
<1> HIDE DEF o, n
<1>3. ASSUME NEW k \in 1 .. n
      PROVE  /\ Extension(o[k], AnswerPayload(hello, o[k])) \in Buffers
             /\ Extension(o[k], AnswerPayload(hello, o[k]))
                  = Typed("extension type", o[k], AnswerPayload(hello, o[k]))
  <2>1. Typed("extension type", o[k], AnswerPayload(hello, o[k])) \in Buffers
    BY <1>1, <1>2, Names, TypedBuffer, Zenon
  <2> QED BY <2>1, Zenon DEF Extension
<1>4. /\ AnswerExts(hello) = [k \in 1 .. n |-> Extension(o[k], AnswerPayload(hello, o[k]))]
      /\ AnswerPayloads(hello) = [k \in 1 .. n |-> AnswerPayload(hello, o[k])]
  BY <1>1, Zenon DEF AnswerExts, AnswerPayloads, o
<1>5. AnswerExts(hello) \in Seq(Buffers) /\ Len(AnswerExts(hello)) = n
  <2>1. \A k \in 1 .. n : Extension(o[k], AnswerPayload(hello, o[k])) \in Buffers
    BY <1>3
  <2> QED BY <1>1, <1>4, <2>1
<1>6. \A k \in 1 .. n :
         /\ AnswerPayloads(hello)[k] = AnswerPayload(hello, o[k])
         /\ AnswerExts(hello)[k] = Extension(o[k], AnswerPayload(hello, o[k]))
  BY <1>4
<1>7. ASSUME NEW k \in 1 .. n
      PROVE  /\ AnswerPayloads(hello)[k] \in Buffers
             /\ AnswerExts(hello)[k] = Typed("extension type", o[k], AnswerPayloads(hello)[k])
  BY <1>2, <1>3, <1>6, Zenon
<1>8. TypedOk(AnswerExts(hello), o, AnswerPayloads(hello), "extension type")
  BY <1>1, <1>5, <1>7, Names, Zenon DEF TypedOk
<1>9. Flat(AnswerExts(hello)) \in Buffers
  BY <1>5, FlatBuffer
<1>10. Size(Flat(AnswerExts(hello))) \in Nat
  BY <1>9, StartsOfBuffer
<1> QED BY <1>5, <1>6, <1>8, <1>9, <1>10 DEF o, n

\* What precedes the extensions of an answer.
AnswerHead(hrr, sid) ==
    Num("version", 2, 0) \o Num("random", 32, IF hrr THEN 1 ELSE 0)
    \o Num("session id length", 1, sid) \o Opaque("session id", sid)
    \o Opaque("suite and method", 3)

\* The same by its five fields.
IsAnswerHead(hrr, sid, a, b, c, d, e) ==
    /\ Size(a) = 2 /\ IsNum(b, 32, IF hrr THEN 1 ELSE 0) /\ IsNum(c, 1, sid)
    /\ Size(d) = sid /\ Size(e) = 3
    /\ AnswerHead(hrr, sid) = a \o b \o c \o d \o e

\* What precedes the extensions of an answer is five fields.
LEMMA AnswerHeadParts ==
    ASSUME NEW sid \in Nat, NEW hrr \in BOOLEAN
    PROVE  \E a, b, c, d, e \in Buffers : IsAnswerHead(hrr, sid, a, b, c, d, e)
<1>1. /\ 0 \in Int /\ sid \in Int /\ 1 \in Nat \ {0} /\ 2 \in Nat \ {0} /\ 3 \in Nat
  OBVIOUS
<1>2. PICK l \in Nat \ {0} : l = 32
  OBVIOUS
<1>3. PICK x \in Int : x = IF hrr THEN 1 ELSE 0
  OBVIOUS
<1>4. PICK a \in Buffers : a = Num("version", 2, 0) /\ Size(a) = 2
  <2>1. IsNum(Num("version", 2, 0), 2, 0)
    BY <1>1, Names, NumIs, Zenon
  <2> QED BY <2>1 DEF IsNum
<1>5. PICK b \in Buffers : b = Num("random", l, x) /\ IsNum(b, l, x)
  <2>1. IsNum(Num("random", l, x), l, x)
    BY Names, NumIs, Zenon
  <2> QED BY <2>1 DEF IsNum
<1>6. PICK c \in Buffers : c = Num("session id length", 1, sid) /\ IsNum(c, 1, sid)
  <2>1. IsNum(Num("session id length", 1, sid), 1, sid)
    BY <1>1, Names, NumIs, Zenon
  <2> QED BY <2>1 DEF IsNum
<1>7. PICK d \in Buffers : d = Opaque("session id", sid) /\ Size(d) = sid
  BY Names, OpaqueBuffer, Zenon
<1>8. PICK e \in Buffers : e = Opaque("suite and method", 3) /\ Size(e) = 3
  BY <1>1, Names, OpaqueBuffer, Zenon
<1>9. AnswerHead(hrr, sid) = a \o b \o c \o d \o e
  BY <1>2, <1>3, <1>4, <1>5, <1>6, <1>7, <1>8 DEF AnswerHead
<1>10. IsAnswerHead(hrr, sid, a, b, c, d, e)
  BY <1>2, <1>3, <1>4, <1>5, <1>6, <1>7, <1>8, <1>9 DEF IsAnswerHead
<1> QED BY <1>10, Zenon

\* Its size, and what _server_hello reads of it.
LEMMA AnswerHeadRead ==
    ASSUME NEW sid \in Nat, NEW hrr \in BOOLEAN
    PROVE  /\ AnswerHead(hrr, sid) \in Buffers
           /\ Size(AnswerHead(hrr, sid)) = 38 + sid
           /\ \A w \in Buffers : Has(w, 9, AnswerHead(hrr, sid)) =>
                 Read(w, 11, 32) = (IF hrr THEN 1 ELSE 0) /\ Read(w, 43, 1) = sid
<1>1. PICK a, b, c, d, e \in Buffers : IsAnswerHead(hrr, sid, a, b, c, d, e)
  BY AnswerHeadParts
<1>2. PICK x \in Int : x = IF hrr THEN 1 ELSE 0
  OBVIOUS
<1>3. /\ Size(a) = 2 /\ IsNum(b, 32, x) /\ IsNum(c, 1, sid) /\ Size(b) = 32 /\ Size(c) = 1
      /\ Size(d) = sid /\ Size(e) = 3
      /\ AnswerHead(hrr, sid) = a \o b \o c \o d \o e
  BY <1>1, <1>2 DEF IsAnswerHead, IsNum
<1>4. PICK abc \in Buffers : abc = a \o b \o c /\ Size(abc) = 35
  <2>1. a \o b \o c \in Buffers /\ Size(a \o b \o c) = Size(a) + Size(b) + Size(c)
    BY ThreeParts
  <2>2. Size(a) + Size(b) + Size(c) = 35
    BY <1>3
  <2> QED BY <2>1, <2>2, Zenon
<1>5. PICK h \in Buffers : h = abc \o d \o e /\ Size(h) = 38 + sid
  <2>1. abc \o d \o e \in Buffers /\ Size(abc \o d \o e) = Size(abc) + Size(d) + Size(e)
    BY ThreeParts
  <2>2. Size(abc) + Size(d) + Size(e) = 38 + sid
    BY <1>3, <1>4
  <2> QED BY <2>1, <2>2, Zenon
<1>6. AnswerHead(hrr, sid) = h
  BY <1>3, <1>4, <1>5, Zenon
<1>7. ASSUME NEW w \in Buffers, Has(w, 9, h)
      PROVE  Read(w, 11, 32) = x /\ Read(w, 43, 1) = sid
  <2>1. Has(w, 9, abc)
    BY <1>5, <1>7, HasThree
  <2>2. Has(w, 9 + Size(a), b) /\ Has(w, 9 + Size(a) + Size(b), c)
    BY <2>1, <1>4, HasThree
  <2>3. 9 + Size(a) = 11 /\ 9 + Size(a) + Size(b) = 43
    BY <1>3
  <2>4. Has(w, 11, b) /\ Has(w, 43, c)
    BY <2>2, <2>3
  <2> QED BY <2>4, <1>3, ReadOfNum
<1> QED BY <1>2, <1>5, <1>6, <1>7

\* The last extension of a type.
LEMMA LastOfType ==
    ASSUME NEW exts, NEW n \in Nat, Len(exts) = n, DOMAIN exts = 1 .. n, NEW type
    PROVE  \/ OfType(exts, type) = <<>> /\ \A k \in 1 .. n : exts[k].type # type
           \/ /\ OfType(exts, type) # <<>>
              /\ \E k \in 1 .. n : exts[k].type = type /\ Last(OfType(exts, type)) = exts[k]
<1>1. PICK K : K = {k \in DOMAIN exts : exts[k].type = type}
  OBVIOUS
<1>2. PICK p : p = Positions(n, K)
  OBVIOUS
<1>3. Lists(p, n, K)
  BY <1>2, PositionsListed
<1>4. PICK m \in Nat : m = Len(p)
  BY <1>3 DEF Lists
<1>5. PICK s : s = OfType(exts, type)
  OBVIOUS
<1>6. s = [j \in 1 .. m |-> exts[p[j]]]
  <2>1. s = Kept(exts, K)
    BY <1>1, <1>5, Zenon DEF OfType
  <2>2. Kept(exts, K) = [j \in 1 .. Len(Positions(n, K)) |-> exts[Positions(n, K)[j]]]
    BY KeptAt
  <2> QED BY <2>1, <2>2, <1>2, <1>4, Zenon
<1>7. CASE m = 0
  <2>1. s = <<>>
    BY <1>6, <1>7
  <2>2. \A k \in 1 .. n : k \notin K
    BY <1>3, <1>4, <1>7 DEF Lists
  <2>3. \A k \in 1 .. n : exts[k].type # type
    BY <2>2, <1>1
  <2> QED BY <2>1, <2>3, <1>5
<1>8. CASE m # 0
  <2>1. m \in 1 .. m
    BY <1>8
  <2>2. Len(s) = m /\ s # <<>>
    BY <1>6, <1>8
  <2>3. PICK k : k = p[m]
    OBVIOUS
  <2>4. k \in 1 .. n /\ k \in K
    BY <2>1, <2>3, <1>3, <1>4 DEF Lists
  <2>5. s[m] = exts[k]
    BY <2>1, <2>3, <1>6
  <2>6. Last(s) = exts[k]
    BY <2>2, <2>5 DEF Last
  <2> QED BY <2>2, <2>4, <2>6, <1>1, <1>5
<1> QED BY <1>7, <1>8

\* _server_hello reads whether an answer is a HelloRetryRequest and the group
\* of its key share.
LEMMA ReadServerHelloResult ==
    ASSUME NEW hello \in Answers, NEW w \in Buffers, Has(w, 0, EncodeServerHello(hello))
    PROVE  /\ ReadServerHello(w)
              = Returned([hrr |-> hello.hrr,
                          group |-> IF TLS_KEY_SHARE \in ToSet(hello.order) THEN hello.group ELSE 0])
           /\ Size(w) >= 49
<1>1. PICK sid \in Nat : sid = hello.sid
  BY AnswerFields
<1>2. PICK hrr \in BOOLEAN : hrr = hello.hrr
  BY AnswerFields
<1>3. PICK ws \in Seq(Buffers) : ws = AnswerExts(hello)
  BY AnswerTyped
<1>4. PICK exts \in Buffers : exts = Flat(ws)
  BY FlatBuffer
<1>5. PICK z \in Nat : z = Size(exts)
  BY StartsOfBuffer
<1>6. PICK h \in Buffers : h = AnswerHead(hrr, sid) /\ Size(h) = 38 + sid
  BY AnswerHeadRead
<1>7. PICK name \in FieldNames : name = "extensions length"
  BY Names, Zenon
<1>8. PICK v \in Buffers : v = Vector(name, exts) /\ Size(v) = 2 + z
  <2>1. Vector(name, exts) \in Buffers /\ Size(Vector(name, exts)) = 2 + Size(exts)
    BY VectorRead
  <2> QED BY <2>1, <1>5
<1>9. PICK body \in Buffers : body = h \o v /\ Size(body) = 40 + sid + z
  <2>1. h \o v \in Buffers /\ Size(h \o v) = Size(h) + Size(v)
    BY SizeOfConcat
  <2>2. Size(h) + Size(v) = 40 + sid + z
    BY <1>6, <1>8
  <2> QED BY <2>1, <2>2, Zenon
<1>10. EncodeServerHello(hello) = Record(TLS_SERVER_HELLO, body)
  BY <1>1, <1>2, <1>3, <1>4, <1>6, <1>7, <1>8, <1>9, Zenon
     DEF EncodeServerHello, AnswerHead, AnswerExts
<1>11. PICK t \in Int : t = TLS_SERVER_HELLO
  BY DEF TLS_SERVER_HELLO
<1>12. RecordFields(w, t, body) /\ Size(Record(t, body)) = 9 + Size(body) /\ Record(t, body) \in Buffers
  <2>1. Has(w, 0, Record(t, body))
    BY <1>10, <1>11
  <2> QED BY <2>1, RecordRead
<1>13. Read(w, 3, 2) = 44 + sid + z /\ Read(w, 5, 1) = t /\ Has(w, 9, body)
  BY <1>9, <1>12 DEF RecordFields
<1>14. Has(w, 9, h) /\ Has(w, 47 + sid, v)
  <2>1. Has(w, 9, h) /\ Has(w, 9 + Size(h), v)
    BY <1>9, <1>13, HasConcat
  <2>2. 9 + Size(h) = 47 + sid
    BY <1>6
  <2> QED BY <2>1, <2>2
<1>15. Read(w, 11, 32) = (IF hrr THEN 1 ELSE 0) /\ Read(w, 43, 1) = sid
  BY <1>6, <1>14, AnswerHeadRead
<1>16. PICK at \in Int : at = 47 + sid
  OBVIOUS
<1>17. Read(w, at, 2) = z /\ Has(w, at + 2, exts)
  <2>1. Has(w, at, v)
    BY <1>14, <1>16
  <2>2. Read(w, at, 2) = Size(exts) /\ Has(w, at + 2, exts)
    BY <2>1, <1>8, VectorRead
  <2> QED BY <2>2, <1>5
<1>18. EndOf(w, 3, 2) = 49 + sid + z
  BY <1>13 DEF EndOf
<1>19. EndOf(w, 3, 2) <= Size(w) /\ Size(w) \in Nat
  <2>1. PICK m \in Buffers : m = Record(t, body) /\ Size(m) = 49 + sid + z
    BY <1>9, <1>12
  <2>2. 0 + Size(m) <= Size(w)
    BY <2>1, <1>10, <1>11, SliceOfPart
  <2>3. Size(w) \in Nat
    BY StartsOfBuffer
  <2> QED BY <2>1, <2>2, <2>3, <1>18
<1>20. EndOf(w, 43, 1) + 3 = at
  BY <1>15, <1>16 DEF EndOf
<1>21. EndOf(w, at, 2) = at + 2 + z /\ EndOf(w, at, 2) = 49 + sid + z
  BY <1>16, <1>17 DEF EndOf
<1>22. PICK start \in Nat : start = at + 2
  <2>1. at + 2 \in Nat
    BY <1>16
  <2> QED BY <2>1
<1>23. PICK n \in Nat : n = Len(hello.order) /\ DOMAIN hello.order = 1 .. n /\ Len(ws) = n
  BY <1>3, AnswerFields, AnswerTyped
<1>24. PICK found : found = EntriesOf(ws, hello.order, start, n)
  OBVIOUS
<1>25. TypedOk(ws, hello.order, AnswerPayloads(hello), "extension type")
  BY <1>3, AnswerTyped
<1>26. Triples(w, at + 2, EndOf(w, at, 2)) = found
  <2>1. Has(w, start, Flat(ws)) /\ start \in Int
    BY <1>4, <1>17, <1>22
  <2>2. PICK types : types = hello.order
    OBVIOUS
  <2>3. PICK nm : TypedOk(ws, types, AnswerPayloads(hello), nm)
    BY <1>25, <2>2, Zenon
  <2>4. Triples(w, start, start + Size(Flat(ws))) = EntriesOf(ws, types, start, Len(ws))
    BY <2>1, <2>3, TriplesOfTyped
  <2>5. start + Size(Flat(ws)) = EndOf(w, at, 2)
    BY <1>4, <1>5, <1>21, <1>22
  <2> QED BY <2>2, <2>4, <2>5, <1>22, <1>23, <1>24, Zenon
<1>27. ~Truncated(found, EndOf(w, at, 2))
  <2>1. ~Truncated(EntriesOf(ws, hello.order, start, Len(ws)), start + Size(Flat(ws)))
    BY EntriesWithin
  <2>2. start + Size(Flat(ws)) = EndOf(w, at, 2)
    BY <1>4, <1>5, <1>21, <1>22
  <2> QED BY <2>1, <2>2, <1>23, <1>24, Zenon
<1>28. ReadServerHello(w) = HelloAnswer(w, found, EndOf(w, at, 2))
  <2>1. ~(EndOf(w, 3, 2) > Size(w)) /\ ~(EndOf(w, 3, 2) < 47) /\ ~(EndOf(w, at, 2) > EndOf(w, 3, 2))
    BY <1>18, <1>19, <1>21
  <2>2. Read(w, 5, 1) = TLS_SERVER_HELLO
    BY <1>11, <1>13
  <2>3. ReadServerHello(w) = AtAnswer(w, at)
    BY <2>1, <2>2, <1>20, Zenon DEF ReadServerHello
  <2> QED BY <2>1, <2>3, <1>26, Zenon DEF AtAnswer
<1>29. PICK shares : shares = OfType(found, TLS_KEY_SHARE)
  OBVIOUS
<1>30. HelloAnswer(w, found, EndOf(w, at, 2))
       = Returned([hrr   |-> Read(w, 11, 32) = 1,
                   group |-> IF shares = <<>> THEN 0 ELSE Read(w, Last(shares).from, 2)])
  BY <1>27, <1>29, Zenon DEF HelloAnswer
<1>31. (Read(w, 11, 32) = 1) = hello.hrr
  <2>1. Read(w, 11, 32) = 1 <=> hrr
    BY <1>15
  <2>2. (Read(w, 11, 32) = 1) \in BOOLEAN /\ hrr \in BOOLEAN
    OBVIOUS
  <2> QED BY <2>1, <2>2, <1>2, Zenon
<1>32. /\ DOMAIN found = 1 .. n /\ Len(found) = n
       /\ \A k \in 1 .. n : found[k] = Entry(ws, hello.order, start, k)
  <2>1. found = [k \in 1 .. n |-> Entry(ws, hello.order, start, k)]
    BY <1>24, Zenon DEF EntriesOf
  <2> QED BY <2>1
<1>33. \A k \in 1 .. n : found[k].type = hello.order[k] /\ found[k].from = start + Offs(ws)[k] + 4
  BY <1>32 DEF Entry
<1>34. TLS_KEY_SHARE \in ToSet(hello.order) <=> \E k \in 1 .. n : hello.order[k] = TLS_KEY_SHARE
  BY <1>23 DEF ToSet
<1>35. (IF shares = <<>> THEN 0 ELSE Read(w, Last(shares).from, 2))
       = IF TLS_KEY_SHARE \in ToSet(hello.order) THEN hello.group ELSE 0
  <2>1. CASE \A k \in 1 .. n : found[k].type # TLS_KEY_SHARE
    <3>1. shares = <<>>
      BY <2>1, <1>29, <1>32, OfTypeNone
    <3>2. TLS_KEY_SHARE \notin ToSet(hello.order)
      BY <2>1, <1>33, <1>34
    <3> QED BY <3>1, <3>2, Zenon
  <2>2. CASE ~ \A k \in 1 .. n : found[k].type # TLS_KEY_SHARE
    <3>1. shares # <<>> /\ \E k \in 1 .. n : found[k].type = TLS_KEY_SHARE /\ Last(shares) = found[k]
      BY <2>2, <1>29, <1>32, LastOfType
    <3>2. PICK k \in 1 .. n : found[k].type = TLS_KEY_SHARE /\ Last(shares) = found[k]
      BY <3>1
    <3>3. hello.order[k] = TLS_KEY_SHARE /\ found[k].from = start + Offs(ws)[k] + 4
      BY <3>2, <1>33
    <3>4. TLS_KEY_SHARE \in ToSet(hello.order)
      BY <3>3, <1>34
    <3>5. PICK pay \in Buffers : pay = AnswerPayload(hello, hello.order[k])
      BY AnswerPayloadRead
    <3>6. AnswerPayloads(hello)[k] = pay
      BY <3>5, <1>23, AnswerTyped
    <3>7. PICK off \in Int : off = start + Offs(ws)[k] + 4 /\ Has(w, off, pay)
      <4>1. Has(w, start, Flat(ws)) /\ start \in Int
        BY <1>4, <1>17, <1>22
      <4>2. PICK types : types = hello.order
        OBVIOUS
      <4>3. PICK nm : TypedOk(ws, types, AnswerPayloads(hello), nm)
        BY <1>25, <4>2, Zenon
      <4>4. k \in 1 .. Len(ws)
        BY <1>23
      <4>5. Offs(ws)[k] \in Nat /\ Has(w, start + Offs(ws)[k] + 4, AnswerPayloads(hello)[k])
        BY <4>1, <4>3, <4>4, TypedParts
      <4>6. start + Offs(ws)[k] + 4 \in Int
        BY <4>5
      <4> QED BY <4>5, <4>6, <3>6
    <3>8. Read(w, off, 2) = hello.group
      BY <3>3, <3>5, <3>7, AnswerPayloadRead
    <3>9. Read(w, Last(shares).from, 2) = hello.group
      BY <3>2, <3>3, <3>7, <3>8, Zenon
    <3> QED BY <3>1, <3>4, <3>9, Zenon
  <2> QED BY <2>1, <2>2
<1>36. Size(w) >= 49
  BY <1>18, <1>19
<1> QED BY <1>28, <1>30, <1>31, <1>35, <1>36, Zenon

-----------------------------------------------------------------------------
\* The state machine.  The operators of Rewrite that read the variables, with
\* the variables as parameters.

\* Message, Around, Mutate and Parsed.
MessageOf(o, h, m) ==
    CASE o \in {"strip_hybrid", "forge_pq_component"} -> EncodeClientHello(m)
      [] o = "none"                    -> EncodeServerHello(m)
      [] o = "strip_kexinit_algorithm" -> EncodeKexInit(m)
      [] o = "forge_ssh_pq_component"  -> EncodeEcdhInit(m, h)
AroundOf(c, b, w) == CASE c = "whole"  -> w \o Opaque("behind", b)
                       [] c = "last"   -> SubSeq(w, 1, Len(w) - 1)
                       [] c = "header" -> SubSeq(w, 1, 3)
ResultOf(o, h, d) == CASE o = "strip_hybrid"            -> StripHybrid(d, h)
                       [] o = "forge_pq_component"      -> ForgePqComponent(d, h)
                       [] o = "strip_kexinit_algorithm" -> StripKexinitAlgorithm(d, h)
                       [] o = "forge_ssh_pq_component"  -> ForgeSshPqComponent(d)
                       [] o = "none"                    -> Returned(d)
MutateOf(o, h, d) == LET out == ResultOf(o, h, d) IN IF out.ok THEN out.value ELSE d
ParsedOf(o, d) ==
    IF Size(d) < 6 THEN Raised
    ELSE CASE o \in {"strip_hybrid", "forge_pq_component"} -> ReadClientHello(d)
           [] o = "none"                    -> ReadServerHello(d)
           [] o = "strip_kexinit_algorithm" -> KexinitAlgorithms(d)
           [] o = "forge_ssh_pq_component"  -> Raised

\* What a run starts from, and never changes.
Given(o, h, m, c, b) ==
    /\ \/ /\ o \in {"strip_hybrid", "forge_pq_component"}
          /\ h \in DOMAIN PQ_COMPONENTS
          /\ m \in ClientHellos
       \/ o = "none" /\ h = 0 /\ m \in ServerHellos
       \/ o = "strip_kexinit_algorithm" /\ h = HybridKex /\ m \in KexLists
       \/ o = "forge_ssh_pq_component" /\ h = HybridKex /\ m \in Blobs
    /\ c \in {"whole", "last", "header"}
    /\ b \in Behind

\* The inductive invariant: what was relayed is what the transform makes of
\* the buffer received, and what was captured is what the parser reads in it.
RewriteInv ==
    /\ Given(op, hybrid, msg, cut, behind)
    /\ stage \in {"sent", "relayed", "captured"}
    /\ stage # "sent" =>
          relayed = MutateOf(op, hybrid, AroundOf(cut, behind, MessageOf(op, hybrid, msg)))
    /\ stage = "captured" => seen = ParsedOf(op, relayed)

\* The operators of Rewrite are these, of the variables.
LEMMA OfVariables ==
    /\ Message = MessageOf(op, hybrid, msg)
    /\ \A w : Around(w) = AroundOf(cut, behind, w)
    /\ \A d : Mutate(d) = MutateOf(op, hybrid, d)
    /\ \A d : Parsed(d) = ParsedOf(op, d)
<1>1. Message = MessageOf(op, hybrid, msg)
  BY Zenon DEF Message, MessageOf
<1>2. \A w : Around(w) = AroundOf(cut, behind, w)
  BY Zenon DEF Around, AroundOf
<1>3. \A d : Mutate(d) = MutateOf(op, hybrid, d)
  BY Zenon DEF Mutate, Transform, MutateOf, ResultOf
<1>4. \A d : Parsed(d) = ParsedOf(op, d)
  BY Zenon DEF Parsed, ParsedOf
<1> QED BY <1>1, <1>2, <1>3, <1>4

\* The inductive invariant holds in every state of a run.
LEMMA RewriteInvariant == Spec => []RewriteInv
<1>1. Init => RewriteInv
  BY Zenon DEF Init, RewriteInv, Given
<1>2. RewriteInv /\ [Next]_vars => RewriteInv'
  <2> SUFFICES ASSUME RewriteInv, [Next]_vars PROVE RewriteInv'
    OBVIOUS
  <2>1. CASE Relay
    <3>1. /\ stage' = "relayed" /\ relayed' = Mutate(Around(Message))
          /\ op' = op /\ hybrid' = hybrid /\ msg' = msg /\ cut' = cut /\ behind' = behind
      BY <2>1 DEF Relay
    <3>2. Mutate(Around(Message)) = MutateOf(op, hybrid, AroundOf(cut, behind, MessageOf(op, hybrid, msg)))
      BY OfVariables, Zenon
    <3>3. Given(op, hybrid, msg, cut, behind)
      BY DEF RewriteInv
    <3>4. Given(op', hybrid', msg', cut', behind')
      BY <3>1, <3>3, Zenon
    <3>5. relayed' = MutateOf(op', hybrid', AroundOf(cut', behind', MessageOf(op', hybrid', msg')))
      BY <3>1, <3>2, Zenon
    <3> QED BY <3>1, <3>4, <3>5, Zenon DEF RewriteInv
  <2>2. CASE Capture
    <3>1. /\ stage = "relayed" /\ stage' = "captured" /\ seen' = Parsed(relayed) /\ relayed' = relayed
          /\ op' = op /\ hybrid' = hybrid /\ msg' = msg /\ cut' = cut /\ behind' = behind
      BY <2>2 DEF Capture
    <3>2. Parsed(relayed) = ParsedOf(op, relayed)
      BY OfVariables, Zenon
    <3>3. /\ Given(op, hybrid, msg, cut, behind)
          /\ relayed = MutateOf(op, hybrid, AroundOf(cut, behind, MessageOf(op, hybrid, msg)))
      BY <3>1, Zenon DEF RewriteInv
    <3>4. Given(op', hybrid', msg', cut', behind')
      BY <3>1, <3>3, Zenon
    <3>5. relayed' = MutateOf(op', hybrid', AroundOf(cut', behind', MessageOf(op', hybrid', msg')))
      BY <3>1, <3>3, Zenon
    <3>6. seen' = ParsedOf(op', relayed')
      BY <3>1, <3>2, Zenon
    <3> QED BY <3>1, <3>4, <3>5, <3>6, Zenon DEF RewriteInv
  <2>3. CASE UNCHANGED vars
    BY <2>3, Zenon DEF RewriteInv, vars
  <2> QED BY <2>1, <2>2, <2>3 DEF Next
<1> QED BY <1>1, <1>2, PTL DEF Spec

-----------------------------------------------------------------------------
\* What each transform makes of the buffers a recv can return.

\* How a recv returns a message.
Cuts == {"whole", "last", "header"}

\* The buffer is the message and what follows it, or a part of the message.
LEMMA AroundIs ==
    ASSUME NEW c \in Cuts, NEW b \in Behind, NEW w
    PROVE  /\ Opaque("behind", b) \in Buffers
           /\ c = "whole" => AroundOf(c, b, w) = w \o Opaque("behind", b)
           /\ c # "whole" => CutOf(w, AroundOf(c, b, w))
<1>1. b \in Nat
  BY SizesAreNumbers
<1>2. Opaque("behind", b) \in Buffers
  BY <1>1, Names, OpaqueBuffer, Zenon
<1>3. c = "whole" => AroundOf(c, b, w) = w \o Opaque("behind", b)
  BY Zenon DEF AroundOf
<1>4. c = "last" => AroundOf(c, b, w) = SubSeq(w, 1, Len(w) - 1)
  BY Zenon DEF AroundOf
<1>5. c = "header" => AroundOf(c, b, w) = SubSeq(w, 1, 3)
  BY Zenon DEF AroundOf
<1>6. c # "whole" => CutOf(w, AroundOf(c, b, w))
  BY <1>4, <1>5, Zenon DEF CutOf, Cuts
<1> QED BY <1>2, <1>3, <1>6

\* A transform that raises leaves the buffer as it is.
LEMMA MutateRaised ==
    ASSUME NEW o, NEW h, NEW d, ResultOf(o, h, d) = Raised
    PROVE  MutateOf(o, h, d) = d
<1>1. ~Raised.ok
  BY DEF Raised
<1> QED BY <1>1, Zenon DEF MutateOf

\* A transform that returns replaces it.
LEMMA MutateReturned ==
    ASSUME NEW o, NEW h, NEW d, NEW x, ResultOf(o, h, d) = Returned(x)
    PROVE  MutateOf(o, h, d) = x
<1>1. Returned(x).ok /\ Returned(x).value = x
  BY DEF Returned
<1> QED BY <1>1, Zenon DEF MutateOf

\* What strip_hybrid makes of the buffer w around a hello: the hello without the
\* group if the record is complete, w itself if it is not.
StripsHybrid(hello, o, h, c, b, w) ==
    /\ c = "whole" =>
          /\ MutateOf(o, h, w) = EncodeClientHello(WithoutGroup(hello, h)) \o Opaque("behind", b)
          /\ MutateOf(o, h, w) # w <=> Offered(hello, h)
    /\ c # "whole" => MutateOf(o, h, w) = w

\* strip_hybrid in the proxy, for every buffer a recv can return.
LEMMA StripHybridOutcome ==
    ASSUME NEW hello \in Hellos, NEW o, o = "strip_hybrid", NEW h, NEW c \in Cuts, NEW b \in Behind,
           NEW w, w = AroundOf(c, b, EncodeClientHello(hello))
    PROVE  StripsHybrid(hello, o, h, c, b, w)
<1>0. ResultOf(o, h, w) = StripHybrid(w, h)
  BY Zenon DEF ResultOf
<1>1. PICK tail \in Buffers : tail = Opaque("behind", b)
  BY AroundIs
<1>2. ASSUME c = "whole"
      PROVE  /\ MutateOf(o, h, w) = EncodeClientHello(WithoutGroup(hello, h)) \o tail
             /\ MutateOf(o, h, w) # w <=> Offered(hello, h)
  <2>1. w = EncodeClientHello(hello) \o tail
    BY <1>1, <1>2, AroundIs, Zenon
  <2>2. StripHybrid(w, h) = Returned(EncodeClientHello(WithoutGroup(hello, h)) \o tail)
    BY <2>1, StripHybridResult
  <2>3. MutateOf(o, h, w) = EncodeClientHello(WithoutGroup(hello, h)) \o tail
    BY <2>2, <1>0, MutateReturned, Zenon
  <2>4. EncodeClientHello(WithoutGroup(hello, h)) \o tail # w <=> Offered(hello, h)
    BY <2>1, StripChanges, Zenon
  <2> QED BY <2>3, <2>4, Zenon
<1>3. ASSUME c # "whole" PROVE MutateOf(o, h, w) = w
  <2>1. CutOf(EncodeClientHello(hello), w)
    BY <1>3, AroundIs, Zenon
  <2>2. StripHybrid(w, h) = Raised
    BY <2>1, CutClientHello
  <2> QED BY <2>2, <1>0, MutateRaised, Zenon
<1> QED BY <1>1, <1>2, <1>3, Zenon DEF StripsHybrid

\* What forge_pq_component makes of it: the hello with the key of the group
\* inverted if it is complete and offers one, w itself otherwise.
ForgesPq(hello, o, h, c, b, w) ==
    /\ c = "whole" /\ Offers(hello, h) =>
          /\ MutateOf(o, h, w) = EncodeClientHello(WithForged(hello, h)) \o Opaque("behind", b)
          /\ MutateOf(o, h, w) # w
    /\ ~(c = "whole" /\ Offers(hello, h)) => MutateOf(o, h, w) = w

\* forge_pq_component in the proxy, for every buffer a recv can return.
LEMMA ForgePqOutcome ==
    ASSUME NEW hello \in Hellos, NEW o, o = "forge_pq_component", NEW h \in DOMAIN PQ_COMPONENTS,
           NEW c \in Cuts, NEW b \in Behind, NEW w, w = AroundOf(c, b, EncodeClientHello(hello))
    PROVE  ForgesPq(hello, o, h, c, b, w)
<1>0. ResultOf(o, h, w) = ForgePqComponent(w, h)
  BY Zenon DEF ResultOf
<1>1. PICK tail \in Buffers : tail = Opaque("behind", b)
  BY AroundIs
<1>2. ASSUME c = "whole", Offers(hello, h)
      PROVE  /\ MutateOf(o, h, w) = EncodeClientHello(WithForged(hello, h)) \o tail
             /\ MutateOf(o, h, w) # w
  <2>1. w = EncodeClientHello(hello) \o tail
    BY <1>1, <1>2, AroundIs, Zenon
  <2>2. /\ ForgePqComponent(w, h) = Returned(EncodeClientHello(WithForged(hello, h)) \o tail)
        /\ w # EncodeClientHello(WithForged(hello, h)) \o tail
    BY <1>2, <2>1, ForgePqResult, Zenon
  <2>3. MutateOf(o, h, w) = EncodeClientHello(WithForged(hello, h)) \o tail
    BY <2>2, <1>0, MutateReturned, Zenon
  <2> QED BY <2>2, <2>3, Zenon
<1>3. ASSUME c = "whole", ~Offers(hello, h) PROVE MutateOf(o, h, w) = w
  <2>1. w = EncodeClientHello(hello) \o tail
    BY <1>1, <1>3, AroundIs, Zenon
  <2>2. ForgePqComponent(w, h) = Raised
    BY <1>3, <2>1, ForgePqResult, ZenonT(60)
  <2> QED BY <2>2, <1>0, MutateRaised, Zenon
<1>4. ASSUME c # "whole" PROVE MutateOf(o, h, w) = w
  <2>1. CutOf(EncodeClientHello(hello), w)
    BY <1>4, AroundIs, Zenon
  <2>2. ForgePqComponent(w, h) = Raised
    BY <2>1, CutClientHello
  <2> QED BY <2>2, <1>0, MutateRaised, Zenon
<1> QED BY <1>1, <1>2, <1>3, <1>4, Zenon DEF ForgesPq

\* The KEXINIT packet of a client: its framing.
LEMMA KexInitIs ==
    ASSUME NEW names \in Seq(KexNames)
    PROVE  /\ KexInitPayload(names) \in Buffers
           /\ Opaque("padding", Padding(KexInitPayload(names))) \in Buffers
           /\ Opaque("padding", Padding(KexInitPayload(names))) # <<>>
           /\ EncodeKexInit(names)
                = Packet(KexInitPayload(names), Opaque("padding", Padding(KexInitPayload(names))))
           /\ \E x \in Buffers : Leads(KexInitPayload(names), x) /\ Len(x) = 1 /\ Size(x) = 1
<1>1. PICK m, c, l, n, o \in Buffers : IsKexPayload(names, m, c, l, n, o)
  BY KexPayloadParts
<1>2. KexInitPayload(names) \in Buffers /\ Leads(KexInitPayload(names), m)
  BY <1>1, KexPayloadRead
<1>3. Len(m) = 1 /\ Size(m) = 1
  BY <1>1 DEF IsKexPayload, IsNum
<1>4. PICK p \in Buffers : p = KexInitPayload(names)
  BY <1>2
<1>5. /\ Opaque("padding", Padding(p)) \in Buffers /\ Opaque("padding", Padding(p)) # <<>>
      /\ Padded(p) = Packet(p, Opaque("padding", Padding(p)))
  BY PaddingIs
<1>6. EncodeKexInit(names) = Padded(p)
  BY <1>4, Zenon DEF EncodeKexInit
<1> QED BY <1>2, <1>3, <1>4, <1>5, <1>6, Zenon

\* What strip_kexinit_algorithm makes of the buffer w around a KEXINIT: the packet
\* of the shortened list if there is a name to remove, w itself otherwise.
StripsName(names, o, h, c, b, w) ==
    /\ c = "whole" /\ WithoutName(names, h) # names =>
          /\ MutateOf(o, h, w) = Packet(KexInitPayload(WithoutName(names, h)),
                                        Opaque("padding", Padding(KexInitPayload(names))))
          /\ MutateOf(o, h, w) # w
    /\ ~(c = "whole" /\ WithoutName(names, h) # names) => MutateOf(o, h, w) = w

\* strip_kexinit_algorithm in the proxy, for every buffer a recv can return.
LEMMA StripKexinitOutcome ==
    ASSUME NEW names \in Seq(KexNames), NEW o, o = "strip_kexinit_algorithm", NEW h, NEW c \in Cuts,
           NEW b \in Behind, NEW w, w = AroundOf(c, b, EncodeKexInit(names))
    PROVE  StripsName(names, o, h, c, b, w)
<1>0. ResultOf(o, h, w) = StripKexinitAlgorithm(w, h)
  BY Zenon DEF ResultOf
<1>1. PICK tail \in Buffers : tail = Opaque("behind", b)
  BY AroundIs
<1>2. PICK pad \in Buffers : pad = Opaque("padding", Padding(KexInitPayload(names))) /\ pad # <<>>
  BY KexInitIs
<1>3. EncodeKexInit(names) = Packet(KexInitPayload(names), pad)
  BY <1>2, KexInitIs, Zenon
<1>4. PICK left \in Seq(KexNames) : left = WithoutName(names, h)
  BY WithoutNameIs
<1>5. ASSUME c = "whole"
      PROVE  StripKexinitAlgorithm(w, h)
             = Returned(IF left = names THEN w ELSE Packet(KexInitPayload(left), pad))
             /\ w = Packet(KexInitPayload(names), pad) \o tail
  <2>1. w = Packet(KexInitPayload(names), pad) \o tail
    BY <1>1, <1>3, <1>5, AroundIs, Zenon
  <2>2. StripKexinitAlgorithm(Packet(KexInitPayload(names), pad) \o tail, h)
        = Returned(IF WithoutName(names, h) = names THEN Packet(KexInitPayload(names), pad) \o tail
                   ELSE Packet(KexInitPayload(WithoutName(names, h)), pad))
    BY StripKexinitResult
  <2> QED BY <2>1, <2>2, <1>4, Zenon
<1>6. ASSUME c = "whole", left # names
      PROVE  MutateOf(o, h, w) = Packet(KexInitPayload(left), pad) /\ MutateOf(o, h, w) # w
  <2>1. StripKexinitAlgorithm(w, h) = Returned(Packet(KexInitPayload(left), pad))
    BY <1>5, <1>6, Zenon
  <2>2. MutateOf(o, h, w) = Packet(KexInitPayload(left), pad)
    BY <2>1, <1>0, MutateReturned, Zenon
  <2>3. Packet(KexInitPayload(left), pad) # w
    BY <1>5, <1>6, StripKexinitChanges
  <2> QED BY <2>2, <2>3, Zenon
<1>7. ASSUME c = "whole", left = names PROVE MutateOf(o, h, w) = w
  <2>1. StripKexinitAlgorithm(w, h) = Returned(w)
    BY <1>5, <1>7, Zenon
  <2>2. ResultOf(o, h, w) = Returned(w)
    BY <2>1, <1>0
  <2> QED BY <2>2, MutateReturned
<1>8. ASSUME c # "whole" PROVE MutateOf(o, h, w) = w
  <2>1. CutOf(Packet(KexInitPayload(names), pad), w)
    BY <1>3, <1>8, AroundIs, Zenon
  <2>2. PICK x \in Buffers : Leads(KexInitPayload(names), x) /\ Len(x) = 1 /\ Size(x) = 1
    BY KexInitIs, Zenon
  <2>3. KexInitPayload(names) \in Buffers
    BY KexInitIs, Zenon
  <2>4. KexinitAlgorithmBounds(w) = Raised
    BY <2>1, <2>2, <2>3, <1>2, CutPacket
  <2>5. ~Raised.ok
    BY DEF Raised
  <2>6. KexinitAlgorithms(w) = Raised
    BY <2>4, <2>5, Zenon DEF KexinitAlgorithms, Then
  <2>7. StripKexinitAlgorithm(w, h) = Raised
    BY <2>5, <2>6, Zenon DEF StripKexinitAlgorithm, Then
  <2> QED BY <2>7, <1>0, MutateRaised, Zenon
<1> QED BY <1>2, <1>4, <1>6, <1>7, <1>8, Zenon DEF StripsName

\* What forge_ssh_pq_component makes of the buffer w around a KEX_ECDH_INIT: the
\* packet with the inverted key if the public value is long enough.
ForgesSsh(blob, o, h, c, b, w) ==
    /\ c = "whole" /\ blob >= SNTRUP761_PUBLICKEY_BYTES + X25519_BYTES =>
          /\ MutateOf(o, h, w) = EncodeEcdhInit(blob, 0 - h) \o Opaque("behind", b)
          /\ MutateOf(o, h, w) # w
    /\ ~(c = "whole" /\ blob >= SNTRUP761_PUBLICKEY_BYTES + X25519_BYTES)
          => MutateOf(o, h, w) = w

\* forge_ssh_pq_component in the proxy, for every buffer a recv can return.
LEMMA ForgeSshOutcome ==
    ASSUME NEW blob \in Nat, NEW o, o = "forge_ssh_pq_component", NEW h, h = HybridKex, NEW c \in Cuts,
           NEW b \in Behind, NEW w, w = AroundOf(c, b, EncodeEcdhInit(blob, h))
    PROVE  ForgesSsh(blob, o, h, c, b, w)
<1>0. ResultOf(o, h, w) = ForgeSshPqComponent(w)
  BY Zenon DEF ResultOf
<1>1. PICK tail \in Buffers : tail = Opaque("behind", b)
  BY AroundIs
<1>2. h \in Int /\ h # 0
  BY DEF HybridKex
<1>3. ASSUME c = "whole" PROVE w = EncodeEcdhInit(blob, h) \o tail
  BY <1>1, <1>3, AroundIs, Zenon
<1>4. ASSUME c = "whole", blob >= SNTRUP761_PUBLICKEY_BYTES + X25519_BYTES
      PROVE  MutateOf(o, h, w) = EncodeEcdhInit(blob, 0 - h) \o tail /\ MutateOf(o, h, w) # w
  <2>1. /\ ForgeSshPqComponent(w) = Returned(EncodeEcdhInit(blob, 0 - h) \o tail)
        /\ w # EncodeEcdhInit(blob, 0 - h) \o tail
    BY <1>2, <1>3, <1>4, ForgeSshResult, Zenon
  <2>2. MutateOf(o, h, w) = EncodeEcdhInit(blob, 0 - h) \o tail
    BY <2>1, <1>0, MutateReturned, Zenon
  <2> QED BY <2>1, <2>2, Zenon
<1>5. ASSUME c = "whole", ~(blob >= SNTRUP761_PUBLICKEY_BYTES + X25519_BYTES)
      PROVE  MutateOf(o, h, w) = w
  <2>1. ForgeSshPqComponent(w) = Raised
    BY <1>2, <1>3, <1>5, ForgeSshResult, Zenon
  <2> QED BY <2>1, <1>0, MutateRaised, Zenon
<1>6. ASSUME c # "whole" PROVE MutateOf(o, h, w) = w
  <2>1. PICK p \in Buffers : p = EcdhInitPayload(blob, h)
    BY <1>2, EcdhPayloadRead
  <2>2. PICK x \in Buffers : Leads(p, x) /\ Len(x) = 1 /\ Size(x) = 1
    BY <1>2, <2>1, EcdhPayloadRead, Zenon
  <2>3. PICK pad \in Buffers : pad = Opaque("padding", Padding(p)) /\ pad # <<>>
    BY PaddingIs
  <2>4. EncodeEcdhInit(blob, h) = Packet(p, pad)
    BY <2>1, <2>3, PaddingIs, Zenon DEF EncodeEcdhInit
  <2>5. CutOf(Packet(p, pad), w)
    BY <1>6, <2>4, AroundIs, Zenon
  <2>6. FindKexEcdhInit(w) = Raised
    BY <2>2, <2>3, <2>5, CutPacket
  <2>7. ~Raised.ok
    BY DEF Raised
  <2>8. ForgeSshPqComponent(w) = Raised
    BY <2>6, <2>7, Zenon DEF ForgeSshPqComponent, Then
  <2> QED BY <2>8, <1>0, MutateRaised, Zenon
<1> QED BY <1>1, <1>4, <1>5, <1>6, Zenon DEF ForgesSsh

-----------------------------------------------------------------------------
\* The properties.

\* What the invariant says, by transform.
LEMMA GivenIs ==
    ASSUME NEW o, NEW h, NEW m, NEW c, NEW b, Given(o, h, m, c, b)
    PROVE  /\ c \in Cuts /\ b \in Behind
           /\ o = "strip_hybrid" =>
                 m \in Hellos /\ MessageOf(o, h, m) = EncodeClientHello(m)
           /\ o = "forge_pq_component" =>
                 /\ m \in Hellos /\ MessageOf(o, h, m) = EncodeClientHello(m)
                 /\ h \in DOMAIN PQ_COMPONENTS
           /\ o = "none" => m \in Answers /\ MessageOf(o, h, m) = EncodeServerHello(m)
           /\ o = "strip_kexinit_algorithm" =>
                 m \in Seq(KexNames) /\ MessageOf(o, h, m) = EncodeKexInit(m)
           /\ o = "forge_ssh_pq_component" =>
                 m \in Nat /\ h = HybridKex /\ MessageOf(o, h, m) = EncodeEcdhInit(m, h)
           /\ o \in {"strip_hybrid", "forge_pq_component", "none", "strip_kexinit_algorithm",
                     "forge_ssh_pq_component"}
<1>1. c \in Cuts /\ b \in Behind
  BY DEF Given, Cuts
<1>2. ClientHellos \subseteq Hellos /\ ServerHellos \subseteq Answers
      /\ KexLists \subseteq Seq(KexNames) /\ Blobs \subseteq Nat
  BY ClientHellosAreHellos, ServerHellosAreHellos, KexListsAreNames, SizesAreNumbers, Zenon
     DEF Answers, KexNames
<1>3. o = "strip_hybrid" => m \in Hellos /\ MessageOf(o, h, m) = EncodeClientHello(m)
  BY <1>2, Zenon DEF Given, MessageOf
<1>4. o = "forge_pq_component" =>
         m \in Hellos /\ MessageOf(o, h, m) = EncodeClientHello(m) /\ h \in DOMAIN PQ_COMPONENTS
  BY <1>2, Zenon DEF Given, MessageOf
<1>5. o = "none" => m \in Answers /\ MessageOf(o, h, m) = EncodeServerHello(m)
  BY <1>2, Zenon DEF Given, MessageOf
<1>6. o = "strip_kexinit_algorithm" => m \in Seq(KexNames) /\ MessageOf(o, h, m) = EncodeKexInit(m)
  BY <1>2, Zenon DEF Given, MessageOf
<1>7. o = "forge_ssh_pq_component" =>
         m \in Nat /\ h = HybridKex /\ MessageOf(o, h, m) = EncodeEcdhInit(m, h)
  BY <1>2, Zenon DEF Given, MessageOf
<1>8. o \in {"strip_hybrid", "forge_pq_component", "none", "strip_kexinit_algorithm",
             "forge_ssh_pq_component"}
  BY Zenon DEF Given
<1> QED BY <1>1, <1>3, <1>4, <1>5, <1>6, <1>7, <1>8

\* What the properties are about: the buffer received and what was made of it.
LEMMA Relayed ==
    ASSUME RewriteInv, stage # "sent"
    PROVE  /\ relayed = MutateOf(op, hybrid, Around(Message))
           /\ Around(Message) = AroundOf(cut, behind, MessageOf(op, hybrid, msg))
           /\ Given(op, hybrid, msg, cut, behind)
           /\ stage = "captured" => seen = ParsedOf(op, relayed)
<1>1. Around(Message) = AroundOf(cut, behind, MessageOf(op, hybrid, msg))
  BY OfVariables, Zenon
<1> QED BY <1>1, Zenon DEF RewriteInv

\* strip_hybrid sends on, byte for byte, the record of a client that never
\* knew the hybrid.
THEOREM StripCorrect == Spec => []StripIsReencoding
<1>1. RewriteInv => StripIsReencoding
  <2> SUFFICES ASSUME RewriteInv, stage # "sent", op = "strip_hybrid", cut = "whole"
               PROVE  relayed = Around(EncodeClientHello(WithoutGroup(msg, hybrid)))
    BY DEF StripIsReencoding
  <2>1. PICK w : w = Around(Message)
    OBVIOUS
  <2>2. /\ msg \in Hellos /\ cut \in Cuts /\ behind \in Behind
        /\ w = AroundOf(cut, behind, EncodeClientHello(msg))
        /\ relayed = MutateOf(op, hybrid, w)
    BY <2>1, Relayed, GivenIs, Zenon
  <2>3. relayed = EncodeClientHello(WithoutGroup(msg, hybrid)) \o Opaque("behind", behind)
    <3>1. StripsHybrid(msg, op, hybrid, cut, behind, w)
      BY <2>2, StripHybridOutcome
    <3> QED BY <3>1, <2>2, Zenon DEF StripsHybrid
  <2> QED BY <2>2, <2>3, AroundIs, OfVariables, Zenon
<1> QED BY <1>1, RewriteInvariant, PTL

\* strip_kexinit_algorithm sends on the packet of the shortened list.
THEOREM KexStripCorrect == Spec => []KexListShortened
<1>1. RewriteInv => KexListShortened
  <2> SUFFICES ASSUME RewriteInv, stage # "sent", op = "strip_kexinit_algorithm", cut = "whole",
                      WithoutName(msg, hybrid) # msg
               PROVE  relayed = Packet(KexInitPayload(WithoutName(msg, hybrid)),
                                       Opaque("padding", Padding(KexInitPayload(msg))))
    BY DEF KexListShortened
  <2>1. PICK w : w = Around(Message)
    OBVIOUS
  <2>2. /\ msg \in Seq(KexNames) /\ cut \in Cuts /\ behind \in Behind
        /\ w = AroundOf(cut, behind, EncodeKexInit(msg))
        /\ relayed = MutateOf(op, hybrid, w)
    BY <2>1, Relayed, GivenIs, Zenon
  <2>3. StripsName(msg, op, hybrid, cut, behind, w)
    BY <2>2, StripKexinitOutcome
  <2> QED BY <2>2, <2>3, Zenon DEF StripsName
<1> QED BY <1>1, RewriteInvariant, PTL

\* The forgers change the post-quantum key and nothing else.
THEOREM ForgeCorrect == Spec => []ForgeInvertsOnlyPq
<1>1. RewriteInv => ForgeInvertsOnlyPq
  <2> SUFFICES ASSUME RewriteInv, stage # "sent", relayed # Around(Message)
               PROVE  /\ op = "forge_pq_component" =>
                           relayed = Around(EncodeClientHello(WithForged(msg, hybrid)))
                      /\ op = "forge_ssh_pq_component" =>
                           relayed = Around(EncodeEcdhInit(msg, 0 - hybrid))
    BY DEF ForgeInvertsOnlyPq
  <2>1. PICK w : w = Around(Message)
    OBVIOUS
  <2>2. ASSUME op = "forge_pq_component"
        PROVE  relayed = Around(EncodeClientHello(WithForged(msg, hybrid)))
    <3>1. /\ msg \in Hellos /\ cut \in Cuts /\ behind \in Behind /\ hybrid \in DOMAIN PQ_COMPONENTS
          /\ w = AroundOf(cut, behind, EncodeClientHello(msg))
          /\ relayed = MutateOf(op, hybrid, w)
      BY <2>1, <2>2, Relayed, GivenIs, Zenon
    <3>2. /\ cut = "whole"
          /\ relayed = EncodeClientHello(WithForged(msg, hybrid)) \o Opaque("behind", behind)
      <4>1. ForgesPq(msg, op, hybrid, cut, behind, w)
        BY <2>2, <3>1, ForgePqOutcome
      <4> QED BY <2>1, <3>1, <4>1, Zenon DEF ForgesPq
    <3> QED BY <3>1, <3>2, AroundIs, OfVariables, Zenon
  <2>3. ASSUME op = "forge_ssh_pq_component"
        PROVE  relayed = Around(EncodeEcdhInit(msg, 0 - hybrid))
    <3>1. /\ msg \in Nat /\ cut \in Cuts /\ behind \in Behind /\ hybrid = HybridKex
          /\ w = AroundOf(cut, behind, EncodeEcdhInit(msg, hybrid))
          /\ relayed = MutateOf(op, hybrid, w)
      <4>1. Given(op, hybrid, msg, cut, behind)
        BY Relayed
      <4>2. msg \in Nat /\ cut \in Cuts /\ behind \in Behind /\ hybrid = HybridKex
        BY <4>1, <2>3, GivenIs
      <4>3. MessageOf(op, hybrid, msg) = EncodeEcdhInit(msg, hybrid)
        BY <4>1, <2>3, GivenIs
      <4>4. relayed = MutateOf(op, hybrid, w) /\ w = AroundOf(cut, behind, MessageOf(op, hybrid, msg))
        BY <2>1, Relayed
      <4> QED BY <4>2, <4>3, <4>4
    <3>2. /\ cut = "whole"
          /\ relayed = EncodeEcdhInit(msg, 0 - hybrid) \o Opaque("behind", behind)
      <4>1. ForgesSsh(msg, op, hybrid, cut, behind, w)
        BY <2>3, <3>1, ForgeSshOutcome
      <4> QED BY <2>1, <3>1, <4>1, Zenon DEF ForgesSsh
    <3> QED BY <3>1, <3>2, AroundIs, OfVariables, Zenon
  <2> QED BY <2>2, <2>3
<1> QED BY <1>1, RewriteInvariant, PTL

\* A manipulation is logged exactly when the message allowed it.
THEOREM ChangeCorrect == Spec => []ChangedIffApplicable
<1>1. RewriteInv => ChangedIffApplicable
  <2> SUFFICES ASSUME RewriteInv, stage # "sent"
               PROVE  relayed # Around(Message) <=> Applicable
    BY DEF ChangedIffApplicable
  <2>1. PICK w : w = Around(Message)
    OBVIOUS
  <2>2. /\ relayed = MutateOf(op, hybrid, w)
        /\ w = AroundOf(cut, behind, MessageOf(op, hybrid, msg))
        /\ Given(op, hybrid, msg, cut, behind)
    BY <2>1, Relayed, Zenon
  <2>3. CASE op = "strip_hybrid"
    <3>1. /\ msg \in Hellos /\ cut \in Cuts /\ behind \in Behind
          /\ w = AroundOf(cut, behind, EncodeClientHello(msg))
      BY <2>2, <2>3, GivenIs, Zenon
    <3>2. Applicable <=> cut = "whole" /\ Offered(msg, hybrid)
      BY <2>3, Zenon DEF Applicable, Offered
    <3>3. relayed # w <=> cut = "whole" /\ Offered(msg, hybrid)
      <4>1. StripsHybrid(msg, op, hybrid, cut, behind, w)
        BY <2>3, <3>1, StripHybridOutcome
      <4> QED BY <2>2, <4>1, Zenon DEF StripsHybrid
    <3> QED BY <2>1, <3>2, <3>3, Zenon
  <2>4. CASE op = "forge_pq_component"
    <3>1. /\ msg \in Hellos /\ cut \in Cuts /\ behind \in Behind /\ hybrid \in DOMAIN PQ_COMPONENTS
          /\ w = AroundOf(cut, behind, EncodeClientHello(msg))
      BY <2>2, <2>4, GivenIs, Zenon
    <3>2. Applicable <=> cut = "whole" /\ Offers(msg, hybrid)
      BY <2>4, Zenon DEF Applicable, Offers
    <3>3. relayed # w <=> cut = "whole" /\ Offers(msg, hybrid)
      <4>1. ForgesPq(msg, op, hybrid, cut, behind, w)
        BY <2>4, <3>1, ForgePqOutcome
      <4> QED BY <2>2, <4>1, Zenon DEF ForgesPq
    <3> QED BY <2>1, <3>2, <3>3, Zenon
  <2>5. CASE op = "strip_kexinit_algorithm"
    <3>1. /\ msg \in Seq(KexNames) /\ cut \in Cuts /\ behind \in Behind
          /\ w = AroundOf(cut, behind, EncodeKexInit(msg))
      BY <2>2, <2>5, GivenIs, Zenon
    <3>2. Applicable <=> cut = "whole" /\ hybrid \in ToSet(msg)
      BY <2>5, Zenon DEF Applicable
    <3>3. WithoutName(msg, hybrid) # msg <=> hybrid \in ToSet(msg)
      BY <3>1, WithoutNameIs
    <3>4. relayed # w <=> cut = "whole" /\ WithoutName(msg, hybrid) # msg
      <4>1. StripsName(msg, op, hybrid, cut, behind, w)
        BY <2>5, <3>1, StripKexinitOutcome
      <4> QED BY <2>2, <4>1, Zenon DEF StripsName
    <3> QED BY <2>1, <3>2, <3>3, <3>4, Zenon
  <2>6. CASE op = "forge_ssh_pq_component"
    <3>1. /\ msg \in Nat /\ cut \in Cuts /\ behind \in Behind /\ hybrid = HybridKex
          /\ w = AroundOf(cut, behind, EncodeEcdhInit(msg, hybrid))
      <4>1. msg \in Nat /\ cut \in Cuts /\ behind \in Behind /\ hybrid = HybridKex
        BY <2>2, <2>6, GivenIs
      <4>2. MessageOf(op, hybrid, msg) = EncodeEcdhInit(msg, hybrid)
        BY <2>2, <2>6, GivenIs
      <4> QED BY <2>2, <4>1, <4>2
    <3>2. Applicable <=> cut = "whole" /\ msg >= SNTRUP761_PUBLICKEY_BYTES + X25519_BYTES
      BY <2>6, Zenon DEF Applicable
    <3>3. relayed # w <=> cut = "whole" /\ msg >= SNTRUP761_PUBLICKEY_BYTES + X25519_BYTES
      <4>1. ForgesSsh(msg, op, hybrid, cut, behind, w)
        BY <2>6, <3>1, ForgeSshOutcome
      <4> QED BY <2>2, <4>1, Zenon DEF ForgesSsh
    <3> QED BY <2>1, <3>2, <3>3, Zenon
  <2>7. CASE op = "none"
    <3>1. ResultOf(op, hybrid, w) = Returned(w)
      BY <2>7, Zenon DEF ResultOf
    <3>2. relayed = w
      BY <2>2, <3>1, MutateReturned
    <3>3. ~Applicable
      BY <2>7, Zenon DEF Applicable
    <3> QED BY <2>1, <3>2, <3>3, Zenon
  <2> QED BY <2>2, <2>3, <2>4, <2>5, <2>6, <2>7, GivenIs, Zenon
<1> QED BY <1>1, RewriteInvariant, PTL

\* What the capture parser makes of a whole message.
LEMMA HelloParsed ==
    ASSUME NEW hello \in Hellos, NEW tail \in Buffers, NEW w, w = EncodeClientHello(hello) \o tail,
           NEW o, o \in {"strip_hybrid", "forge_pq_component"}
    PROVE  ParsedOf(o, w) = Returned([groups |-> Listed(hello), shares |-> GroupsOfShares(hello)])
<1>1. PICK m \in Buffers : m = EncodeClientHello(hello) /\ Size(m) = ExtsEnd(hello)
  BY HelloBuffer
<1>2. w \in Buffers /\ Has(w, 0, m) /\ Size(w) = Size(m) + Size(tail)
  BY <1>1, FollowedBy
<1>3. ~(Size(w) < 6)
  <2>1. PICK sid \in Nat : sid = hello.sid
    BY HelloFields
  <2>2. PICK z \in Nat : z = Size(Flat(HelloExts(hello)))
    BY ExtsTyped
  <2>3. Size(m) = 56 + sid + z
    BY <1>1, <2>1, <2>2 DEF ExtsEnd
  <2>4. Size(tail) \in Nat
    BY StartsOfBuffer
  <2> QED BY <1>2, <2>3, <2>4
<1>4. ReadClientHello(w) = Returned([groups |-> Listed(hello), shares |-> GroupsOfShares(hello)])
  BY <1>1, <1>2, ReadClientHelloResult
<1>5. ParsedOf(o, w) = ReadClientHello(w)
  BY <1>3, Zenon DEF ParsedOf
<1> QED BY <1>4, <1>5, Zenon

\* The same of an answer.
LEMMA AnswerParsed ==
    ASSUME NEW hello \in Answers, NEW tail \in Buffers, NEW w, w = EncodeServerHello(hello) \o tail,
           NEW o, o = "none", EncodeServerHello(hello) \in Buffers
    PROVE  ParsedOf(o, w)
           = Returned([hrr |-> hello.hrr,
                       group |-> IF TLS_KEY_SHARE \in ToSet(hello.order) THEN hello.group ELSE 0])
<1>1. w \in Buffers /\ Has(w, 0, EncodeServerHello(hello))
  BY FollowedBy
<1>2. /\ ReadServerHello(w)
         = Returned([hrr |-> hello.hrr,
                     group |-> IF TLS_KEY_SHARE \in ToSet(hello.order) THEN hello.group ELSE 0])
      /\ Size(w) >= 49
  BY <1>1, ReadServerHelloResult
<1>3. ~(Size(w) < 6)
  <2>1. Size(w) \in Nat
    BY <1>1, StartsOfBuffer
  <2> QED BY <2>1, <1>2
<1>4. ParsedOf(o, w) = ReadServerHello(w)
  BY <1>3, Zenon DEF ParsedOf
<1> QED BY <1>2, <1>4, Zenon

\* The same of a KEXINIT.
LEMMA NamesParsed ==
    ASSUME NEW names \in Seq(KexNames), NEW pad \in Buffers, NEW w \in Buffers,
           Has(w, 0, Packet(KexInitPayload(names), pad)), NEW o, o = "strip_kexinit_algorithm"
    PROVE  ParsedOf(o, w) = Returned(names)
<1>1. KexinitAlgorithms(w) = Returned(names) /\ Size(w) >= 26
  BY KexinitAlgorithmsResult
<1>2. ~(Size(w) < 6)
  <2>1. Size(w) \in Nat
    BY StartsOfBuffer
  <2> QED BY <2>1, <1>1
<1>3. ParsedOf(o, w) = KexinitAlgorithms(w)
  BY <1>2, Zenon DEF ParsedOf
<1> QED BY <1>1, <1>3, Zenon

\* An answer is a buffer.
LEMMA AnswerBuffer ==
    ASSUME NEW hello \in Answers
    PROVE  EncodeServerHello(hello) \in Buffers
<1>1. PICK exts \in Buffers : exts = Flat(AnswerExts(hello))
  BY AnswerTyped
<1>2. PICK h \in Buffers : h = AnswerHead(hello.hrr, hello.sid)
  BY AnswerFields, AnswerHeadRead
<1>3. PICK v \in Buffers : v = Vector("extensions length", exts)
  BY Names, VectorRead, Zenon
<1>4. PICK body \in Buffers : body = h \o v
  BY ConcatOfBuffers
<1>5. EncodeServerHello(hello) = Record(TLS_SERVER_HELLO, body)
  BY <1>1, <1>2, <1>3, <1>4, Zenon DEF EncodeServerHello, AnswerHead, AnswerExts
<1>6. TLS_SERVER_HELLO \in Int
  BY DEF TLS_SERVER_HELLO
<1> QED BY <1>5, <1>6, RecordRead

\* The capture parser reads back what is on the wire.
THEOREM CaptureCorrect == Spec => []CaptureReadsWire
<1>1. RewriteInv => CaptureReadsWire
  <2> SUFFICES ASSUME RewriteInv, stage = "captured", cut = "whole" PROVE CaptureReadsWire
    BY Zenon DEF CaptureReadsWire
  <2>1. PICK w : w = Around(Message)
    OBVIOUS
  <2>2. /\ relayed = MutateOf(op, hybrid, w)
        /\ w = AroundOf(cut, behind, MessageOf(op, hybrid, msg))
        /\ Given(op, hybrid, msg, cut, behind)
        /\ seen = ParsedOf(op, relayed)
    BY <2>1, Relayed, Zenon
  <2>3. cut \in Cuts /\ behind \in Behind
    BY <2>2, GivenIs
  <2>4. PICK tail \in Buffers : tail = Opaque("behind", behind)
    BY <2>3, AroundIs
  <2>5. w = MessageOf(op, hybrid, msg) \o tail
    BY <2>2, <2>3, <2>4, AroundIs, Zenon
  <2>6. CASE op = "strip_hybrid"
    <3>1. msg \in Hellos /\ w = AroundOf(cut, behind, EncodeClientHello(msg))
      BY <2>2, <2>6, GivenIs, Zenon
    <3>2. PICK left \in Hellos : left = WithoutGroup(msg, hybrid)
      BY <3>1, WithoutGroupHello
    <3>3. relayed = EncodeClientHello(left) \o tail
      <4>1. StripsHybrid(msg, op, hybrid, cut, behind, w)
        BY <2>3, <2>6, <3>1, StripHybridOutcome
      <4> QED BY <2>2, <2>4, <3>2, <4>1, Zenon DEF StripsHybrid
    <3>4. seen = Returned([groups |-> Listed(left), shares |-> GroupsOfShares(left)])
      BY <2>2, <2>6, <3>3, HelloParsed
    <3> QED BY <2>6, <3>2, <3>4, Zenon DEF CaptureReadsWire, GroupsOfShares
  <2>7. CASE op = "forge_pq_component"
    <3>1. /\ msg \in Hellos /\ w = AroundOf(cut, behind, EncodeClientHello(msg))
          /\ MessageOf(op, hybrid, msg) = EncodeClientHello(msg) /\ hybrid \in DOMAIN PQ_COMPONENTS
      BY <2>2, <2>7, GivenIs, Zenon
    <3>2. \E left \in Hellos : /\ relayed = EncodeClientHello(left) \o tail
                               /\ Listed(left) = Listed(msg) /\ GroupsOfShares(left) = GroupsOfShares(msg)
      <4>1. ForgesPq(msg, op, hybrid, cut, behind, w)
        BY <2>3, <2>7, <3>1, ForgePqOutcome
      <4>2. CASE Offers(msg, hybrid)
        <5>1. PICK f \in Hellos : f = WithForged(msg, hybrid)
          BY <3>1, WithForgedHello
        <5>2. Listed(f) = Listed(msg) /\ GroupsOfShares(f) = GroupsOfShares(msg)
          BY <3>1, <5>1, ForgedOffer
        <5>3. relayed = EncodeClientHello(f) \o tail
          BY <2>2, <2>4, <4>1, <4>2, <5>1, Zenon DEF ForgesPq
        <5> QED BY <5>2, <5>3, Zenon
      <4>3. CASE ~Offers(msg, hybrid)
        <5>1. relayed = w
          BY <2>2, <4>1, <4>3, Zenon DEF ForgesPq
        <5>2. relayed = EncodeClientHello(msg) \o tail
          BY <2>5, <3>1, <5>1, Zenon
        <5> QED BY <3>1, <5>2, Zenon
      <4> QED BY <4>2, <4>3
    <3>3. PICK left \in Hellos :
             /\ relayed = EncodeClientHello(left) \o tail
             /\ Listed(left) = Listed(msg) /\ GroupsOfShares(left) = GroupsOfShares(msg)
      BY <3>2, Zenon
    <3>4. seen = Returned([groups |-> Listed(left), shares |-> GroupsOfShares(left)])
      BY <2>2, <2>7, <3>3, HelloParsed
    <3>5. seen = Returned([groups |-> Listed(msg), shares |-> GroupsOfShares(msg)])
      BY <3>3, <3>4, Zenon
    <3> QED BY <2>7, <3>5, Zenon DEF CaptureReadsWire, GroupsOfShares
  <2>8. CASE op = "none"
    <3>1. msg \in Answers /\ MessageOf(op, hybrid, msg) = EncodeServerHello(msg)
      BY <2>2, <2>8, GivenIs, Zenon
    <3>2. ResultOf(op, hybrid, w) = Returned(w)
      BY <2>8, Zenon DEF ResultOf
    <3>3. relayed = w
      BY <2>2, <3>2, MutateReturned
    <3>4. relayed = EncodeServerHello(msg) \o tail
      BY <2>5, <3>1, <3>3, Zenon
    <3>5. EncodeServerHello(msg) \in Buffers
      BY <3>1, AnswerBuffer
    <3>6. seen = Returned([hrr |-> msg.hrr,
                           group |-> IF TLS_KEY_SHARE \in ToSet(msg.order) THEN msg.group ELSE 0])
      <4>1. ParsedOf(op, relayed)
            = Returned([hrr |-> msg.hrr,
                        group |-> IF TLS_KEY_SHARE \in ToSet(msg.order) THEN msg.group ELSE 0])
        BY <2>8, <3>1, <3>4, <3>5, AnswerParsed
      <4> QED BY <2>2, <4>1, Zenon
    <3> QED BY <2>8, <3>6, Zenon DEF CaptureReadsWire
  <2>9. CASE op = "strip_kexinit_algorithm"
    <3>1. /\ msg \in Seq(KexNames) /\ MessageOf(op, hybrid, msg) = EncodeKexInit(msg)
          /\ w = AroundOf(cut, behind, EncodeKexInit(msg))
      BY <2>2, <2>9, GivenIs, Zenon
    <3>2. PICK left \in Seq(KexNames) : left = WithoutName(msg, hybrid)
      BY <3>1, WithoutNameIs
    <3>3. PICK pad \in Buffers : pad = Opaque("padding", Padding(KexInitPayload(msg)))
      BY <3>1, KexInitIs
    <3>4. KexInitPayload(msg) \in Buffers /\ KexInitPayload(left) \in Buffers
      BY <3>1, KexInitIs
    <3>5. StripsName(msg, op, hybrid, cut, behind, w)
      BY <2>3, <2>9, <3>1, StripKexinitOutcome
    <3>6. relayed \in Buffers /\ Has(relayed, 0, Packet(KexInitPayload(left), pad))
      <4>1. CASE left # msg
        <5>1. relayed = Packet(KexInitPayload(left), pad)
          BY <2>2, <3>2, <3>3, <3>5, <4>1, Zenon DEF StripsName
        <5>2. Packet(KexInitPayload(left), pad) \in Buffers
          BY <3>4, PacketRead
        <5> QED BY <5>1, <5>2, HasAll
      <4>2. CASE left = msg
        <5>1. relayed = w
          BY <2>2, <3>2, <3>5, <4>2, Zenon DEF StripsName
        <5>2. EncodeKexInit(msg) = Packet(KexInitPayload(msg), pad)
          BY <3>1, <3>3, KexInitIs, Zenon
        <5>3. relayed = Packet(KexInitPayload(left), pad) \o tail
          BY <2>5, <3>1, <4>2, <5>1, <5>2, Zenon
        <5>4. Packet(KexInitPayload(left), pad) \in Buffers
          BY <3>4, PacketRead
        <5> QED BY <5>3, <5>4, FollowedBy
      <4> QED BY <4>1, <4>2
    <3>7. seen = Returned(left)
      BY <2>2, <2>9, <3>6, NamesParsed
    <3> QED BY <2>9, <3>2, <3>7, Zenon DEF CaptureReadsWire
  <2>10. CASE op = "forge_ssh_pq_component"
    BY <2>10, Zenon DEF CaptureReadsWire
  <2> QED BY <2>2, <2>6, <2>7, <2>8, <2>9, <2>10, GivenIs, Zenon
<1> QED BY <1>1, RewriteInvariant, PTL
=============================================================================
