-------------------------------- MODULE Bytes -------------------------------
(***************************************************************************)
(* A byte string as the sequence of its fields.  A field has a name, a     *)
(* size in bytes and a value; the parsers address it by its offset, as the *)
(* code does with record[a:b], so that every cursor computed from a length *)
(* field has to land on the start of a field.                              *)
(***************************************************************************)
EXTENDS Integers, Sequences, SequencesExt

\* One number of size bytes.
Num(name, size, value) == <<[name |-> name, size |-> size, value |-> <<value>>]>>

\* Bytes nobody looks into.
Opaque(name, size) == IF size = 0 THEN <<>> ELSE Num(name, size, 1)

\* The offsets at which the fields of w start, and the one behind the last.
Starts(w) ==
    LET starts[k \in 0 .. Len(w)] ==
            IF k = 0 THEN <<0>>
            ELSE LET before == starts[k - 1] IN Append(before, before[k] + w[k].size)
    IN  starts[Len(w)]

Size(w) == Starts(w)[Len(w) + 1]

\* The field the byte at off is in, the fields' offsets being at.
FieldAt(at, off) == CHOOSE k \in 1 .. Len(at) - 1 : at[k] <= off /\ off < at[k + 1]

\* What of a field that starts at start is between from and end.
Clipped(field, start, from, end) ==
    [field EXCEPT !.size = (IF start + @ < end THEN start + @ ELSE end)
                           - IF start > from THEN start ELSE from]

\* w[from:to]; a field cut in two keeps its name and loses bytes.
Slice(w, from, to) ==
    LET at    == Starts(w)
        end   == IF to < Size(w) THEN to ELSE Size(w)
        first == FieldAt(at, from)
    IN  IF from >= end THEN <<>>
        ELSE [i \in 1 .. FieldAt(at, end - 1) - first + 1 |->
                Clipped(w[first + i - 1], at[first + i - 1], from, end)]

UpTo(w, off) == Slice(w, 0, off)
From(w, off) == Slice(w, off, Size(w))

\* The number in the size bytes at off.  The callers have checked that the
\* bytes are there; a cursor that goes astray, so that no field of that size
\* starts there, is an error of the run.
Read(w, off, size) ==
    w[CHOOSE k \in DOMAIN w : Starts(w)[k] = off /\ w[k].size = size].value[1]

Flat(ws) == FlattenSeq(ws)

\* The positions 1 .. n that are in K, in order, and the elements of s there.
Positions(n, K) ==
    LET found[k \in 0 .. n] ==
            IF k = 0 THEN <<>>
            ELSE IF k \in K THEN Append(found[k - 1], k) ELSE found[k - 1]
    IN  found[n]
Kept(s, K) == LET p == Positions(Len(s), K) IN [j \in DOMAIN p |-> s[p[j]]]
=============================================================================
