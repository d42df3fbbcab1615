---------------------------- MODULE PackageProofs ---------------------------
(***************************************************************************)
(* First what the scenario builders' nested loops build, for every number  *)
(* of repetitions and all lists of servers, versions, settings and         *)
(* clients: every combination exactly once in every repetition.  Then what *)
(* verify_zip's names and counts prove about a package, for all plans its  *)
(* minimum counts were written down for.                                   *)
(***************************************************************************)
EXTENDS Package, SequenceTheorems, FiniteSetTheorems, TLAPS

\* What the runs of one combination have in common.
Cell(spec) == <<spec.impl, spec.fault, spec.cond>>

\* Of the first size runs of plan just one is repetition rep of run i's combination.
JustOne(plan, size, i, rep) ==
    \E j \in 1 .. size : \A k \in 1 .. size :
       plan[k].rep = rep /\ Cell(plan[k]) = Cell(plan[i]) <=> k = j

\* The plan has every repetition 1 .. n of each of its combinations, once.
EachOnce(plan, n) ==
    /\ Len(plan) \in Nat
    /\ \A i \in 1 .. Len(plan) : /\ plan[i].rep \in 1 .. n
                                 /\ \A rep \in 1 .. n : JustOne(plan, Len(plan), i, rep)

\* The plan goes n times through the m combinations cells.
Grid(plan, n, m, cells) ==
    /\ Len(plan) = n * m
    /\ \A k \in 1 .. n * m : /\ plan[k].rep = ((k - 1) \div m) + 1
                             /\ Cell(plan[k]) = cells[((k - 1) % m) + 1]

At(k, m, row, column) == ((k - 1) \div m) + 1 = row /\ ((k - 1) % m) + 1 = column

AllDiffer(s, m) == \A i, j \in 1 .. m : s[i] = s[j] => i = j

-----------------------------------------------------------------------------
(* Positions in nested loops.                                              *)

\* Division with remainder, for a divisor that is not a number literal.
LEMMA DivMod ==
    ASSUME NEW m \in Nat \ {0}, NEW k \in Nat
    PROVE  /\ k \div m \in Nat /\ k % m \in 0 .. m - 1
           /\ k = m * (k \div m) + (k % m)
  BY Z3

\* Quotient and remainder are determined.
LEMMA DivModUnique ==
    ASSUME NEW m \in Nat \ {0}, NEW q \in Nat, NEW p \in Nat,
           NEW r \in 0 .. m - 1, NEW s \in 0 .. m - 1, m * q + r = m * p + s
    PROVE  q = p /\ r = s
<1>1. ~(q < p) /\ ~(p < q)
  BY Z3
<1> QED
  BY <1>1, Z3

\* The position k of n rows of m has a row and a column.
LEMMA Coordinates ==
    ASSUME NEW n \in Nat, NEW m \in Nat, NEW k \in 1 .. n * m
    PROVE  /\ m # 0 /\ k \in Nat /\ k - 1 \in Nat
           /\ ((k - 1) \div m) + 1 \in 1 .. n
           /\ ((k - 1) % m) + 1 \in 1 .. m
<1>1. m # 0 /\ k \in Nat /\ k - 1 \in Nat /\ k - 1 < n * m
  BY Z3
<1>2. /\ (k - 1) \div m \in Nat /\ (k - 1) % m \in 0 .. m - 1
      /\ k - 1 = m * ((k - 1) \div m) + ((k - 1) % m)
  BY <1>1, DivMod
<1>3. (k - 1) \div m < n
  <2>1. PICK q \in Nat : q = (k - 1) \div m
    BY <1>2
  <2>2. ASSUME q >= n PROVE FALSE
    <3>1. m * q >= n * m
      BY <2>2, Z3
    <3> QED
      BY <1>1, <1>2, <2>1, <3>1
  <2> QED
    BY <2>1, <2>2
<1> QED
  BY <1>1, <1>2, <1>3

\* Every row and column has a position, and only one.
LEMMA Position ==
    ASSUME NEW n \in Nat, NEW m \in Nat, NEW row \in 1 .. n, NEW column \in 1 .. m
    PROVE  \E j \in 1 .. n * m : \A k \in 1 .. n * m : At(k, m, row, column) <=> k = j
<1>1. PICK j : j = m * (row - 1) + column
  OBVIOUS
<1>2. j \in 1 .. n * m
  <2>1. m * (row - 1) >= 0
    BY Z3
  <2>2. m * (row - 1) <= m * (n - 1)
    BY Z3
  <2>3. m * (n - 1) = n * m - m
    BY Z3
  <2>4. m * (row - 1) \in Int /\ n * m \in Int
    OBVIOUS
  <2> QED
    BY <1>1, <2>1, <2>2, <2>3, <2>4
<1>3. ASSUME NEW k \in 1 .. n * m
      PROVE  At(k, m, row, column) <=> k = j
  <2>1. /\ m # 0 /\ k - 1 \in Nat /\ (k - 1) \div m \in Nat /\ (k - 1) % m \in 0 .. m - 1
        /\ k - 1 = m * ((k - 1) \div m) + ((k - 1) % m)
    BY Coordinates, DivMod
  <2>2. ASSUME k = j PROVE (k - 1) \div m = row - 1 /\ (k - 1) % m = column - 1
    <3>1. m * ((k - 1) \div m) + ((k - 1) % m) = m * (row - 1) + (column - 1)
      BY <1>1, <2>1, <2>2
    <3>2. row - 1 \in Nat /\ column - 1 \in 0 .. m - 1 /\ m \in Nat \ {0}
      BY <2>1
    <3> QED
      BY <2>1, <3>1, <3>2, DivModUnique
  <2>3. ASSUME (k - 1) \div m = row - 1, (k - 1) % m = column - 1 PROVE k = j
    BY <1>1, <2>1, <2>3
  <2> QED
    BY <2>1, <2>2, <2>3 DEF At
<1> QED
  BY <1>2, <1>3


-----------------------------------------------------------------------------
(* Grids, and plans made of two.                                           *)

\* A plan that goes through different combinations again and again has every
\* repetition of each of them once.
LEMMA GridEachOnce ==
    ASSUME NEW n \in Nat, NEW m \in Nat, NEW plan, NEW cells,
           Grid(plan, n, m, cells), AllDiffer(cells, m)
    PROVE  EachOnce(plan, n)
<1>1. PICK N \in Nat : N = n * m
  OBVIOUS
<1>2. /\ Len(plan) = N
      /\ \A k \in 1 .. N : /\ plan[k].rep = ((k - 1) \div m) + 1
                           /\ Cell(plan[k]) = cells[((k - 1) % m) + 1]
  BY <1>1 DEF Grid
<1>3. \A k \in 1 .. N : \E row \in 1 .. n, column \in 1 .. m : At(k, m, row, column)
  BY <1>1, Coordinates DEF At
<1>4. \A row \in 1 .. n, column \in 1 .. m :
         \E j \in 1 .. N : \A k \in 1 .. N : At(k, m, row, column) <=> k = j
  BY <1>1, Position
<1>5. \A k \in 1 .. N : \A row \in 1 .. n, column \in 1 .. m :
         At(k, m, row, column) => plan[k].rep = row /\ Cell(plan[k]) = cells[column]
  BY <1>2 DEF At
<1>6. ASSUME NEW i \in 1 .. N PROVE plan[i].rep \in 1 .. n
  BY <1>3, <1>5
<1>7. ASSUME NEW i \in 1 .. N, NEW rep \in 1 .. n
      PROVE  JustOne(plan, N, i, rep)
  <2>1. PICK column \in 1 .. m : Cell(plan[i]) = cells[column]
    BY <1>3, <1>5
  <2>2. PICK j \in 1 .. N : \A k \in 1 .. N : At(k, m, rep, column) <=> k = j
    BY <1>4
  <2>3. ASSUME NEW k \in 1 .. N
        PROVE  plan[k].rep = rep /\ Cell(plan[k]) = Cell(plan[i]) <=> k = j
    <3>1. PICK row \in 1 .. n, mine \in 1 .. m : At(k, m, row, mine)
      BY <1>3
    <3>2. plan[k].rep = row /\ Cell(plan[k]) = cells[mine]
      BY <1>5, <3>1
    <3>3. cells[mine] = cells[column] <=> mine = column
      BY DEF AllDiffer
    <3>4. At(k, m, rep, column) <=> row = rep /\ mine = column
      BY <3>1 DEF At
    <3> QED
      BY <2>1, <2>2, <3>2, <3>3, <3>4
  <2> QED
    BY <2>3 DEF JustOne
<1>8. Len(plan) = N /\ Len(plan) \in Nat
  BY <1>2
<1> QED
  BY <1>6, <1>7, <1>8 DEF EachOnce

\* Two plans without a common combination, one behind the other.
Apart(P, Q) == \A i \in 1 .. Len(P), j \in 1 .. Len(Q) : Cell(P[i]) # Cell(Q[j])

\* So has their concatenation each combination once.
LEMMA ConcatEachOnce ==
    ASSUME NEW n \in Nat, NEW S, NEW P \in Seq(S), NEW Q \in Seq(S),
           EachOnce(P, n), EachOnce(Q, n), Apart(P, Q)
    PROVE  EachOnce(P \o Q, n)
<1> DEFINE p == Len(P)
           q == Len(Q)
           W == P \o Q
<1>1. p \in Nat /\ q \in Nat /\ Len(W) = p + q
  OBVIOUS
<1>2. /\ \A k \in 1 .. p : W[k] = P[k]
      /\ \A k \in 1 .. q : W[p + k] = Q[k]
  OBVIOUS
<1>3. \A k \in 1 .. p + q : k \in 1 .. p \/ \E l \in 1 .. q : k = p + l
  <2> SUFFICES ASSUME NEW k \in 1 .. p + q, k \notin 1 .. p
               PROVE  \E l \in 1 .. q : k = p + l
    OBVIOUS
  <2>1. k - p \in 1 .. q /\ k = p + (k - p)
    BY <1>1
  <2> QED
    BY <2>1
<1>4. /\ \A i \in 1 .. p : P[i].rep \in 1 .. n
      /\ \A i \in 1 .. q : Q[i].rep \in 1 .. n
  BY DEF EachOnce
<1>5. \A i \in 1 .. p, j \in 1 .. q : Cell(P[i]) # Cell(Q[j])
  BY DEF Apart
<1>6. /\ \A i \in 1 .. p : \A rep \in 1 .. n : JustOne(P, p, i, rep)
      /\ \A i \in 1 .. q : \A rep \in 1 .. n : JustOne(Q, q, i, rep)
  BY DEF EachOnce
<1>7. \A j \in 1 .. p : j \in 1 .. p + q
  BY <1>1
<1>8. \A j \in 1 .. q : p + j \in 1 .. p + q /\ p + j \notin 1 .. p
  BY <1>1
<1> HIDE DEF p, q, W
<1>9. ASSUME NEW i \in 1 .. p + q PROVE W[i].rep \in 1 .. n
  BY <1>2, <1>3, <1>4
<1>10. ASSUME NEW i \in 1 .. p + q, NEW rep \in 1 .. n
       PROVE  JustOne(W, p + q, i, rep)
  <2>1. CASE i \in 1 .. p
    <3>1. PICK j \in 1 .. p : \A k \in 1 .. p : P[k].rep = rep /\ Cell(P[k]) = Cell(P[i]) <=> k = j
      BY <1>6, <2>1 DEF JustOne
    <3>2. ASSUME NEW k \in 1 .. p + q
          PROVE  W[k].rep = rep /\ Cell(W[k]) = Cell(W[i]) <=> k = j
      <4>1. CASE k \in 1 .. p
        BY <1>2, <2>1, <3>1, <4>1
      <4>2. CASE \E l \in 1 .. q : k = p + l
        <5>1. PICK l \in 1 .. q : k = p + l
          BY <4>2
        <5>2. W[k] = Q[l] /\ W[i] = P[i] /\ Cell(P[i]) # Cell(Q[l])
          BY <1>2, <1>5, <2>1, <5>1
        <5>3. k # j
          BY <1>8, <3>1, <5>1
        <5> QED
          BY <5>2, <5>3
      <4> QED
        BY <1>3, <4>1, <4>2
    <3> QED
      BY <1>7, <3>2 DEF JustOne
  <2>2. CASE \E l \in 1 .. q : i = p + l
    <3>1. PICK l \in 1 .. q : i = p + l
      BY <2>2
    <3>2. PICK j \in 1 .. q : \A k \in 1 .. q : Q[k].rep = rep /\ Cell(Q[k]) = Cell(Q[l]) <=> k = j
      BY <1>6 DEF JustOne
    <3>3. W[i] = Q[l]
      BY <1>2, <3>1
    <3>4. ASSUME NEW k \in 1 .. p + q
          PROVE  W[k].rep = rep /\ Cell(W[k]) = Cell(W[i]) <=> k = p + j
      <4>1. CASE k \in 1 .. p
        <5>1. W[k] = P[k] /\ Cell(P[k]) # Cell(Q[l])
          BY <1>2, <1>5, <4>1
        <5> QED
          BY <1>8, <3>2, <3>3, <4>1, <5>1
      <4>2. CASE \E h \in 1 .. q : k = p + h
        <5>1. PICK h \in 1 .. q : k = p + h
          BY <4>2
        <5>2. W[k] = Q[h]
          BY <1>2, <5>1
        <5>3. h = j <=> k = p + j
          BY <1>1, <5>1
        <5> QED
          BY <3>2, <3>3, <5>2, <5>3
      <4> QED
        BY <1>3, <4>1, <4>2
    <3> QED
      BY <1>8, <3>4 DEF JustOne
  <2> QED
    BY <1>3, <2>1, <2>2
<1>11. EachOnce(W, n)
  <2>1. Len(W) \in Nat
    BY <1>1
  <2> QED
    BY <1>1, <1>9, <1>10, <2>1 DEF EachOnce
<1> QED
  BY <1>11 DEF W


-----------------------------------------------------------------------------
(* The builders.                                                           *)

\* The combinations of rows and columns are as different as they are.
LEMMA PairsDiffer ==
    ASSUME NEW a \in Nat, NEW b \in Nat, NEW rows, NEW columns,
           AllDiffer(rows, a), AllDiffer(columns, b),
           NEW i \in 1 .. a * b, NEW j \in 1 .. a * b,
           rows[((i - 1) \div b) + 1] = rows[((j - 1) \div b) + 1],
           columns[((i - 1) % b) + 1] = columns[((j - 1) % b) + 1]
    PROVE  i = j
<1>1. PICK row \in 1 .. a, column \in 1 .. b : At(i, b, row, column)
  BY Coordinates DEF At
<1>2. PICK row2 \in 1 .. a, column2 \in 1 .. b : At(j, b, row2, column2)
  BY Coordinates DEF At
<1>3. row2 = row /\ column2 = column
  BY <1>1, <1>2 DEF At, AllDiffer
<1>4. PICK only \in 1 .. a * b : \A k \in 1 .. a * b : At(k, b, row, column) <=> k = only
  BY Position
<1> QED
  BY <1>1, <1>2, <1>3, <1>4

\* v18_specs: every client in every repetition.
LEMMA V18Once ==
    ASSUME NEW n \in Nat, NEW S, NEW clients \in Seq(S), AllDiffer(clients, Len(clients))
    PROVE  EachOnce(V18Specs(n, clients), n)
<1> DEFINE m == Len(clients)
           cells == [c \in 1 .. m |-> <<"openssl", "client-default-v18", clients[c]>>]
<1>1. Grid(V18Specs(n, clients), n, m, cells)
  <2>1. Len(V18Specs(n, clients)) = n * m
    BY DEF V18Specs, Repeat
  <2>2. ASSUME NEW k \in 1 .. n * m
        PROVE  /\ V18Specs(n, clients)[k].rep = ((k - 1) \div m) + 1
               /\ Cell(V18Specs(n, clients)[k]) = cells[((k - 1) % m) + 1]
    BY Coordinates DEF V18Specs, Repeat, CandidateSpec, Direct, Cell
  <2> QED
    BY <2>1, <2>2 DEF Grid
<1>2. AllDiffer(cells, m)
  BY DEF AllDiffer
<1>3. m \in Nat
  OBVIOUS
<1> HIDE DEF m, cells
<1> QED
  BY <1>1, <1>2, <1>3, GridEachOnce

\* e8_specs: every server in every repetition.
LEMMA E8Once ==
    ASSUME NEW n \in Nat, NEW S, NEW servers \in Seq(S), AllDiffer(servers, Len(servers))
    PROVE  EachOnce(E8Specs(n, servers), n)
<1> DEFINE m == Len(servers)
           cells == [c \in 1 .. m |-> <<"openssl", "actual-client-e8", <<servers[c], "botan">> >>]
<1>1. Grid(E8Specs(n, servers), n, m, cells)
  <2>1. Len(E8Specs(n, servers)) = n * m
    BY DEF E8Specs, Repeat
  <2>2. ASSUME NEW k \in 1 .. n * m
        PROVE  /\ E8Specs(n, servers)[k].rep = ((k - 1) \div m) + 1
               /\ Cell(E8Specs(n, servers)[k]) = cells[((k - 1) % m) + 1]
    <3>1. PICK c \in 1 .. m : c = ((k - 1) % m) + 1
      BY Coordinates
    <3>2. E8Specs(n, servers)[k] = E8Spec(servers[c], ((k - 1) \div m) + 1)
      BY <3>1 DEF E8Specs, Repeat
    <3>3. cells[c] = <<"openssl", "actual-client-e8", <<servers[c], "botan">> >>
      OBVIOUS
    <3> HIDE DEF m, cells
    <3> QED
      BY <3>1, <3>2, <3>3 DEF E8Spec, Direct, Cell
  <2> QED
    BY <2>1, <2>2 DEF Grid
<1>2. AllDiffer(cells, m)
  BY DEF AllDiffer
<1>3. m \in Nat
  OBVIOUS
<1> HIDE DEF m, cells
<1> QED
  BY <1>1, <1>2, <1>3, GridEachOnce

\* The plan goes n times through all pairs of a rows and b columns.
Pair(rows, columns, b, c) == <<rows[((c - 1) \div b) + 1], columns[((c - 1) % b) + 1]>>

PairGrid(plan, n, a, b, rows, columns, impl, fault) ==
    /\ DOMAIN plan = 1 .. n * (a * b)
    /\ \A k \in 1 .. n * (a * b) : \A c \in 1 .. a * b :
          c = ((k - 1) % (a * b)) + 1 =>
             /\ plan[k].rep = ((k - 1) \div (a * b)) + 1
             /\ Cell(plan[k]) = <<impl, fault, Pair(rows, columns, b, c)>>

\* Different pairs are different combinations.
LEMMA PairCellsDiffer ==
    ASSUME NEW a \in Nat, NEW b \in Nat, NEW rows, NEW columns, NEW impl, NEW fault,
           AllDiffer(rows, a), AllDiffer(columns, b)
    PROVE  AllDiffer([c \in 1 .. a * b |-> <<impl, fault, Pair(rows, columns, b, c)>>], a * b)
<1> SUFFICES ASSUME NEW i \in 1 .. a * b, NEW j \in 1 .. a * b,
                    <<impl, fault, Pair(rows, columns, b, i)>> = <<impl, fault, Pair(rows, columns, b, j)>>
             PROVE  i = j
  BY DEF AllDiffer
<1>1. /\ rows[((i - 1) \div b) + 1] = rows[((j - 1) \div b) + 1]
      /\ columns[((i - 1) % b) + 1] = columns[((j - 1) % b) + 1]
  BY DEF Pair
<1> QED
  BY <1>1, PairsDiffer

\* Such a plan has each pair once in every repetition.
LEMMA PairsOnce ==
    ASSUME NEW n \in Nat, NEW a \in Nat, NEW b \in Nat, NEW rows, NEW columns, NEW impl, NEW fault,
           AllDiffer(rows, a), AllDiffer(columns, b),
           NEW plan, PairGrid(plan, n, a, b, rows, columns, impl, fault)
    PROVE  EachOnce(plan, n)
<1>1. PICK m \in Nat : m = a * b /\ n * m \in Nat
  OBVIOUS
<1>2. PICK cells : cells = [c \in 1 .. m |-> <<impl, fault, Pair(rows, columns, b, c)>>]
  OBVIOUS
<1>3. AllDiffer(cells, m)
  BY <1>1, <1>2, PairCellsDiffer
<1>4. /\ DOMAIN plan = 1 .. n * m
      /\ \A k \in 1 .. n * m : \A c \in 1 .. m :
            c = ((k - 1) % m) + 1 =>
               /\ plan[k].rep = ((k - 1) \div m) + 1
               /\ Cell(plan[k]) = <<impl, fault, Pair(rows, columns, b, c)>>
  BY <1>1 DEF PairGrid
<1>5. ASSUME NEW k \in 1 .. n * m
      PROVE  plan[k].rep = ((k - 1) \div m) + 1 /\ Cell(plan[k]) = cells[((k - 1) % m) + 1]
  <2>1. PICK c \in 1 .. m : c = ((k - 1) % m) + 1
    BY <1>1, Coordinates
  <2>2. /\ plan[k].rep = ((k - 1) \div m) + 1
        /\ Cell(plan[k]) = <<impl, fault, Pair(rows, columns, b, c)>>
    BY <1>4, <2>1
  <2>3. cells[c] = <<impl, fault, Pair(rows, columns, b, c)>>
    BY <1>2
  <2> QED
    BY <2>1, <2>2, <2>3
<1>6. Len(plan) = n * m
  BY <1>1, <1>4
<1>7. Grid(plan, n, m, cells)
  BY <1>5, <1>6 DEF Grid
<1> QED
  BY <1>3, <1>7, GridEachOnce

\* v12_specs: every setting of every version in every repetition.
LEMMA V12Once ==
    ASSUME NEW n \in Nat, NEW S, NEW settings \in Seq(S), NEW versions \in Seq(S), NEW offer,
           AllDiffer(settings, Len(settings)), AllDiffer(versions, Len(versions))
    PROVE  EachOnce(V12Specs(n, settings, versions, offer), n)
<1> DEFINE a == Len(versions)
           b == Len(settings)
           plan == V12Specs(n, settings, versions, offer)
<1>1. a \in Nat /\ b \in Nat /\ a * b \in Nat
  OBVIOUS
<1>2. DOMAIN plan = 1 .. n * (a * b)
  BY DEF V12Specs, Repeat
<1>3. ASSUME NEW k \in 1 .. n * (a * b), NEW c \in 1 .. a * b, c = ((k - 1) % (a * b)) + 1
      PROVE  /\ plan[k].rep = ((k - 1) \div (a * b)) + 1
             /\ Cell(plan[k]) = <<"openssl", "server-setting",
                                  Pair(versions, settings, b, c)>>
  <2>1. ((c - 1) % b) + 1 \in 1 .. b
    BY <1>1, Coordinates
  <2>2. plan[k] = V12Spec(versions[((c - 1) \div b) + 1], settings[((c - 1) % b) + 1],
                          ((k - 1) \div (a * b)) + 1, offer)
    BY <1>3, <2>1 DEF V12Specs, Repeat, ForEach
  <2> HIDE DEF plan, a, b
  <2> QED
    BY <2>2 DEF V12Spec, Direct, Cell, Pair
<1> HIDE DEF a, b, plan
<1>4. AllDiffer(versions, a) /\ AllDiffer(settings, b)
  BY DEF a, b
<1>5. PairGrid(plan, n, a, b, versions, settings, "openssl", "server-setting")
  BY <1>2, <1>3 DEF PairGrid
<1>6. EachOnce(plan, n)
  BY <1>1, <1>4, <1>5, PairsOnce
<1> QED
  BY <1>6 DEF plan

\* The three client configurations of v15.CLIENTS.
LEMMA ClientsDiffer == Len(Clients) = 3 /\ DOMAIN Clients = 1 .. 3 /\ AllDiffer(Clients, 3)
<1>1. PICK cs : cs = <<"hybrid-first", "hybrid-unshared", "classical-first">>
  OBVIOUS
<1>2. /\ cs[1] = "hybrid-first" /\ cs[2] = "hybrid-unshared" /\ cs[3] = "classical-first"
      /\ Len(cs) = 3 /\ DOMAIN cs = 1 .. 3
  BY <1>1
<1>3. \A i \in 1 .. 3 : i \in {1, 2, 3}
  OBVIOUS
<1>4. AllDiffer(cs, 3)
  BY <1>2, <1>3 DEF AllDiffer
<1> QED
  BY <1>1, <1>2, <1>4 DEF Clients

\* v15_specs: every client configuration at every server in every repetition.
LEMMA V15Once ==
    ASSUME NEW n \in Nat, NEW S, NEW servers \in Seq(S), AllDiffer(servers, Len(servers))
    PROVE  EachOnce(V15Specs(n, servers), n)
<1> DEFINE a == Len(servers)
           plan == V15Specs(n, servers)
<1>1. a \in Nat /\ a * 3 \in Nat /\ 3 * a = a * 3
  OBVIOUS
<1>2. DOMAIN plan = 1 .. n * (a * 3)
  BY <1>1 DEF V15Specs, Repeat
<1>3. ASSUME NEW k \in 1 .. n * (a * 3), NEW c \in 1 .. a * 3, c = ((k - 1) % (a * 3)) + 1
      PROVE  /\ plan[k].rep = ((k - 1) \div (a * 3)) + 1
             /\ Cell(plan[k]) = <<"openssl", "negotiation-function",
                                  Pair(servers, Clients, 3, c)>>
  <2>1. ((c - 1) % 3) + 1 \in 1 .. 3
    BY <1>1, Coordinates
  <2>2. plan[k] = V15Spec(servers[((c - 1) \div 3) + 1], Clients[((c - 1) % 3) + 1],
                          ((k - 1) \div (a * 3)) + 1)
    BY <1>1, <1>3, <2>1, ClientsDiffer DEF V15Specs, Repeat, ForEach
  <2> HIDE DEF plan, a
  <2> QED
    BY <2>2 DEF V15Spec, Direct, Cell, Pair
<1> HIDE DEF a, plan
<1>4. AllDiffer(servers, a)
  BY DEF a
<1>5. PairGrid(plan, n, a, 3, servers, Clients, "openssl", "negotiation-function")
  BY <1>2, <1>3 DEF PairGrid
<1>6. EachOnce(plan, n)
  BY <1>1, <1>4, <1>5, ClientsDiffer, PairsOnce
<1> QED
  BY <1>6 DEF plan


\* v16_direct_specs: every client's defaults at every server in every repetition.
LEMMA V16DirectOnce ==
    ASSUME NEW n \in Nat, NEW S, NEW clients \in Seq(S), NEW servers \in Seq(S),
           AllDiffer(clients, Len(clients)), AllDiffer(servers, Len(servers))
    PROVE  EachOnce(V16DirectSpecs(n, clients, servers), n)
<1> DEFINE a == Len(servers)
           b == Len(clients)
           plan == V16DirectSpecs(n, clients, servers)
<1>1. a \in Nat /\ b \in Nat /\ a * b \in Nat /\ b * a = a * b
  BY Z3
<1>2. DOMAIN plan = 1 .. n * (a * b)
  BY <1>1 DEF V16DirectSpecs, Repeat
<1>3. ASSUME NEW k \in 1 .. n * (a * b), NEW c \in 1 .. a * b, c = ((k - 1) % (a * b)) + 1
      PROVE  /\ plan[k].rep = ((k - 1) \div (a * b)) + 1
             /\ Cell(plan[k]) = <<"openssl", "default-direct",
                                  Pair(servers, clients, b, c)>>
  <2>1. ((c - 1) % b) + 1 \in 1 .. b
    BY <1>1, Coordinates
  <2>2. plan[k] = DirectSpec(servers[((c - 1) \div b) + 1], clients[((c - 1) % b) + 1],
                             ((k - 1) \div (a * b)) + 1)
    BY <1>1, <1>3, <2>1 DEF V16DirectSpecs, Repeat, ForEach
  <2> HIDE DEF plan, a, b
  <2> QED
    BY <2>2 DEF DirectSpec, Direct, Cell, Pair
<1> HIDE DEF a, b, plan
<1>4. AllDiffer(servers, a) /\ AllDiffer(clients, b)
  BY DEF a, b
<1>5. PairGrid(plan, n, a, b, servers, clients, "openssl", "default-direct")
  BY <1>2, <1>3 DEF PairGrid
<1>6. EachOnce(plan, n)
  BY <1>1, <1>4, <1>5, PairsOnce
<1> QED
  BY <1>6 DEF plan

\* A part of a plan that is one experiment.
Loop(plan, size, fault) ==
    plan = [k \in 1 .. size |-> plan[k]] /\ \A k \in 1 .. size : plan[k].fault = fault

\* The two loops of v16_specs.
SurveyLoop(n, clients) ==
    LET Survey(rep) == [k \in DOMAIN clients |-> SurveySpec(clients[k], rep)]
    IN  Repeat(n, Len(clients), Survey)
SoftwareLoop(n, servers) ==
    LET Software(rep) ==
          LET Server(s) == [k \in DOMAIN Clients |-> ServerSpec(s, Clients[k], rep)]
          IN  ForEach(servers, 3, Server)
    IN  Repeat(n, 3 * Len(servers), Software)

\* The survey: every client once in every repetition.
LEMMA SurveyLoopOnce ==
    ASSUME NEW n \in Nat, NEW S, NEW clients \in Seq(S), AllDiffer(clients, Len(clients))
    PROVE  /\ EachOnce(SurveyLoop(n, clients), n)
           /\ n * Len(clients) \in Nat
           /\ Loop(SurveyLoop(n, clients), n * Len(clients), "client-default")
<1> DEFINE m == Len(clients)
           plan == SurveyLoop(n, clients)
           cells == [c \in 1 .. m |-> <<"openssl", "client-default", clients[c]>>]
<1>1. m \in Nat /\ n * m \in Nat
  OBVIOUS
<1>2. DOMAIN plan = 1 .. n * m /\ plan = [k \in 1 .. n * m |-> plan[k]]
  BY DEF SurveyLoop, Repeat
<1>3. ASSUME NEW k \in 1 .. n * m
      PROVE  /\ plan[k].rep = ((k - 1) \div m) + 1
             /\ Cell(plan[k]) = cells[((k - 1) % m) + 1]
             /\ plan[k].fault = "client-default"
  <2>1. PICK c \in 1 .. m : c = ((k - 1) % m) + 1
    BY Coordinates
  <2>2. plan[k] = SurveySpec(clients[c], ((k - 1) \div m) + 1)
    BY <2>1 DEF SurveyLoop, Repeat
  <2>3. cells[c] = <<"openssl", "client-default", clients[c]>>
    OBVIOUS
  <2> HIDE DEF m, cells, plan
  <2> QED
    BY <2>1, <2>2, <2>3 DEF SurveySpec, Direct, Cell
<1>4. AllDiffer(cells, m)
  BY DEF AllDiffer
<1> HIDE DEF m, cells, plan
<1>5. Len(plan) = n * m
  BY <1>1, <1>2
<1>6. Grid(plan, n, m, cells)
  BY <1>3, <1>5 DEF Grid
<1>7. EachOnce(plan, n)
  BY <1>1, <1>4, <1>6, GridEachOnce
<1> QED
  BY <1>1, <1>2, <1>3, <1>7 DEF plan, m, Loop

\* The server software: every client configuration at every server once.
LEMMA SoftwareLoopOnce ==
    ASSUME NEW n \in Nat, NEW S, NEW servers \in Seq(S), AllDiffer(servers, Len(servers))
    PROVE  /\ EachOnce(SoftwareLoop(n, servers), n)
           /\ n * (3 * Len(servers)) \in Nat
           /\ Loop(SoftwareLoop(n, servers), n * (3 * Len(servers)), "server-software")
<1> DEFINE a == Len(servers)
           plan == SoftwareLoop(n, servers)
<1>1. a \in Nat /\ a * 3 \in Nat /\ 3 * a = a * 3 /\ n * (a * 3) \in Nat
  OBVIOUS
<1>2. DOMAIN plan = 1 .. n * (a * 3) /\ plan = [k \in 1 .. n * (a * 3) |-> plan[k]]
  BY <1>1 DEF SoftwareLoop, Repeat
<1>3. ASSUME NEW k \in 1 .. n * (a * 3), NEW c \in 1 .. a * 3, c = ((k - 1) % (a * 3)) + 1
      PROVE  /\ plan[k].rep = ((k - 1) \div (a * 3)) + 1
             /\ Cell(plan[k]) = <<"openssl", "server-software", Pair(servers, Clients, 3, c)>>
             /\ plan[k].fault = "server-software"
  <2>1. ((c - 1) % 3) + 1 \in 1 .. 3
    BY <1>1, Coordinates
  <2>2. plan[k] = ServerSpec(servers[((c - 1) \div 3) + 1], Clients[((c - 1) % 3) + 1],
                             ((k - 1) \div (a * 3)) + 1)
    BY <1>1, <1>3, <2>1, ClientsDiffer DEF SoftwareLoop, Repeat, ForEach
  <2> HIDE DEF plan, a
  <2> QED
    BY <2>2 DEF ServerSpec, Direct, Cell, Pair
<1>4. \A k \in 1 .. n * (a * 3) : plan[k].fault = "server-software"
  <2> SUFFICES ASSUME NEW k \in 1 .. n * (a * 3) PROVE plan[k].fault = "server-software"
    OBVIOUS
  <2>1. PICK c \in 1 .. a * 3 : c = ((k - 1) % (a * 3)) + 1
    BY <1>1, Coordinates
  <2> HIDE DEF plan, a
  <2> QED
    BY <1>3, <2>1
<1> HIDE DEF a, plan
<1>5. AllDiffer(servers, a)
  BY DEF a
<1>6. PairGrid(plan, n, a, 3, servers, Clients, "openssl", "server-software")
  BY <1>2, <1>3 DEF PairGrid
<1>7. EachOnce(plan, n)
  BY <1>1, <1>5, <1>6, ClientsDiffer, PairsOnce
<1>8. 3 * a = a * 3
  BY <1>1
<1> QED
  BY <1>1, <1>2, <1>4, <1>7, <1>8 DEF plan, a, Loop

\* Two loops over different experiments, one behind the other.
LEMMA LoopsOnce ==
    ASSUME NEW n \in Nat, NEW p \in Nat, NEW q \in Nat, NEW P, NEW Q,
           NEW first, NEW second, first # second, Loop(P, p, first), Loop(Q, q, second),
           EachOnce(P, n), EachOnce(Q, n)
    PROVE  EachOnce(P \o Q, n)
<1>1. PICK S : S = {P[k] : k \in 1 .. p} \cup {Q[k] : k \in 1 .. q}
  OBVIOUS
<1>2. \A k \in 1 .. p : P[k] \in S
  BY <1>1
<1>3. \A k \in 1 .. q : Q[k] \in S
  BY <1>1
<1>4. P \in Seq(S) /\ Len(P) = p
  BY <1>2 DEF Loop
<1>5. Q \in Seq(S) /\ Len(Q) = q
  BY <1>3 DEF Loop
<1>6. \A i \in 1 .. p, j \in 1 .. q : Cell(P[i]) # Cell(Q[j])
  BY DEF Cell, Loop
<1>7. Apart(P, Q)
  BY <1>4, <1>5, <1>6 DEF Apart
<1> QED
  BY <1>4, <1>5, <1>7, ConcatEachOnce

\* v16_specs: the survey of the clients' defaults, then the server software.
LEMMA V16Once ==
    ASSUME NEW n \in Nat, NEW S, NEW clients \in Seq(S), NEW servers \in Seq(S),
           AllDiffer(clients, Len(clients)), AllDiffer(servers, Len(servers))
    PROVE  EachOnce(V16Specs(n, clients, servers), n)
<1>1. V16Specs(n, clients, servers) = SurveyLoop(n, clients) \o SoftwareLoop(n, servers)
  BY DEF V16Specs, SurveyLoop, SoftwareLoop
<1>2. PICK P : P = SurveyLoop(n, clients)
  OBVIOUS
<1>3. PICK Q : Q = SoftwareLoop(n, servers)
  OBVIOUS
<1>4. PICK p \in Nat : Loop(P, p, "client-default")
  BY <1>2, SurveyLoopOnce
<1>5. PICK q \in Nat : Loop(Q, q, "server-software")
  BY <1>3, SoftwareLoopOnce
<1>6. EachOnce(P, n) /\ EachOnce(Q, n)
  BY <1>2, <1>3, SurveyLoopOnce, SoftwareLoopOnce
<1>7. "client-default" # "server-software"
  OBVIOUS
<1>8. EachOnce(P \o Q, n)
  BY <1>4, <1>5, <1>6, <1>7, LoopsOnce
<1> QED
  BY <1>1, <1>2, <1>3, <1>8


\* The three implementations of run.py.
LEMMA ImplementationsDiffer ==
    /\ Len(Implementations) = 3 /\ AllDiffer(Implementations, 3)
    /\ \A i \in 1 .. 3 : Implementations[i] \in {"openssl", "boringssl", "openssh"}
<1>1. PICK is : is = <<"openssl", "boringssl", "openssh">>
  OBVIOUS
<1>2. is[1] = "openssl" /\ is[2] = "boringssl" /\ is[3] = "openssh" /\ Len(is) = 3
  BY <1>1
<1>3. \A i \in 1 .. 3 : i \in {1, 2, 3}
  OBVIOUS
<1>4. AllDiffer(is, 3) /\ \A i \in 1 .. 3 : is[i] \in {"openssl", "boringssl", "openssh"}
  BY <1>2, <1>3 DEF AllDiffer
<1> QED
  BY <1>1, <1>2, <1>4 DEF Implementations

\* The combination a spec of phase 3 belongs to.
LEMMA Phase3Cells ==
    ASSUME NEW impl, NEW rep
    PROVE  /\ GroupListSpec(impl, rep).rep = rep /\ GroupListSpec(impl, rep).fault = "group-list"
           /\ Cell(GroupListSpec(impl, rep)) = <<impl, "group-list", "default">>
           /\ BindingSpec(impl, rep).rep = rep /\ BindingSpec(impl, rep).fault = "binding"
           /\ Cell(BindingSpec(impl, rep)) = <<impl, "binding", "default">>
  BY DEF GroupListSpec, BindingSpec, Direct, Cell

\* smoke_specs: the two faults of phase 3, once for each implementation.
LEMMA SmokeOnce == EachOnce(SmokeSpecs, 1)
<1>1. PICK P : P = [k \in 1 .. 3 |-> GroupListSpec(Implementations[k], 1)]
  OBVIOUS
<1>2. PICK Q : Q = [k \in 1 .. 3 |-> BindingSpec(Implementations[k], 1)]
  OBVIOUS
<1>3. /\ \A k \in 1 .. 3 : P[k].rep = 1 /\ P[k].fault = "group-list"
                           /\ Cell(P[k]) = <<Implementations[k], "group-list", "default">>
      /\ Loop(P, 3, "group-list") /\ Len(P) = 3
  BY <1>1, Phase3Cells DEF Loop
<1>4. /\ \A k \in 1 .. 3 : Q[k].rep = 1 /\ Q[k].fault = "binding"
                           /\ Cell(Q[k]) = <<Implementations[k], "binding", "default">>
      /\ Loop(Q, 3, "binding") /\ Len(Q) = 3
  BY <1>2, Phase3Cells DEF Loop
<1>5. \A i, j \in 1 .. 3 : Implementations[i] = Implementations[j] => i = j
  BY ImplementationsDiffer DEF AllDiffer
<1>6. EachOnce(P, 1)
  <2>1. \A i, k \in 1 .. 3 : Cell(P[k]) = Cell(P[i]) <=> k = i
    BY <1>3, <1>5
  <2>2. \A i \in 1 .. 3 : JustOne(P, 3, i, 1)
    BY <1>3, <2>1 DEF JustOne
  <2> QED
    BY <1>3, <2>2 DEF EachOnce
<1>7. EachOnce(Q, 1)
  <2>1. \A i, k \in 1 .. 3 : Cell(Q[k]) = Cell(Q[i]) <=> k = i
    BY <1>4, <1>5
  <2>2. \A i \in 1 .. 3 : JustOne(Q, 3, i, 1)
    BY <1>4, <2>1 DEF JustOne
  <2> QED
    BY <1>4, <2>2 DEF EachOnce
<1>8. "group-list" # "binding" /\ 1 \in Nat /\ 3 \in Nat
  OBVIOUS
<1>9. EachOnce(P \o Q, 1)
  BY <1>3, <1>4, <1>6, <1>7, <1>8, LoopsOnce
<1> QED
  BY <1>1, <1>2, <1>9 DEF SmokeSpecs

\* batch_specs: the two faults at every implementation in every repetition.
LEMMA BatchOnce ==
    ASSUME NEW n \in Nat
    PROVE  EachOnce(BatchSpecs(n), n)
<1> DEFINE plan == BatchSpecs(n)
           faults == [x \in 1 .. 2 |-> IF x = 1 THEN "group-list" ELSE "binding"]
           cells == [c \in 1 .. 6 |-> <<Implementations[((c - 1) \div 2) + 1],
                                        faults[((c - 1) % 2) + 1], "default">>]
<1>1. DOMAIN plan = 1 .. n * 6
  BY DEF BatchSpecs, Repeat
<1>2. ASSUME NEW k \in 1 .. n * 6
      PROVE  plan[k].rep = ((k - 1) \div 6) + 1 /\ Cell(plan[k]) = cells[((k - 1) % 6) + 1]
  <2>1. PICK c \in 1 .. 6 : c = ((k - 1) % 6) + 1
    BY Coordinates
  <2>2. PICK impl : impl = Implementations[((c - 1) \div 2) + 1]
    OBVIOUS
  <2>3. PICK rep : rep = ((k - 1) \div 6) + 1
    OBVIOUS
  <2>4. plan[k] = <<GroupListSpec(impl, rep), BindingSpec(impl, rep)>>[((c - 1) % 2) + 1]
    BY <2>1, <2>2, <2>3, ImplementationsDiffer DEF BatchSpecs, Repeat, ForEach
  <2>5. PICK x \in {1, 2} : x = ((c - 1) % 2) + 1
    OBVIOUS
  <2>6. cells[c] = <<impl, faults[x], "default">>
    BY <2>2, <2>5
  <2> HIDE DEF plan, cells
  <2>7. CASE x = 1
    <3>1. plan[k] = GroupListSpec(impl, rep)
      BY <2>4, <2>5, <2>7
    <3> QED
      BY <2>1, <2>3, <2>6, <2>7, <3>1, Phase3Cells
  <2>8. CASE x = 2
    <3>1. plan[k] = BindingSpec(impl, rep)
      BY <2>4, <2>5, <2>8
    <3> QED
      BY <2>1, <2>3, <2>6, <2>8, <3>1, Phase3Cells
  <2> QED
    BY <2>5, <2>7, <2>8
<1>3. AllDiffer(cells, 6)
  <2>1. AllDiffer(faults, 2)
    BY DEF AllDiffer
  <2> HIDE DEF faults
  <2> SUFFICES ASSUME NEW i \in 1 .. 6, NEW j \in 1 .. 6, cells[i] = cells[j] PROVE i = j
    BY DEF AllDiffer
  <2>2. /\ Implementations[((i - 1) \div 2) + 1] = Implementations[((j - 1) \div 2) + 1]
        /\ faults[((i - 1) % 2) + 1] = faults[((j - 1) % 2) + 1]
    OBVIOUS
  <2>3. 1 .. 6 = 1 .. 3 * 2 /\ 3 \in Nat /\ 2 \in Nat
    OBVIOUS
  <2> HIDE DEF cells
  <2> QED
    BY <2>1, <2>2, <2>3, ImplementationsDiffer, PairsDiffer
<1> HIDE DEF plan, cells
<1>4. Grid(plan, n, 6, cells)
  BY <1>1, <1>2 DEF Grid
<1>5. EachOnce(plan, n)
  BY <1>3, <1>4, GridEachOnce
<1> QED
  BY <1>5 DEF plan


\* The conditions of an implementation in v11_specs.
V11Conditions(impl) ==
    [x \in 1 .. 3 |-> CASE x = 1 -> "base"
                        [] x = 2 -> IF impl = "openssh" THEN "ssh-order" ELSE "silent-downgrade"
                        [] x = 3 -> "onpath-strip"]

\* The three specs of V11Row are of these conditions.
LEMMA V11RowCells ==
    ASSUME NEW impl, NEW rep, NEW x \in {1, 2, 3}
    PROVE  /\ V11Row(impl, rep)[x].rep = rep
           /\ Cell(V11Row(impl, rep)[x]) = <<impl, "condition", V11Conditions(impl)[x]>>
<1>1. \A cond : /\ ConditionSpec(impl, cond, rep).rep = rep
                /\ Cell(ConditionSpec(impl, cond, rep)) = <<impl, "condition", cond>>
  BY DEF ConditionSpec, Direct, Cell
<1>2. /\ StripSpec(impl, rep).rep = rep
      /\ Cell(StripSpec(impl, rep)) = <<impl, "condition", "onpath-strip">>
  BY DEF StripSpec, ConditionSpec, Direct, Cell
<1>3. CASE x = 1
  <2>1. V11Row(impl, rep)[x] = ConditionSpec(impl, "base", rep) /\ V11Conditions(impl)[x] = "base"
    BY <1>3 DEF V11Row, V11Conditions
  <2> QED
    BY <1>1, <2>1
<1>4. CASE x = 2
  <2>1. PICK second : second = IF impl = "openssh" THEN "ssh-order" ELSE "silent-downgrade"
    OBVIOUS
  <2>2. V11Row(impl, rep)[x] = ConditionSpec(impl, second, rep) /\ V11Conditions(impl)[x] = second
    BY <1>4, <2>1 DEF V11Row, V11Conditions
  <2> QED
    BY <1>1, <2>2
<1>5. CASE x = 3
  <2>1. V11Row(impl, rep)[x] = StripSpec(impl, rep) /\ V11Conditions(impl)[x] = "onpath-strip"
    BY <1>5 DEF V11Row, V11Conditions
  <2> QED
    BY <1>2, <2>1
<1> QED
  BY <1>3, <1>4, <1>5

\* v11_specs: the three conditions of every implementation in every repetition.
LEMMA V11Once ==
    ASSUME NEW n \in Nat
    PROVE  EachOnce(V11Specs(n), n)
<1> DEFINE plan == V11Specs(n)
           impl(c) == Implementations[((c - 1) \div 3) + 1]
           x(c) == ((c - 1) % 3) + 1
           cells == [c \in 1 .. 9 |-> <<impl(c), "condition", V11Conditions(impl(c))[x(c)]>>]
<1>1. DOMAIN plan = 1 .. n * 9
  BY DEF V11Specs, Repeat
<1>2. \A c \in 1 .. 9 : x(c) \in {1, 2, 3}
  OBVIOUS
<1>3. ASSUME NEW k \in 1 .. n * 9
      PROVE  plan[k].rep = ((k - 1) \div 9) + 1 /\ Cell(plan[k]) = cells[((k - 1) % 9) + 1]
  <2>1. PICK c \in 1 .. 9 : c = ((k - 1) % 9) + 1
    BY Coordinates
  <2>2. PICK rep : rep = ((k - 1) \div 9) + 1
    OBVIOUS
  <2>3. plan[k] = V11Row(impl(c), rep)[x(c)]
    BY <2>1, <2>2, ImplementationsDiffer DEF V11Specs, Repeat, ForEach
  <2>4. cells[c] = <<impl(c), "condition", V11Conditions(impl(c))[x(c)]>>
    OBVIOUS
  <2> HIDE DEF plan, cells, impl, x
  <2> QED
    BY <1>2, <2>1, <2>2, <2>3, <2>4, V11RowCells
<1>4. AllDiffer(cells, 9)
  <2> SUFFICES ASSUME NEW i \in 1 .. 9, NEW j \in 1 .. 9, cells[i] = cells[j] PROVE i = j
    BY DEF AllDiffer
  <2>1. impl(i) = impl(j) /\ V11Conditions(impl(i))[x(i)] = V11Conditions(impl(j))[x(j)]
    OBVIOUS
  <2>2. x(i) = x(j)
    <3>1. x(i) \in {1, 2, 3} /\ x(j) \in {1, 2, 3}
      BY <1>2
    <3> HIDE DEF impl, x
    <3> QED
      BY <2>1, <3>1 DEF V11Conditions
  <2>3. ((i - 1) \div 3) + 1 = ((j - 1) \div 3) + 1
    <3>1. ((i - 1) \div 3) + 1 \in 1 .. 3 /\ ((j - 1) \div 3) + 1 \in 1 .. 3
      OBVIOUS
    <3> QED
      BY <2>1, <3>1, ImplementationsDiffer DEF AllDiffer
  <2> HIDE DEF cells
  <2> QED
    BY <2>2, <2>3
<1> HIDE DEF plan, cells
<1>5. Grid(plan, n, 9, cells)
  BY <1>1, <1>3 DEF Grid
<1>6. EachOnce(plan, n)
  BY <1>4, <1>5, GridEachOnce
<1> QED
  BY <1>6 DEF plan

\* The two loops of v17: the browsers, and the servers with -trace.
BrowserLoop(n) ==
    LET Browsers(rep) == <<BrowserSpec("chrome", rep), BrowserSpec("firefox", rep)>>
    IN  Repeat(n, 2, Browsers)
TraceLoop(n) ==
    LET Trace(rep) == << TraceSpec("3.5.5", "S1", rep), TraceSpec("3.5.5", "S3", rep),
                         TraceSpec("3.5.6", "S3", rep) >>
    IN  Repeat(n, 3, Trace)

\* Each browser once in every repetition.
LEMMA BrowserLoopOnce ==
    ASSUME NEW n \in Nat
    PROVE  EachOnce(BrowserLoop(n), n) /\ Loop(BrowserLoop(n), n * 2, "client-default")
<1> DEFINE plan == BrowserLoop(n)
           browsers == [x \in 1 .. 2 |-> IF x = 1 THEN "chrome" ELSE "firefox"]
           cells == [c \in 1 .. 2 |-> <<"openssl", "client-default", browsers[c]>>]
<1>1. DOMAIN plan = 1 .. n * 2 /\ plan = [k \in 1 .. n * 2 |-> plan[k]]
  BY DEF BrowserLoop, Repeat
<1>2. \A browser, rep : /\ BrowserSpec(browser, rep).rep = rep
                        /\ BrowserSpec(browser, rep).fault = "client-default"
                        /\ Cell(BrowserSpec(browser, rep)) = <<"openssl", "client-default", browser>>
  BY DEF BrowserSpec, SurveySpec, Direct, Cell
<1>3. ASSUME NEW k \in 1 .. n * 2
      PROVE  /\ plan[k].rep = ((k - 1) \div 2) + 1 /\ Cell(plan[k]) = cells[((k - 1) % 2) + 1]
             /\ plan[k].fault = "client-default"
  <2>1. PICK c \in {1, 2} : c = ((k - 1) % 2) + 1
    OBVIOUS
  <2>2. PICK rep : rep = ((k - 1) \div 2) + 1
    OBVIOUS
  <2>3. plan[k] = <<BrowserSpec("chrome", rep), BrowserSpec("firefox", rep)>>[c]
    BY <2>1, <2>2 DEF BrowserLoop, Repeat
  <2>4. cells[c] = <<"openssl", "client-default", browsers[c]>>
    OBVIOUS
  <2>5. plan[k] = BrowserSpec(browsers[c], rep)
    BY <2>3
  <2> HIDE DEF plan, cells, browsers
  <2> QED
    BY <1>2, <2>1, <2>2, <2>4, <2>5
<1>4. AllDiffer(cells, 2)
  <2>1. AllDiffer(browsers, 2)
    BY DEF AllDiffer
  <2> HIDE DEF browsers
  <2> QED
    BY <2>1 DEF AllDiffer
<1> HIDE DEF plan, cells
<1>5. Grid(plan, n, 2, cells)
  BY <1>1, <1>3 DEF Grid
<1>6. EachOnce(plan, n)
  BY <1>4, <1>5, GridEachOnce
<1> QED
  BY <1>1, <1>3, <1>6 DEF plan, Loop

\* Each traced server once in every repetition.
LEMMA TraceLoopOnce ==
    ASSUME NEW n \in Nat
    PROVE  EachOnce(TraceLoop(n), n) /\ Loop(TraceLoop(n), n * 3, "server-setting-trace")
<1> DEFINE plan == TraceLoop(n)
           versions == [x \in 1 .. 3 |-> IF x = 3 THEN "3.5.6" ELSE "3.5.5"]
           settings == [x \in 1 .. 3 |-> IF x = 1 THEN "S1" ELSE "S3"]
           cells == [c \in 1 .. 3 |-> <<"openssl", "server-setting-trace", <<versions[c], settings[c]>> >>]
<1>1. DOMAIN plan = 1 .. n * 3 /\ plan = [k \in 1 .. n * 3 |-> plan[k]]
  BY DEF TraceLoop, Repeat
<1>2. \A version, setting, rep :
         /\ TraceSpec(version, setting, rep).rep = rep
         /\ TraceSpec(version, setting, rep).fault = "server-setting-trace"
         /\ Cell(TraceSpec(version, setting, rep)) =
               <<"openssl", "server-setting-trace", <<version, setting>> >>
  BY DEF TraceSpec, V12Spec, Direct, Cell
<1>3. ASSUME NEW k \in 1 .. n * 3
      PROVE  /\ plan[k].rep = ((k - 1) \div 3) + 1 /\ Cell(plan[k]) = cells[((k - 1) % 3) + 1]
             /\ plan[k].fault = "server-setting-trace"
  <2>1. PICK c \in {1, 2, 3} : c = ((k - 1) % 3) + 1
    OBVIOUS
  <2>2. PICK rep : rep = ((k - 1) \div 3) + 1
    OBVIOUS
  <2>3. plan[k] = << TraceSpec("3.5.5", "S1", rep), TraceSpec("3.5.5", "S3", rep),
                     TraceSpec("3.5.6", "S3", rep) >>[c]
    BY <2>1, <2>2 DEF TraceLoop, Repeat
  <2>4. cells[c] = <<"openssl", "server-setting-trace", <<versions[c], settings[c]>> >>
    OBVIOUS
  <2>5. plan[k] = TraceSpec(versions[c], settings[c], rep)
    BY <2>3
  <2> HIDE DEF plan, cells, versions, settings
  <2> QED
    BY <1>2, <2>1, <2>2, <2>4, <2>5
<1>4. AllDiffer(cells, 3)
  <2>1. \A i, j \in 1 .. 3 : versions[i] = versions[j] /\ settings[i] = settings[j] => i = j
    OBVIOUS
  <2> HIDE DEF versions, settings
  <2> QED
    BY <2>1 DEF AllDiffer
<1> HIDE DEF plan, cells
<1>5. Grid(plan, n, 3, cells)
  BY <1>1, <1>3 DEF Grid
<1>6. EachOnce(plan, n)
  BY <1>4, <1>5, GridEachOnce
<1> QED
  BY <1>1, <1>3, <1>6 DEF plan, Loop

\* run_browsers, then run_trace.
LEMMA V17Once ==
    ASSUME NEW n \in Nat
    PROVE  EachOnce(V17Specs(n), n)
<1>1. V17Specs(n) = BrowserLoop(n) \o TraceLoop(n)
  BY DEF V17Specs, BrowserLoop, TraceLoop
<1>2. n * 2 \in Nat /\ n * 3 \in Nat /\ "client-default" # "server-setting-trace"
  OBVIOUS
<1> QED
  BY <1>1, <1>2, BrowserLoopOnce, TraceLoopOnce, LoopsOnce

\* No two runs of such a plan have the same name: run_id keeps the parts of a
\* combination and the repetition apart.
LEMMA NamesOnce ==
    ASSUME NEW plan, NEW n, EachOnce(plan, n),
           NEW j \in 1 .. Len(plan), NEW k \in 1 .. Len(plan), RunId(plan[j]) = RunId(plan[k])
    PROVE  j = k
<1>1. plan[j].rep = plan[k].rep /\ Cell(plan[j]) = Cell(plan[k])
  BY DEF RunId, Cell
<1>2. plan[j].rep \in 1 .. n
  BY DEF EachOnce
<1>3. PICK only \in 1 .. Len(plan) : \A l \in 1 .. Len(plan) :
         plan[l].rep = plan[j].rep /\ Cell(plan[l]) = Cell(plan[j]) <=> l = only
  BY <1>2 DEF EachOnce, JustOne
<1> QED
  BY <1>1, <1>3

-----------------------------------------------------------------------------
(* The package.                                                            *)

\* The runner is inside its plan, and inside the run under way.
TypeOK ==
    /\ \/ package \in Packages /\ filling \in DirsOf(package)
       \/ package = "none" /\ filling \in Unpackaged
    /\ walked \in 0 .. Len(PlanOf(filling))
    /\ files \in Nat
    /\ files # 0 => /\ walked < Len(PlanOf(filling))
                    /\ files <= Len(FilesOf(PlanOf(filling)[walked + 1]))
    /\ unlogged \in BOOLEAN
    /\ package # "none" => missing \subseteq Documents(package)
    /\ zip \in {"none", "torn", "refused", "verified"}

\* A verdict on the package is about the files that are there.
IndInv ==
    /\ TypeOK
    /\ zip \in {"verified", "refused"} => package # "none"
    /\ zip = "verified" => Verifies
    /\ zip = "refused" => ~Verifies

-----------------------------------------------------------------------------
(* The files of a run.                                                     *)

\* The record is the last file of a run.
LEMMA JsonLast ==
    ASSUME NEW spec
    PROVE  /\ Len(FilesOf(spec)) \in {5, 6}
           /\ \A i \in 1 .. Len(FilesOf(spec)) :
                 FilesOf(spec)[i] = "json" <=> i = Len(FilesOf(spec))
<1>1. CASE spec.proxied
  <2>1. FilesOf(spec) =
           <<"server log", "capture log", "pcap", "proxy log", "client log", "json">>
    BY <1>1 DEF FilesOf
  <2>2. PICK fs : fs = FilesOf(spec)
    OBVIOUS
  <2>3. fs = <<"server log", "capture log", "pcap", "proxy log", "client log", "json">>
    BY <2>1, <2>2
  <2>4. Len(fs) = 6
    BY <2>3
  <2>5. /\ fs[1] = "server log" /\ fs[2] = "capture log" /\ fs[3] = "pcap"
        /\ fs[4] = "proxy log" /\ fs[5] = "client log" /\ fs[6] = "json"
    BY <2>3
  <2>6. \A i \in 1 .. 6 : i \in {1, 2, 3, 4, 5, 6}
    OBVIOUS
  <2> QED
    BY <2>2, <2>4, <2>5, <2>6
<1>2. CASE ~spec.proxied
  <2>1. FilesOf(spec) = <<"server log", "capture log", "pcap", "client log", "json">>
    BY <1>2 DEF FilesOf
  <2>2. PICK fs : fs = FilesOf(spec)
    OBVIOUS
  <2>3. fs = <<"server log", "capture log", "pcap", "client log", "json">>
    BY <2>1, <2>2
  <2>4. Len(fs) = 5
    BY <2>3
  <2>5. /\ fs[1] = "server log" /\ fs[2] = "capture log" /\ fs[3] = "pcap"
        /\ fs[4] = "client log" /\ fs[5] = "json"
    BY <2>3
  <2>6. \A i \in 1 .. 5 : i \in {1, 2, 3, 4, 5}
    OBVIOUS
  <2> QED
    BY <2>2, <2>4, <2>5, <2>6
<1> QED
  BY <1>1, <1>2

\* A run has a record exactly when it has all its files.
LEMMA JsonCreated ==
    ASSUME NEW spec, NEW m \in Nat, m <= Len(FilesOf(spec))
    PROVE  "json" \in Created(spec, m) <=> m = Len(FilesOf(spec))
<1>1. Len(FilesOf(spec)) \in {5, 6}
  BY JsonLast
<1>2. "json" \in Created(spec, m) <=> \E i \in 1 .. m : FilesOf(spec)[i] = "json"
  BY DEF Created
<1>3. \A i \in 1 .. m : i \in 1 .. Len(FilesOf(spec))
  BY <1>1
<1>4. \A i \in 1 .. m : FilesOf(spec)[i] = "json" <=> i = Len(FilesOf(spec))
  BY <1>3, JsonLast
<1> QED
  BY <1>1, <1>2, <1>4

\* run_scenario writes a record, whatever the run.
LEMMA EveryRunHasJson ==
    ASSUME NEW spec
    PROVE  "json" \in AllFiles(spec)
<1>1. Len(FilesOf(spec)) \in {5, 6}
  BY JsonLast
<1> QED
  BY <1>1, JsonCreated DEF AllFiles

-----------------------------------------------------------------------------
(* The tables of make_repro_package.py.                                    *)

\* No document is called like a module, the required files are collected, and
\* no package excludes its own directories.
LEMMA Tables ==
    ASSUME NEW p \in DOMAIN Raw
    PROVE  /\ Documents(p) \cap Modules = {}
           /\ RequiredFiles(p) \subseteq Modules \cup Documents(p)
           /\ DirsOf(p) \cap Excluded(p) = {}
<1>1. p \in {"v11", "v12", "v13", "v14", "v15", "v16", "v17", "v18"}
  BY DEF Raw
<1> USE DEF Documents, Modules, RequiredFiles, DirsOf, ExtraRaw, Excluded, Raw
<1>2. CASE p = "v11"
  BY <1>2
<1>3. CASE p = "v12"
  BY <1>3
<1>4. CASE p = "v13"
  BY <1>4
<1>5. CASE p = "v14"
  BY <1>5
<1>6. CASE p = "v15"
  BY <1>6
<1>7. CASE p = "v16"
  BY <1>7
<1>8. CASE p = "v17"
  BY <1>8
<1>9. CASE p = "v18"
  BY <1>9
<1> QED
  BY <1>1, <1>2, <1>3, <1>4, <1>5, <1>6, <1>7, <1>8, <1>9

-----------------------------------------------------------------------------
(* Counting names.                                                         *)

\* The positions of a plan.
LEMMA IntervalCount ==
    ASSUME NEW n \in Nat
    PROVE  IsFiniteSet(1 .. n) /\ Cardinality(1 .. n) = n
  BY FS_Interval

\* The plan of every campaign has every repetition of its combinations once.
LEMMA PlanOnce ==
    ASSUME NEW dir \in DOMAIN Campaigns
    PROVE  EachOnce(PlanOf(dir), Campaigns[dir].reps)
<1>1. PICK c : c = Campaigns[dir]
  OBVIOUS
<1>2. PlanOf(dir) = BuiltPlan(c)
  BY <1>1 DEF PlanOf, AllPlans
<1>3. /\ c.runner \in {"smoke", "batch", "v11", "v12", "v15", "v16", "direct", "v17", "v18", "e8"}
      /\ c.reps \in Nat
      /\ c.runner = "smoke" => c.reps = 1
      /\ c.rows \in Seq(STRING) /\ AllDiffer(c.rows, Len(c.rows))
      /\ c.columns \in Seq(STRING) /\ AllDiffer(c.columns, Len(c.columns))
  BY <1>1, CampaignsAssumption DEF Once, AllDiffer
<1>4. CASE c.runner = "smoke"
  <2>1. BuiltPlan(c) = SmokeSpecs
    BY <1>4, Zenon DEF BuiltPlan
  <2> QED
    BY <1>1, <1>2, <1>3, <1>4, <2>1, SmokeOnce
<1>5. CASE c.runner = "batch"
  <2>1. BuiltPlan(c) = BatchSpecs(c.reps)
    BY <1>5, Zenon DEF BuiltPlan
  <2> QED
    BY <1>1, <1>2, <1>3, <2>1, BatchOnce
<1>6. CASE c.runner = "v11"
  <2>1. BuiltPlan(c) = V11Specs(c.reps)
    BY <1>6, Zenon DEF BuiltPlan
  <2> QED
    BY <1>1, <1>2, <1>3, <2>1, V11Once
<1>7. CASE c.runner = "v12"
  <2>1. BuiltPlan(c) = V12Specs(c.reps, c.columns, c.rows, c.offer)
    BY <1>7, Zenon DEF BuiltPlan
  <2> QED
    BY <1>1, <1>2, <1>3, <2>1, V12Once
<1>8. CASE c.runner = "v15"
  <2>1. BuiltPlan(c) = V15Specs(c.reps, c.rows)
    BY <1>8, Zenon DEF BuiltPlan
  <2> QED
    BY <1>1, <1>2, <1>3, <2>1, V15Once
<1>9. CASE c.runner = "v16"
  <2>1. BuiltPlan(c) = V16Specs(c.reps, c.columns, c.rows)
    BY <1>9, Zenon DEF BuiltPlan
  <2> QED
    BY <1>1, <1>2, <1>3, <2>1, V16Once
<1>10. CASE c.runner = "direct"
  <2>1. BuiltPlan(c) = V16DirectSpecs(c.reps, c.columns, c.rows)
    BY <1>10, Zenon DEF BuiltPlan
  <2> QED
    BY <1>1, <1>2, <1>3, <2>1, V16DirectOnce
<1>11. CASE c.runner = "v17"
  <2>1. BuiltPlan(c) = V17Specs(c.reps)
    BY <1>11, Zenon DEF BuiltPlan
  <2> QED
    BY <1>1, <1>2, <1>3, <2>1, V17Once
<1>12. CASE c.runner = "v18"
  <2>1. BuiltPlan(c) = V18Specs(c.reps, c.columns)
    BY <1>12, Zenon DEF BuiltPlan
  <2> QED
    BY <1>1, <1>2, <1>3, <2>1, V18Once
<1>13. CASE c.runner = "e8"
  <2>1. BuiltPlan(c) = E8Specs(c.reps, c.rows)
    BY <1>13, Zenon DEF BuiltPlan
  <2> QED
    BY <1>1, <1>2, <1>3, <2>1, E8Once
<1> QED
  BY <1>3, <1>4, <1>5, <1>6, <1>7, <1>8, <1>9, <1>10, <1>11, <1>12, <1>13

\* The campaigns of the model are those of the packages and the others.
LEMMA PlanLengths ==
    ASSUME NEW dir, dir \in Unpackaged \/ \E p \in Packages : dir \in DirsOf(p)
    PROVE  dir \in DOMAIN Campaigns /\ Len(PlanOf(dir)) \in Nat
<1>1. dir \in DOMAIN Campaigns
  BY PackageAssumption
<1> QED
  BY <1>1, PlanOnce DEF EachOnce

\* The name of a file of run k, and the names of a suffix in a directory.
NameOf(dir, k, x) == [dir |-> dir, run |-> RunId(PlanOf(dir)[k]), suffix |-> x]
NamesOf(dir, x, K) == {NameOf(dir, k, x) : k \in K}
Distinct(dir, n) == \A j, k \in 1 .. n : RunId(PlanOf(dir)[j]) = RunId(PlanOf(dir)[k]) => j = k

\* There are at most as many names as runs, and as many if no two runs have
\* the same name.
LEMMA NameCount ==
    ASSUME NEW dir, NEW x, NEW n \in Nat, NEW K \in SUBSET (1 .. n)
    PROVE  /\ IsFiniteSet(K) /\ Cardinality(K) \in Nat
           /\ IsFiniteSet(NamesOf(dir, x, K)) /\ Cardinality(NamesOf(dir, x, K)) \in Nat
           /\ Cardinality(NamesOf(dir, x, K)) <= Cardinality(K)
           /\ Distinct(dir, n) => Cardinality(NamesOf(dir, x, K)) = Cardinality(K)
<1> DEFINE S == NamesOf(dir, x, K)
           f == [k \in K |-> NameOf(dir, k, x)]
<1>1. IsFiniteSet(K)
  BY IntervalCount, FS_Subset
<1>2. f \in Surjection(K, S)
  BY DEF Surjection, NamesOf
<1>3. f \in [K -> S]
  BY DEF NamesOf
<1>4. /\ IsFiniteSet(S) /\ Cardinality(S) <= Cardinality(K)
      /\ Cardinality(S) = Cardinality(K) <=> f \in Injection(K, S)
  <2> HIDE DEF f, S
  <2> QED
    BY <1>1, <1>2, FS_Surjection
<1>5. ASSUME Distinct(dir, n)
      PROVE  f \in Injection(K, S)
  <2>1. \A k \in K : f[k].run = RunId(PlanOf(dir)[k])
    BY DEF NameOf
  <2>2. \A j, k \in K : f[j] = f[k] => j = k
    <3> HIDE DEF f
    <3> QED
      BY <1>5, <2>1 DEF Distinct
  <2>3. DOMAIN f = K
    OBVIOUS
  <2> HIDE DEF f, S
  <2> QED
    BY <1>3, <2>2, <2>3 DEF Injection, IsInjective
<1>6. Cardinality(K) \in Nat /\ Cardinality(S) \in Nat
  BY <1>1, <1>4, FS_CardinalityType
<1> QED
  BY <1>1, <1>4, <1>5, <1>6

\* No run has the name of the inventory.
LEMMA InventoryApart ==
    ASSUME NEW dir, NEW k, NEW x
    PROVE  NameOf(dir, k, x) # Inventory(dir)
<1>1. NameOf(dir, k, x).run = RunId(PlanOf(dir)[k]) /\ Inventory(dir).run = <<"inventory">>
  BY DEF NameOf, Inventory
<1>2. Len(RunId(PlanOf(dir)[k])) = 4 /\ Len(<<"inventory">>) = 1
  BY DEF RunId
<1> QED
  BY <1>1, <1>2

\* What is in a directory.
LEMMA InDirectory ==
    ASSUME NEW dir, NEW w \in Nat, NEW m \in Nat, NEW n
    PROVE  n \in Names(dir, w, m) <=>
             \/ \E k \in 1 .. w : \E x \in AllFiles(PlanOf(dir)[k]) : n = NameOf(dir, k, x)
             \/ m # 0 /\ \E x \in Present(PlanOf(dir)[w + 1], m) : n = NameOf(dir, w + 1, x)
             \/ Campaigns[dir].inventory /\ n = Inventory(dir)
<1> DEFINE A == UNION {Artifacts(dir, k, AllFiles(PlanOf(dir)[k])) : k \in 1 .. w}
           B == IF m = 0 THEN {} ELSE Artifacts(dir, w + 1, Present(PlanOf(dir)[w + 1], m))
           C == IF Campaigns[dir].inventory THEN {Inventory(dir)} ELSE {}
<1>1. n \in A <=> \E k \in 1 .. w : \E x \in AllFiles(PlanOf(dir)[k]) : n = NameOf(dir, k, x)
  BY DEF Artifacts, NameOf
<1>2. n \in B <=> m # 0 /\ \E x \in Present(PlanOf(dir)[w + 1], m) : n = NameOf(dir, w + 1, x)
  BY DEF Artifacts, NameOf
<1>3. n \in C <=> Campaigns[dir].inventory /\ n = Inventory(dir)
  OBVIOUS
<1>4. Names(dir, w, m) = A \cup B \cup C
  BY DEF Names
<1> HIDE DEF A, B, C
<1>5. n \in Names(dir, w, m) <=> n \in A \/ n \in B \/ n \in C
  BY <1>4
<1> QED
  BY <1>1, <1>2, <1>3, <1>5, Zenon

\* A name in a directory says so.
LEMMA DirOfName ==
    ASSUME NEW dir, NEW w \in Nat, NEW m \in Nat, NEW n \in Names(dir, w, m)
    PROVE  n.dir = dir
<1>1. /\ \A k, x : NameOf(dir, k, x).dir = dir
      /\ Inventory(dir).dir = dir
  BY DEF NameOf, Inventory
<1>2. (\E k, x : n = NameOf(dir, k, x)) \/ n = Inventory(dir)
  BY InDirectory, Zenon
<1> QED
  BY <1>1, <1>2

\* The names of a package that lie in one of its directories.
LEMMA InPackage ==
    ASSUME TypeOK, package \in Packages, NEW dir \in DirsOf(package), NEW n
    PROVE  n \in RawNames /\ n.dir = dir <=>
              n \in IF dir = filling THEN Names(dir, walked, files)
                    ELSE Names(dir, Len(PlanOf(dir)), 0)
<1> DEFINE In(d) == IF d = filling THEN Names(d, walked, files) ELSE Names(d, Len(PlanOf(d)), 0)
<1>1. \A d \in DirsOf(package) : Len(PlanOf(d)) \in Nat
  BY PlanLengths
<1>2. filling \in DirsOf(package)
  BY PackageAssumption DEF TypeOK, Raw
<1>3. walked \in Nat /\ files \in Nat
  BY <1>1, <1>2 DEF TypeOK
<1>4. \A d \in DirsOf(package) : n \in In(d) => n.dir = d
  BY <1>1, <1>3, DirOfName
<1>5. n \in RawNames <=> \E d \in DirsOf(package) : n \in In(d)
  BY DEF RawNames
<1> HIDE DEF In
<1>6. n \in RawNames /\ n.dir = dir <=> n \in In(dir)
  BY <1>4, <1>5
<1> QED
  BY <1>6 DEF In

-----------------------------------------------------------------------------
(* The inductive invariant.                                                *)

\* The directory that is being filled is one of the campaigns.
LEMMA PlanLength ==
    ASSUME TypeOK
    PROVE  /\ Len(PlanOf(filling)) \in Nat
           /\ package # "none" => package \in Packages /\ filling \in DirsOf(package)
  BY PlanLengths DEF TypeOK

\* verify_zip looks at the directories and the checkout only.
LEMMA VerifiesStable ==
    ASSUME UNCHANGED <<package, filling, walked, files, unlogged, missing>>
    PROVE  Verifies' <=> Verifies
  BY DEF Verifies, Count, RawNames, Names, Present, OtherNames

\* Nothing is run and nothing is built.
LEMMA PackageInit == Init => IndInv
<1> SUFFICES ASSUME Init PROVE IndInv
  OBVIOUS
<1>1. Len(PlanOf(filling)) \in Nat
  BY PlanLengths DEF Init
<1>2. unlogged \in BOOLEAN
  BY DEF Init
<1>3. /\ \/ package \in Packages /\ filling \in DirsOf(package)
         \/ package = "none" /\ filling \in Unpackaged
      /\ walked = 0 /\ files = 0 /\ missing = {} /\ zip = "none"
  BY DEF Init
<1> QED
  BY <1>1, <1>2, <1>3 DEF IndInv, TypeOK

\* Every step keeps the inductive invariant: what changes a directory or the
\* checkout takes back the verdict.
LEMMA PackageStep == IndInv /\ [Next]_vars => IndInv'
<1> SUFFICES ASSUME IndInv, [Next]_vars PROVE IndInv'
  OBVIOUS
<1>1. TypeOK /\ Len(PlanOf(filling)) \in Nat
  BY PlanLength DEF IndInv
<1>2. CASE CreateFile
  <2>1. unlogged' \in BOOLEAN
    BY <1>1, <1>2 DEF CreateFile, TypeOK
  <2>2. files' = files + 1 /\ files < Len(FilesOf(PlanOf(filling)[walked + 1]))
        /\ walked < Len(PlanOf(filling)) /\ zip' = "none"
        /\ UNCHANGED <<package, filling, walked, missing>>
    BY <1>2 DEF CreateFile
  <2>3. Len(FilesOf(PlanOf(filling)[walked + 1])) \in {5, 6}
    BY JsonLast
  <2>4. files' \in Nat /\ files' <= Len(FilesOf(PlanOf(filling)[walked + 1]))
    BY <1>1, <2>2, <2>3 DEF TypeOK
  <2> QED
    BY <1>1, <2>1, <2>2, <2>4 DEF IndInv, TypeOK
<1>3. CASE Evaluate
  <2>1. /\ walked < Len(PlanOf(filling)) /\ walked' = walked + 1 /\ files' = 0 /\ zip' = "none"
        /\ UNCHANGED <<package, filling, unlogged, missing>>
    BY <1>3 DEF Evaluate
  <2>2. walked' \in 0 .. Len(PlanOf(filling))
    BY <1>1, <2>1 DEF TypeOK
  <2> QED
    BY <1>1, <2>1, <2>2 DEF IndInv, TypeOK
<1>4. CASE LoseDocument
  <2>1. PICK d \in Documents(package) : missing' = {d}
    BY <1>4 DEF LoseDocument
  <2>2. zip' = "none" /\ UNCHANGED <<package, filling, walked, files, unlogged>>
    BY <1>4 DEF LoseDocument
  <2>3. missing' \subseteq Documents(package')
    BY <2>1, <2>2
  <2> QED
    BY <1>1, <2>2, <2>3 DEF IndInv, TypeOK
<1>5. CASE Build
  <2>1. /\ package # "none" /\ UNCHANGED <<package, filling, walked, files, unlogged, missing>>
        /\ zip' = IF Verifies THEN "verified" ELSE "refused"
    BY <1>5 DEF Build
  <2>2. TypeOK'
    BY <1>1, <2>1 DEF TypeOK
  <2> QED
    BY <2>1, <2>2, VerifiesStable DEF IndInv
<1>6. CASE BuildDies
  <2>1. zip' = "torn" /\ UNCHANGED <<package, filling, walked, files, unlogged, missing>>
    BY <1>6 DEF BuildDies
  <2> QED
    BY <1>1, <2>1 DEF IndInv, TypeOK
<1>7. CASE UNCHANGED vars
  <2>1. UNCHANGED <<package, filling, walked, files, unlogged, missing, zip>>
    BY <1>7 DEF vars
  <2>2. TypeOK'
    BY <1>1, <2>1 DEF TypeOK
  <2> QED
    BY <2>1, <2>2, VerifiesStable DEF IndInv
<1> QED
  BY <1>2, <1>3, <1>4, <1>5, <1>6, <1>7 DEF Next

\* The runner stays in its plan, and a verdict is about the files there are.
THEOREM PackageInductive == Spec => []IndInv
  BY PackageInit, PackageStep, PTL DEF Spec

-----------------------------------------------------------------------------
(* The properties.                                                         *)

\* Where the record of a run is missing, the records are too few.
LEMMA TooFew ==
    ASSUME TypeOK, package \in Packages, filling \in DirsOf(package),
           NEW bad \in 1 .. Len(PlanOf(filling)), ~HasJson(bad),
           NEW need, need.dir = filling, need.suffix = "json"
    PROVE  Count(need) < Yield(filling, "json") /\ Count(need) \in Nat /\ Yield(filling, "json") \in Nat
<1> DEFINE L == Len(PlanOf(filling))
           J == {k \in 1 .. L : HasJson(k)}
           S == NamesOf(filling, "json", J)
           I == IF Campaigns[filling].inventory THEN {Inventory(filling)} ELSE {}
           i == IF Campaigns[filling].inventory THEN 1 ELSE 0
           C == {n \in RawNames : n.dir = need.dir /\ n.suffix = need.suffix}
<1>1. L \in Nat /\ walked \in 0 .. L /\ files \in Nat
  BY PlanLength DEF TypeOK
<1>2. C \subseteq S \cup I
  <2> SUFFICES ASSUME NEW n \in C PROVE n \in S \cup I
    OBVIOUS
  <2>1. n \in Names(filling, walked, files) /\ n.suffix = "json"
    BY InPackage
  <2>2. walked \in Nat
    BY <1>1
  <2>3. CASE \E k \in 1 .. walked : \E x \in AllFiles(PlanOf(filling)[k]) : n = NameOf(filling, k, x)
    <3>1. PICK k \in 1 .. walked : \E x \in AllFiles(PlanOf(filling)[k]) : n = NameOf(filling, k, x)
      BY <2>3
    <3>2. n = NameOf(filling, k, "json")
      BY <2>1, <3>1 DEF NameOf
    <3>3. k \in 1 .. L /\ HasJson(k)
      BY <1>1, <3>1 DEF HasJson
    <3> QED
      BY <3>2, <3>3 DEF NamesOf
  <2>4. CASE files # 0 /\ \E x \in Present(PlanOf(filling)[walked + 1], files) :
                            n = NameOf(filling, walked + 1, x)
    <3>1. PICK x \in Present(PlanOf(filling)[walked + 1], files) :
             n = NameOf(filling, walked + 1, x)
      BY <2>4
    <3>2. n = NameOf(filling, walked + 1, "json") /\ x = "json"
      BY <2>1, <3>1 DEF NameOf
    <3>3. walked < L /\ files <= Len(FilesOf(PlanOf(filling)[walked + 1]))
      BY <2>4 DEF TypeOK
    <3>4. files = Len(FilesOf(PlanOf(filling)[walked + 1]))
      BY <1>1, <3>1, <3>2, <3>3, JsonCreated DEF Present
    <3>5. walked + 1 \in 1 .. L
      BY <1>1, <3>3
    <3>6. HasJson(walked + 1)
      BY <3>4 DEF HasJson, Walked
    <3> QED
      BY <3>2, <3>5, <3>6 DEF NamesOf
  <2>5. CASE Campaigns[filling].inventory /\ n = Inventory(filling)
    BY <2>5
  <2>6. \/ \E k \in 1 .. walked : \E x \in AllFiles(PlanOf(filling)[k]) : n = NameOf(filling, k, x)
        \/ files # 0 /\ \E x \in Present(PlanOf(filling)[walked + 1], files) :
                           n = NameOf(filling, walked + 1, x)
        \/ Campaigns[filling].inventory /\ n = Inventory(filling)
    BY <1>1, <2>1, <2>2, InDirectory
  <2> QED
    BY <2>3, <2>4, <2>5, <2>6, Zenon
<1>3. IsFiniteSet(J) /\ Cardinality(J) < L /\ Cardinality(J) \in Nat
  <2>1. IsFiniteSet(1 .. L) /\ Cardinality(1 .. L) = L
    BY <1>1, IntervalCount
  <2>2. J \in SUBSET (1 .. L) /\ bad \in (1 .. L) \ J
    OBVIOUS
  <2> HIDE DEF J, L
  <2>3. IsFiniteSet(J) /\ Cardinality(J) <= L /\ Cardinality(J) # L
    BY <2>1, <2>2, FS_Subset
  <2>4. Cardinality(J) \in Nat
    BY <2>3, FS_CardinalityType
  <2> QED
    BY <1>1, <2>3, <2>4
<1>4. IsFiniteSet(S) /\ Cardinality(S) <= Cardinality(J) /\ Cardinality(S) \in Nat
  <2>1. J \in SUBSET (1 .. L)
    OBVIOUS
  <2> HIDE DEF J, L
  <2> QED
    BY <1>1, <2>1, NameCount
<1>5. i \in {0, 1} /\ IsFiniteSet(I) /\ Cardinality(I) = i
  BY FS_EmptySet, FS_Singleton
<1>6. Yield(filling, "json") = L + i
  <2>1. {k \in 1 .. L : "json" \in AllFiles(PlanOf(filling)[k])} = 1 .. L
    BY EveryRunHasJson
  <2>2. Cardinality(1 .. L) = L
    BY <1>1, IntervalCount
  <2> QED
    BY <2>1, <2>2 DEF Yield
<1>7. Count(need) = Cardinality(C)
  BY DEF Count
<1> HIDE DEF L, J, S, I, i, C
<1>8. IsFiniteSet(S \cup I) /\ Cardinality(S \cup I) <= Cardinality(S) + i
  <2>1. /\ IsFiniteSet(S \cup I)
        /\ Cardinality(S \cup I) = Cardinality(S) + Cardinality(I) - Cardinality(S \cap I)
    BY <1>4, <1>5, FS_Union
  <2>2. IsFiniteSet(S \cap I)
    BY <1>4, FS_Intersection
  <2>3. Cardinality(S \cap I) \in Nat
    BY <2>2, FS_CardinalityType
  <2> QED
    BY <1>4, <1>5, <2>1, <2>3
<1>9. IsFiniteSet(C) /\ Cardinality(C) <= Cardinality(S \cup I)
  BY <1>2, <1>8, FS_Subset
<1>10. Cardinality(C) \in Nat /\ Cardinality(S \cup I) \in Nat
  BY <1>8, <1>9, FS_CardinalityType
<1> QED
  BY <1>1, <1>3, <1>4, <1>5, <1>6, <1>7, <1>8, <1>9, <1>10

\* A package that verify_zip accepts has the record of every run of its plans
\* and every required file.
THEOREM PackageVerifiedIsComplete == Spec => []VerifiedIsComplete
<1>1. IndInv => VerifiedIsComplete
  <2> SUFFICES ASSUME IndInv, zip = "verified"
               PROVE  /\ \A k \in 1 .. Len(PlanOf(filling)) : HasJson(k)
                      /\ missing \cap RequiredFiles(package) = {}
    BY DEF VerifiedIsComplete
  <2>1. TypeOK /\ package \in Packages /\ filling \in DirsOf(package) /\ Verifies
    BY PlanLength DEF IndInv
  <2>2. ASSUME NEW k \in 1 .. Len(PlanOf(filling)) PROVE HasJson(k)
    <3>1. PICK need \in Needs(package) :
             /\ need.dir = filling /\ need.suffix = "json"
             /\ need.minimum >= Yield(filling, "json")
      BY <2>1, PackageAssumption
    <3>2. need.minimum \in 0 .. Yield(filling, "json")
      BY <2>1, <3>1, PackageAssumption
    <3>3. Count(need) >= need.minimum
      BY <2>1 DEF Verifies
    <3>4. ~HasJson(k) => Count(need) < Yield(filling, "json") /\ Count(need) \in Nat
                         /\ Yield(filling, "json") \in Nat
      BY <2>1, <3>1, TooFew
    <3> QED
      BY <3>1, <3>2, <3>3, <3>4
  <2>3. missing \cap RequiredFiles(package) = {}
    <3>1. missing \subseteq Documents(package)
      BY <2>1, PackageAssumption DEF TypeOK, Raw
    <3>2. Documents(package) \cap Modules = {}
      BY <2>1, PackageAssumption, Tables
    <3>3. RequiredFiles(package) \subseteq Modules \cup (Documents(package) \ missing)
      BY <2>1 DEF Verifies, OtherNames
    <3> QED
      BY <3>1, <3>2, <3>3
  <2> QED
    BY <2>2, <2>3
<1> QED
  BY <1>1, PackageInductive, PTL

\* A finished plan has run every repetition of each of its combinations exactly
\* once: the loops of the builders miss no repetition and repeat none.
THEOREM PackageGridComplete == Spec => []GridComplete
<1>1. TypeOK => GridComplete
  <2> SUFFICES ASSUME TypeOK, walked = Len(PlanOf(filling)),
                      NEW i \in 1 .. walked, NEW rep \in 1 .. Campaigns[filling].reps
               PROVE  Cardinality({j \in 1 .. walked :
                         /\ Walked(j).rep = rep
                         /\ \A f \in {"impl", "fault", "cond"} : Walked(j)[f] = Walked(i)[f]}) = 1
    BY DEF GridComplete
  <2>1. filling \in DOMAIN Campaigns
    BY PlanLengths DEF TypeOK
  <2>2. EachOnce(PlanOf(filling), Campaigns[filling].reps)
    BY <2>1, PlanOnce
  <2>3. PICK only \in 1 .. walked : \A k \in 1 .. walked :
           Walked(k).rep = rep /\ Cell(Walked(k)) = Cell(Walked(i)) <=> k = only
    BY <2>2 DEF EachOnce, JustOne, Walked
  <2>4. \A k \in 1 .. walked :
           (\A f \in {"impl", "fault", "cond"} : Walked(k)[f] = Walked(i)[f])
              <=> Cell(Walked(k)) = Cell(Walked(i))
    BY DEF Cell
  <2>5. {j \in 1 .. walked :
            /\ Walked(j).rep = rep
            /\ \A f \in {"impl", "fault", "cond"} : Walked(j)[f] = Walked(i)[f]} = {only}
    BY <2>3, <2>4
  <2> QED
    BY <2>5, FS_Singleton
<1>2. IndInv => TypeOK
  BY DEF IndInv
<1> QED
  BY <1>1, <1>2, PackageInductive, PTL

\* When the campaign under way is finished, a directory has its yield.
LEMMA FullCount ==
    ASSUME TypeOK, package \in Packages, filling \in DirsOf(package),
           walked = Len(PlanOf(filling)), NEW need, need.dir \in DirsOf(package)
    PROVE  Count(need) = Yield(need.dir, need.suffix)
<1> DEFINE d == need.dir
           x == need.suffix
           L == Len(PlanOf(d))
           K == {k \in 1 .. L : x \in AllFiles(PlanOf(d)[k])}
           S == NamesOf(d, x, K)
           inv == Campaigns[d].inventory /\ x = "json"
           C == {n \in RawNames : n.dir = d /\ n.suffix = x}
<1>1. L \in Nat /\ Distinct(d, L)
  <2>1. d \in DOMAIN Campaigns /\ L \in Nat
    BY PlanLengths
  <2>2. EachOnce(PlanOf(d), Campaigns[d].reps)
    BY <2>1, PlanOnce
  <2> QED
    BY <2>1, <2>2, NamesOnce DEF Distinct
<1>2. files = 0
  <2>1. Len(PlanOf(filling)) \in Nat
    BY PlanLength
  <2> QED
    BY <2>1 DEF TypeOK
<1>3. \A n : n \in C <=> n \in Names(d, L, 0) /\ n.suffix = x
  BY <1>2, InPackage
<1>4. \A n : n \in Names(d, L, 0) <=>
               \/ \E k \in 1 .. L : \E y \in AllFiles(PlanOf(d)[k]) : n = NameOf(d, k, y)
               \/ Campaigns[d].inventory /\ n = Inventory(d)
  <2>1. 0 \in Nat
    OBVIOUS
  <2> HIDE DEF d, L
  <2> QED
    BY <1>1, <2>1, InDirectory
<1>5. \A n : n \in C <=> n \in S \/ (inv /\ n = Inventory(d))
  <2>1. \A k, y : NameOf(d, k, y).suffix = y
    BY DEF NameOf
  <2>2. Inventory(d).suffix = "json"
    BY DEF Inventory
  <2>3. \A n : n \in S <=> \E k \in 1 .. L : x \in AllFiles(PlanOf(d)[k]) /\ n = NameOf(d, k, x)
    BY DEF NamesOf
  <2> HIDE DEF d, x, L, S, C
  <2>4. \A n : (\E k \in 1 .. L : \E y \in AllFiles(PlanOf(d)[k]) : n = NameOf(d, k, y)) /\ n.suffix = x
               <=> n \in S
    BY <2>1, <2>3
  <2>5. \A n : Campaigns[d].inventory /\ n = Inventory(d) /\ n.suffix = x <=> inv /\ n = Inventory(d)
    BY <2>2
  <2> QED
    BY <1>3, <1>4, <2>4, <2>5
<1>6. /\ IsFiniteSet(S) /\ Cardinality(S) = Cardinality(K) /\ Cardinality(K) \in Nat
  <2>1. K \in SUBSET (1 .. L)
    OBVIOUS
  <2>2. L \in Nat
    BY <1>1
  <2>3. Distinct(d, L)
    BY <1>1
  <2> HIDE DEF d, x, L, K
  <2>4. /\ IsFiniteSet(NamesOf(d, x, K)) /\ Cardinality(K) \in Nat
        /\ Distinct(d, L) => Cardinality(NamesOf(d, x, K)) = Cardinality(K)
    BY <2>1, <2>2, NameCount
  <2> QED
    BY <2>3, <2>4
<1>7. Inventory(d) \notin S
  BY InventoryApart DEF NamesOf
<1>8. Count(need) = Cardinality(C)
  BY DEF Count
<1>9. Yield(d, x) = Cardinality(K) + (IF inv THEN 1 ELSE 0)
  BY DEF Yield
<1> HIDE DEF d, x, L, K, S, C, inv
<1>10. CASE inv
  <2>1. C = S \cup {Inventory(d)}
    BY <1>5, <1>10
  <2>2. Cardinality(C) = Cardinality(S) + 1
    BY <1>6, <1>7, <2>1, FS_AddElement
  <2> QED
    BY <1>6, <1>8, <1>9, <1>10, <2>2 DEF d, x
<1>11. CASE ~inv
  <2>1. C = S
    BY <1>5, <1>11
  <2> QED
    BY <1>6, <1>8, <1>9, <1>11, <2>1 DEF d, x
<1> QED
  BY <1>10, <1>11

\* The package of finished campaigns is not refused: the minimum counts, the
\* exclusions and the required files ask for nothing that is not there.
THEOREM PackageCompleteIsVerified == Spec => []CompleteIsVerified
<1>1. IndInv => CompleteIsVerified
  <2> SUFFICES ASSUME IndInv, walked = Len(PlanOf(filling)), missing = {}, zip = "refused"
               PROVE  FALSE
    BY DEF CompleteIsVerified
  <2>1. TypeOK /\ package \in Packages /\ filling \in DirsOf(package) /\ ~Verifies
    BY PlanLength DEF IndInv
  <2>2. /\ Documents(package) \cap Modules = {}
        /\ RequiredFiles(package) \subseteq Modules \cup Documents(package)
        /\ DirsOf(package) \cap Excluded(package) = {}
    BY <2>1, PackageAssumption, Tables
  <2>3. RequiredFiles(package) \subseteq OtherNames
    BY <2>2 DEF OtherNames
  <2>4. ASSUME NEW need \in Needs(package) PROVE Count(need) >= need.minimum
    <3>1. need.dir \in DirsOf(package) /\ need.minimum \in 0 .. Yield(need.dir, need.suffix)
      BY <2>1, PackageAssumption
    <3>2. Count(need) = Yield(need.dir, need.suffix)
      BY <2>1, <3>1, FullCount
    <3>3. Yield(need.dir, need.suffix) \in Int
      <4>1. Len(PlanOf(need.dir)) \in Nat
        BY <2>1, <3>1, PlanLengths
      <4>2. Cardinality({k \in 1 .. Len(PlanOf(need.dir)) :
                           need.suffix \in AllFiles(PlanOf(need.dir)[k])}) \in Nat
        BY <4>1, NameCount
      <4> QED
        BY <4>2 DEF Yield
    <3> QED
      BY <3>1, <3>2, <3>3
  <2>5. ASSUME NEW n \in RawNames PROVE n.dir \notin Excluded(package)
    <3>1. PICK dir \in DirsOf(package) :
             n \in IF dir = filling THEN Names(dir, walked, files)
                   ELSE Names(dir, Len(PlanOf(dir)), 0)
      BY DEF RawNames
    <3>2. n.dir = dir
      BY <2>1, <3>1, InPackage
    <3> QED
      BY <2>2, <3>2
  <2> QED
    BY <2>1, <2>3, <2>4, <2>5 DEF Verifies
<1> QED
  BY <1>1, PackageInductive, PTL
=============================================================================
