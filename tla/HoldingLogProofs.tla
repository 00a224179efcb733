--------------------------- MODULE HoldingLogProofs ---------------------------
(* What replaying a log and ordering rows by their sequence number compute, for *)
(* logs of any length.  Nothing is proved here of the service or of a device:   *)
(* SyncStoreProofs uses these facts.                                            *)
(*                                                                              *)
(* Induction is over sets of numbers: the numbers for which a fact holds        *)
(* contain 0 and each successor, so they contain all.                           *)
EXTENDS HoldingLog, FiniteSetTheorems, TLAPS

\* A set of natural numbers has a least element.
LEMMA LeastNatural ==
  ASSUME NEW T \in SUBSET Nat, T # {}
  PROVE  \E x \in T : \A y \in T : x <= y
<1> DEFINE R == OpToRel(<, Nat)
<1>1. IsWellFoundedOn(R, Nat)
  BY NatLessThanWellFounded
<1>2. \A x, y \in Nat : y < x => <<y, x>> \in R
  BY DEF OpToRel
<1> HIDE DEF R
<1>3. PICK x \in T : \A y \in T : ~(<<y, x>> \in R)
  BY <1>1, WFMin
<1>4. \A y \in T : ~(y < x)
  BY <1>2, <1>3
<1>5. \A y \in T : x <= y
  BY <1>4
<1> QED
  BY <1>5

\* Induction, for the set of the numbers that have a property.
LEMMA SetInduction ==
  ASSUME NEW S, 0 \in S, \A n \in Nat : n \in S => n + 1 \in S
  PROVE  Nat \subseteq S
<1> SUFFICES ASSUME Nat \ S # {} PROVE FALSE
  OBVIOUS
<1>1. PICK m \in Nat \ S : \A y \in Nat \ S : m <= y
  BY LeastNatural
<1>2. m # 0
  OBVIOUS
<1>3. m - 1 \in Nat /\ m - 1 \in S
  BY <1>1, <1>2
<1> QED
  BY <1>1, <1>3

-----------------------------------------------------------------------------
(* Replay.                                                                     *)

NothingYet == [h \in Holdings |-> NeverAdded]

\* The recursive definition of the quantities has a solution at every length.
LEMMA ReplayExists ==
  ASSUME NEW ops, NEW n \in Nat
  PROVE  \E g : g = [i \in 0..n |-> IF i = 0 THEN NothingYet ELSE After(g[i-1], ops[i])]
<1> DEFINE Solves(g, m) ==
             g = [i \in 0..m |-> IF i = 0 THEN NothingYet ELSE After(g[i-1], ops[i])]
           S == {m \in Nat : \E g : Solves(g, m)}
<1>1. 0 \in S
  <2>1. Solves([i \in 0..0 |-> NothingYet], 0)
    OBVIOUS
  <2> QED
    BY <2>1
<1>2. ASSUME NEW m \in Nat, m \in S
      PROVE  m + 1 \in S
  <2>1. PICK g : Solves(g, m)
    BY <1>2
  <2> DEFINE h == [i \in 0..(m+1) |-> IF i <= m THEN g[i] ELSE After(g[m], ops[m+1])]
  <2>2. \A i \in 0..m : g[i] = IF i = 0 THEN NothingYet ELSE After(g[i-1], ops[i])
    BY <2>1
  <2>3. ASSUME NEW i \in 0..(m+1)
        PROVE  h[i] = IF i = 0 THEN NothingYet ELSE After(h[i-1], ops[i])
    <3>1. CASE i = 0
      BY <2>2, <3>1
    <3>2. CASE i \in 1..m
      <4>1. h[i] = g[i] /\ h[i-1] = g[i-1] /\ i # 0
        BY <3>2
      <4>2. g[i] = After(g[i-1], ops[i])
        BY <2>2, <3>2
      <4> QED
        BY <4>1, <4>2
    <3>3. CASE i = m + 1
      <4>1. h[i] = After(g[m], ops[m+1]) /\ h[i-1] = g[m] /\ i # 0
        BY <3>3
      <4> QED
        BY <3>3, <4>1
    <3> QED
      BY <3>1, <3>2, <3>3
  <2>4. h = [i \in 0..(m+1) |-> h[i]]
    OBVIOUS
  <2> HIDE DEF h
  <2>5. Solves(h, m + 1)
    BY <2>3, <2>4, Zenon
  <2> QED
    BY <2>5
<1> HIDE DEF S
<1>3. n \in S
  BY <1>1, <1>2, SetInduction
<1> QED
  BY <1>3 DEF S

\* So the quantities are what their definition says.
LEMMA QuantitiesAre ==
  ASSUME NEW ops, Len(ops) \in Nat
  PROVE  /\ Quantities(ops)[0] = NothingYet
         /\ \A n \in 1..Len(ops) :
              Quantities(ops)[n] = After(Quantities(ops)[n-1], ops[n])
<1> DEFINE q == Quantities(ops)
<1>1. \E g : g = [n \in 0..Len(ops) |->
                    IF n = 0 THEN NothingYet ELSE After(g[n-1], ops[n])]
  BY ReplayExists
<1>2. q = [n \in 0..Len(ops) |-> IF n = 0 THEN NothingYet ELSE After(q[n-1], ops[n])]
  BY <1>1, Zenon DEF Quantities, NothingYet
<1> HIDE DEF q
<1>3. \A n \in 0..Len(ops) : q[n] = IF n = 0 THEN NothingYet ELSE After(q[n-1], ops[n])
  BY <1>2
<1>4. q[0] = NothingYet
  BY <1>3
<1>5. \A n \in 1..Len(ops) : q[n] = After(q[n-1], ops[n])
  BY <1>3
<1> QED
  BY <1>4, <1>5 DEF q

\* What a log has become at a position depends on the operations up to it only.
LEMMA QuantitiesOfPrefix ==
  ASSUME NEW ops, NEW more, Len(ops) \in Nat, Len(more) \in Nat,
         NEW m \in 0..Len(ops), m <= Len(more), \A i \in 1..m : ops[i] = more[i]
  PROVE  \A n \in 0..m : Quantities(ops)[n] = Quantities(more)[n]
<1> DEFINE q == Quantities(ops)
           r == Quantities(more)
           S == {n \in Nat : n <= m => q[n] = r[n]}
<1>1. /\ q[0] = r[0]
      /\ \A n \in 1..m : q[n] = After(q[n-1], ops[n]) /\ r[n] = After(r[n-1], more[n])
  BY QuantitiesAre
<1> HIDE DEF q, r
<1>2. 0 \in S
  BY <1>1
<1>3. ASSUME NEW n \in Nat, n \in S
      PROVE  n + 1 \in S
  <2>1. CASE n + 1 <= m
    <3>1. n + 1 \in 1..m /\ q[n] = r[n] /\ (n + 1) - 1 = n
      BY <1>3, <2>1
    <3>2. q[n+1] = After(q[n], ops[n+1]) /\ r[n+1] = After(r[n], more[n+1])
      BY <1>1, <3>1
    <3> QED
      BY <3>1, <3>2
  <2>2. CASE ~(n + 1 <= m)
    BY <2>2
  <2> QED
    BY <2>1, <2>2
<1> HIDE DEF S
<1>4. Nat \subseteq S
  BY <1>2, <1>3, SetInduction
<1> QED
  BY <1>4 DEF S, q, r

\* A log that replays, extended by operations that are legal where they stand, replays.
LEMMA ExtensionReplays ==
  ASSUME NEW ops, NEW more, Len(ops) \in Nat, Len(more) \in Nat,
         Len(ops) <= Len(more), \A i \in 1..Len(ops) : ops[i] = more[i],
         LegalFrom(ops, 1), LegalFrom(more, Len(ops) + 1)
  PROVE  LegalFrom(more, 1)
<1>1. \A n \in 0..Len(ops) : Quantities(ops)[n] = Quantities(more)[n]
  BY QuantitiesOfPrefix
<1>2. ASSUME NEW n \in 1..Len(more)
      PROVE  Legal(Quantities(more)[n-1], more[n])
  <2>1. CASE n <= Len(ops)
    <3>1. Legal(Quantities(ops)[n-1], ops[n])
      BY <2>1 DEF LegalFrom
    <3>2. n - 1 \in 0..Len(ops) /\ ops[n] = more[n]
      BY <2>1
    <3> QED
      BY <1>1, <3>1, <3>2
  <2>2. CASE ~(n <= Len(ops))
    BY <2>2 DEF LegalFrom
  <2> QED
    BY <2>1, <2>2
<1> QED
  BY <1>2 DEF LegalFrom

-----------------------------------------------------------------------------
(* The order of rows.                                                          *)

\* The rank of an element is a position within its finite set.
LEMMA RankRange ==
  ASSUME NEW S \in SUBSET Int, IsFiniteSet(S), NEW i \in S
  PROVE  Rank(S, i) \in 1..Cardinality(S)
<1> DEFINE below == {j \in S : j <= i}
<1>1. IsFiniteSet(below) /\ Cardinality(below) <= Cardinality(S)
  BY FS_Subset
<1>2. Cardinality(below) \in Nat /\ Cardinality(S) \in Nat
  BY <1>1, FS_CardinalityType
<1>3. below # {}
  BY i <= i
<1>4. Cardinality(below) # 0
  BY <1>1, <1>3, FS_EmptySet
<1>5. QED
  BY <1>1, <1>2, <1>4 DEF Rank

\* Greater elements have greater ranks.
LEMMA RankGrows ==
  ASSUME NEW S \in SUBSET Int, IsFiniteSet(S), NEW i \in S, NEW j \in S, i < j
  PROVE  Rank(S, i) < Rank(S, j)
<1> DEFINE below == {k \in S : k <= i}
           upTo == {k \in S : k <= j}
<1>1. below \in SUBSET upTo /\ j \in upTo /\ j \notin below
  <2>1. i \in Int /\ j \in Int /\ \A k \in S : k \in Int
    OBVIOUS
  <2>2. \A k \in S : k <= i => k <= j
    BY <2>1
  <2>3. j <= j /\ ~(j <= i)
    BY <2>1
  <2> QED
    BY <2>2, <2>3
<1>2. IsFiniteSet(upTo)
  BY FS_Subset
<1> HIDE DEF below, upTo
<1>3. /\ Cardinality(below) <= Cardinality(upTo)
      /\ Cardinality(upTo) = Cardinality(below) => upTo = below
  BY <1>1, <1>2, FS_Subset
<1>4. IsFiniteSet(below)
  BY <1>1, <1>2, FS_Subset
<1>5. Cardinality(below) \in Nat /\ Cardinality(upTo) \in Nat
  BY <1>2, <1>4, FS_CardinalityType
<1>6. Cardinality(below) < Cardinality(upTo)
  BY <1>1, <1>3, <1>5
<1> QED
  BY <1>6 DEF Rank, below, upTo

\* Every position of a finite set of numbers is the rank of one of them.
LEMMA RankReached ==
  ASSUME NEW S \in SUBSET Int, IsFiniteSet(S), NEW n \in 1..Cardinality(S)
  PROVE  \E i \in S : Rank(S, i) = n
<1> DEFINE T == 1..Cardinality(S)
           f == [i \in S |-> Rank(S, i)]
<1>1. Cardinality(S) \in Nat
  BY FS_CardinalityType
<1>2. IsFiniteSet(T) /\ Cardinality(T) = Cardinality(S)
  BY <1>1, FS_Interval
<1>3. f \in [S -> T]
  BY RankRange
<1>4. ASSUME NEW i \in S, NEW j \in S, f[i] = f[j]
      PROVE  i = j
  <2>1. Rank(S, i) = Rank(S, j) /\ Rank(S, i) \in Int /\ Rank(S, j) \in Int
    BY <1>4, <1>3
  <2>2. ~(i < j) /\ ~(j < i)
    BY <2>1, RankGrows
  <2> QED
    BY <2>2
<1> HIDE DEF f, T
<1>5. f \in Injection(S, T)
  BY <1>3, <1>4 DEF Injection, IsInjective
<1>6. f \in Surjection(S, T)
  BY <1>2, <1>5, FS_Injection
<1>7. n \in T
  BY DEF T
<1>8. PICK i \in S : f[i] = n
  BY <1>6, <1>7 DEF Surjection
<1> QED
  BY <1>8 DEF f

\* Rows that a sequence number identifies, as the primary key of a table does.
Numbered(rows) ==
  /\ IsFiniteSet(rows)
  /\ \A r \in rows : r.seq \in Int
  /\ \A r, s \in rows : r.seq = s.seq => r = s

Numbers(rows) == {r.seq : r \in rows}

\* There are as many numbers as rows.
LEMMA NumbersCount ==
  ASSUME NEW rows, Numbered(rows)
  PROVE  /\ Numbers(rows) \in SUBSET Int
         /\ IsFiniteSet(Numbers(rows))
         /\ Cardinality(Numbers(rows)) = Cardinality(rows)
         /\ Cardinality(rows) \in Nat
<1> DEFINE f == [r \in rows |-> r.seq]
<1>1. f \in [rows -> Numbers(rows)]
  BY DEF Numbers
<1>2. \A r, s \in rows : f[r] = f[s] => r = s
  BY DEF Numbered
<1>3. \A n \in Numbers(rows) : \E r \in rows : f[r] = n
  BY DEF Numbers
<1> HIDE DEF f
<1>4. f \in Bijection(rows, Numbers(rows))
  BY <1>1, <1>2, <1>3 DEF Bijection, Injection, IsInjective, Surjection
<1>5. ExistsBijection(rows, Numbers(rows))
  BY <1>4 DEF ExistsBijection
<1>6. IsFiniteSet(rows)
  BY DEF Numbered
<1>7. Numbers(rows) \in SUBSET Int
  BY DEF Numbered, Numbers
<1> QED
  BY <1>5, <1>6, <1>7, FS_Bijection, FS_CardinalityType

\* The place of a row among rows.
Place(rows, row) == Rank(Numbers(rows), row.seq)

\* Ordering rows puts each at its place, and there is a row at each place.
LEMMA OrderedRows ==
  ASSUME NEW rows, Numbered(rows)
  PROVE  /\ DOMAIN OpsOf(rows) = 1..Cardinality(rows)
         /\ \A row \in rows : /\ Place(rows, row) \in 1..Cardinality(rows)
                              /\ OpsOf(rows)[Place(rows, row)] = row.op
         /\ \A n \in 1..Cardinality(rows) : \E row \in rows : Place(rows, row) = n
<1> DEFINE S == Numbers(rows)
           at(n) == CHOOSE row \in rows : Place(rows, row) = n
<1>1. /\ S \in SUBSET Int /\ IsFiniteSet(S)
      /\ Cardinality(S) = Cardinality(rows)
  BY NumbersCount
<1>2. \A row \in rows : row.seq \in S
  BY DEF Numbers
<1>3. ASSUME NEW n \in 1..Cardinality(rows)
      PROVE  \E row \in rows : Place(rows, row) = n
  <2>1. PICK i \in S : Rank(S, i) = n
    BY <1>1, RankReached
  <2>2. PICK row \in rows : row.seq = i
    BY DEF Numbers
  <2> QED
    BY <2>1, <2>2 DEF Place
<1>4. ASSUME NEW row \in rows
      PROVE  Place(rows, row) \in 1..Cardinality(rows)
  <2>1. row.seq \in S
    BY <1>2
  <2> HIDE DEF S
  <2>2. Rank(S, row.seq) \in 1..Cardinality(S)
    BY <1>1, <2>1, RankRange
  <2> QED
    BY <1>1, <2>2 DEF S, Place
<1>5. ASSUME NEW row \in rows, NEW other \in rows,
             Place(rows, row) = Place(rows, other)
      PROVE  row = other
  <2>1. row.seq \in S /\ other.seq \in S /\ row.seq \in Int /\ other.seq \in Int
    BY <1>2 DEF Numbered
  <2> HIDE DEF S
  <2>2. Rank(S, row.seq) = Rank(S, other.seq) /\ Rank(S, row.seq) \in Int
    BY <1>1, <1>4, <1>5, <2>1 DEF Place, S
  <2>3. ~(row.seq < other.seq) /\ ~(other.seq < row.seq)
    BY <1>1, <2>1, <2>2, RankGrows
  <2> QED
    BY <2>1, <2>3 DEF Numbered
<1>6. OpsOf(rows) = [n \in 1..Cardinality(rows) |-> at(n).op]
  BY DEF OpsOf, Place, Numbers
<1>7. \A n \in 1..Cardinality(rows) : at(n) \in rows /\ Place(rows, at(n)) = n
  BY <1>3
<1> HIDE DEF at
<1>8. ASSUME NEW row \in rows
      PROVE  OpsOf(rows)[Place(rows, row)] = row.op
  BY <1>4, <1>5, <1>6, <1>7
<1> QED
  BY <1>3, <1>4, <1>6, <1>8

\* Rows with the same numbers and the same operations are the same log.
LEMMA SameLog ==
  ASSUME NEW rows, NEW others, Numbered(rows), Numbered(others),
         \A r \in rows : \E o \in others : o.seq = r.seq /\ o.op = r.op,
         \A o \in others : \E r \in rows : r.seq = o.seq
  PROVE  OpsOf(rows) = OpsOf(others)
<1>1. Numbers(rows) = Numbers(others)
  BY DEF Numbers
<1>2. Cardinality(rows) = Cardinality(others)
  BY <1>1, NumbersCount
<1>3. ASSUME NEW n \in 1..Cardinality(rows)
      PROVE  OpsOf(rows)[n] = OpsOf(others)[n]
  <2>1. PICK r \in rows : Place(rows, r) = n
    BY OrderedRows
  <2>2. PICK o \in others : o.seq = r.seq /\ o.op = r.op
    OBVIOUS
  <2>3. Place(others, o) = n
    BY <1>1, <2>1, <2>2 DEF Place
  <2>4. OpsOf(rows)[n] = r.op
    BY <2>1, OrderedRows
  <2>5. OpsOf(others)[n] = o.op
    BY <2>2, <2>3, OrderedRows
  <2> QED
    BY <2>2, <2>4, <2>5
<1>4. /\ OpsOf(rows) = [n \in 1..Cardinality(rows) |-> OpsOf(rows)[n]]
      /\ OpsOf(others) = [n \in 1..Cardinality(others) |-> OpsOf(others)[n]]
  BY DEF OpsOf
<1> QED
  BY <1>2, <1>3, <1>4

\* Rows behind all others extend their log.
LEMMA LogExtends ==
  ASSUME NEW rows, NEW new, Numbered(rows \cup new),
         \A r \in rows, s \in new : r.seq < s.seq
  PROVE  /\ Numbered(rows)
         /\ Cardinality(rows) <= Cardinality(rows \cup new)
         /\ new \subseteq rows <=> Cardinality(rows) = Cardinality(rows \cup new)
         /\ \A n \in 1..Cardinality(rows) : OpsOf(rows \cup new)[n] = OpsOf(rows)[n]
<1> DEFINE both == rows \cup new
<1>1. rows \in SUBSET both /\ IsFiniteSet(both)
  BY DEF Numbered
<1>2. IsFiniteSet(rows) /\ Cardinality(rows) <= Cardinality(both)
      /\ (Cardinality(both) = Cardinality(rows) => both = rows)
  BY <1>1, FS_Subset
<1>3. Numbered(rows)
  BY <1>2 DEF Numbered
<1>4. ASSUME NEW n \in 1..Cardinality(rows)
      PROVE  OpsOf(both)[n] = OpsOf(rows)[n]
  <2>1. PICK r \in rows : Place(rows, r) = n
    BY <1>3, OrderedRows
  <2>2. {j \in Numbers(both) : j <= r.seq} = {j \in Numbers(rows) : j <= r.seq}
    <3>1. ASSUME NEW s \in both, s.seq <= r.seq
          PROVE  s \in rows
      <4>1. s.seq \in Int /\ r.seq \in Int
        BY DEF Numbered
      <4> QED
        BY <3>1, <4>1
    <3> QED
      BY <3>1 DEF Numbers
  <2>3. Place(both, r) = n
    BY <2>1, <2>2 DEF Place, Rank
  <2>4. r \in both
    OBVIOUS
  <2> HIDE DEF both
  <2>5. OpsOf(both)[n] = r.op /\ OpsOf(rows)[n] = r.op
    BY <1>3, <2>1, <2>3, <2>4, OrderedRows DEF both
  <2> QED
    BY <2>5
<1> QED
  BY <1>2, <1>3, <1>4

=============================================================================
