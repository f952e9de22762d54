-------------------------- MODULE PackHealthProofs --------------------------
(***************************************************************************)
(* The merge of the layers, the reports of health and the upgrade plan,    *)
(* for any manifests, activations, versions and requests.                  *)
(***************************************************************************)
EXTENDS PackHealth, FiniteSetTheorems, WellFoundedInduction, TLAPS

-----------------------------------------------------------------------------
(* Naturals and finite sets.                                               *)

\* A set of naturals that is not empty has a least element.
LEMMA LeastNatural ==
    ASSUME NEW S \in SUBSET Nat, S # {}
    PROVE  \E i \in S : \A j \in S : i <= j
<1> DEFINE Below == {ss \in Nat \X Nat : ss[1] < ss[2]}
<1>1. IsWellFoundedOn(Below, Nat)
  BY NatLessThanWellFounded, Zenon DEF OpToRel
<1>2. PICK i \in S : \A j \in S : <<j, i>> \notin Below
  <2> HIDE DEF Below
  <2> QED
    BY <1>1, WFMin
<1>3. ASSUME NEW j \in S PROVE i <= j
  <2>1. <<j, i>> \in Nat \X Nat /\ <<j, i>> \notin Below
    BY <1>2
  <2>2. ~(<<j, i>>[1] < <<j, i>>[2])
    BY <2>1
  <2> QED
    BY <2>2
<1> QED
  BY <1>3

\* What holds at the start of an interval, and of the next if of one, holds throughout.
LEMMA IntervalInduction ==
    ASSUME NEW a \in Nat, NEW b \in Nat, NEW S \in SUBSET (a .. b),
           a <= b => a \in S,
           \A n \in S : n < b => n + 1 \in S
    PROVE  S = a .. b
<1> SUFFICES ASSUME (a .. b) \ S # {} PROVE FALSE
  OBVIOUS
<1>1. (a .. b) \ S \in SUBSET Nat
  OBVIOUS
<1>2. PICK m \in (a .. b) \ S : \A n \in (a .. b) \ S : m <= n
  BY <1>1, LeastNatural
<1>3. m > a
  BY <1>2
<1>4. m - 1 \in a .. b /\ m - 1 \notin (a .. b) \ S
  BY <1>2, <1>3
<1> QED
  BY <1>2, <1>3, <1>4

\* A finite set that is strictly ordered can be listed in that order.
LEMMA OrderedListing ==
    ASSUME NEW S, IsFiniteSet(S), NEW R,
           \A x \in S : <<x, x>> \notin R,
           \A x, y \in S : x # y => <<x, y>> \in R \/ <<y, x>> \in R,
           \A x, y, z \in S : <<x, y>> \in R /\ <<y, z>> \in R => <<x, z>> \in R
    PROVE  \E f \in [1 .. Cardinality(S) -> S] :
              \A i, j \in 1 .. Cardinality(S) : i < j => <<f[i], f[j]>> \in R
<1> DEFINE N         == Cardinality(S)
           before(x) == {y \in S : <<y, x>> \in R}
           place     == [x \in S |-> Cardinality(before(x)) + 1]
           f         == [k \in 1 .. N |-> CHOOSE x \in S : place[x] = k]
<1>1. N \in Nat
  BY FS_CardinalityType
<1>2. ASSUME NEW x \in S
      PROVE  IsFiniteSet(before(x)) /\ Cardinality(before(x)) \in Nat
  <2>1. before(x) \in SUBSET S
    OBVIOUS
  <2> HIDE DEF before
  <2>2. IsFiniteSet(before(x))
    BY <2>1, FS_Subset
  <2> QED
    BY <2>2, FS_CardinalityType
<1>3. ASSUME NEW x \in S PROVE Cardinality(before(x)) < N
  <2>1. before(x) \in SUBSET S /\ x \notin before(x)
    OBVIOUS
  <2> HIDE DEF before
  <2>2. Cardinality(before(x)) <= N /\ (N = Cardinality(before(x)) => S = before(x))
    BY <2>1, FS_Subset
  <2> QED
    BY <1>1, <1>2, <2>1, <2>2
<1>4. ASSUME NEW x \in S, NEW y \in S, <<x, y>> \in R
      PROVE  Cardinality(before(x)) < Cardinality(before(y))
  <2>1. before(x) \in SUBSET before(y) /\ x \in before(y) /\ x \notin before(x)
    BY <1>4
  <2>2. IsFiniteSet(before(y))
    BY <1>2
  <2>3. Cardinality(before(x)) \in Nat /\ Cardinality(before(y)) \in Nat
    BY <1>2
  <2> HIDE DEF before
  <2>4. /\ Cardinality(before(x)) <= Cardinality(before(y))
        /\ Cardinality(before(y)) = Cardinality(before(x)) => before(y) = before(x)
    BY <2>1, <2>2, FS_Subset
  <2> QED
    BY <2>1, <2>3, <2>4
<1>5. place \in [S -> 1 .. N]
  <2>1. \A x \in S : Cardinality(before(x)) + 1 \in 1 .. N
    <3> HIDE DEF before, N
    <3> QED
      BY <1>1, <1>2, <1>3 DEF N
  <2> HIDE DEF before, N
  <2> QED
    BY <2>1
<1>6. \A x, y \in S : place[x] = place[y] => x = y
  <2> SUFFICES ASSUME NEW x \in S, NEW y \in S, place[x] = place[y], x # y PROVE FALSE
    OBVIOUS
  <2>1. Cardinality(before(x)) = Cardinality(before(y))
    <3>1. Cardinality(before(x)) + 1 = Cardinality(before(y)) + 1
      OBVIOUS
    <3>2. Cardinality(before(x)) \in Nat /\ Cardinality(before(y)) \in Nat
      BY <1>2
    <3> QED
      BY <3>1, <3>2
  <2>2. Cardinality(before(x)) < Cardinality(before(y)) \/ Cardinality(before(y)) < Cardinality(before(x))
    <3>1. <<x, y>> \in R \/ <<y, x>> \in R
      OBVIOUS
    <3> HIDE DEF before
    <3> QED
      BY <1>4, <3>1
  <2>3. Cardinality(before(x)) \in Nat /\ Cardinality(before(y)) \in Nat
    BY <1>2
  <2> QED
    BY <2>1, <2>2, <2>3
<1>7. \A k \in 1 .. N : \E x \in S : place[x] = k
  <2> HIDE DEF place
  <2>1. place \in Injection(S, 1 .. N)
    BY <1>5, <1>6 DEF Injection, IsInjective
  <2>2. IsFiniteSet(1 .. N) /\ Cardinality(1 .. N) = N
    BY <1>1, FS_Interval
  <2>3. place \in Surjection(S, 1 .. N)
    BY <2>1, <2>2, FS_Injection
  <2> QED
    BY <2>3 DEF Surjection
<1>8. \A k \in 1 .. N : f[k] \in S /\ place[f[k]] = k
  <2> HIDE DEF place
  <2> QED
    BY <1>7
<1>9. f \in [1 .. N -> S]
  <2> HIDE DEF place
  <2> QED
    BY <1>8
<1>10. ASSUME NEW i \in 1 .. N, NEW j \in 1 .. N, i < j PROVE <<f[i], f[j]>> \in R
  <2>1. f[i] \in S /\ f[j] \in S /\ place[f[i]] = i /\ place[f[j]] = j
    BY <1>8
  <2> DEFINE x == f[i]
             y == f[j]
  <2> HIDE DEF f
  <2>2. x # y
    BY <1>10, <2>1
  <2>3. ~(Cardinality(before(y)) < Cardinality(before(x)))
    <3>1. Cardinality(before(x)) + 1 = i /\ Cardinality(before(y)) + 1 = j
      BY <2>1
    <3>2. Cardinality(before(x)) \in Nat /\ Cardinality(before(y)) \in Nat
      BY <1>2, <2>1
    <3> HIDE DEF before, x, y
    <3> QED
      BY <1>10, <3>1, <3>2
  <2>4. <<y, x>> \notin R
    BY <1>4, <2>1, <2>3
  <2> QED
    BY <2>1, <2>2, <2>4
<1> QED
  BY <1>9, <1>10

-----------------------------------------------------------------------------
(* sorted().  The key is a relation on positions: B is where one comes     *)
(* before the other by its key.                                            *)

StrictWeakOrder(B, S) ==
    /\ \A x, y \in S : <<x, y>> \in B => <<y, x>> \notin B
    /\ \A x, y, z \in S : <<x, y>> \in B => <<x, z>> \in B \/ <<z, y>> \in B

\* By key, and by position where the keys are equal.
InOrderOf(B, f) ==
    \A i, j \in DOMAIN f : i < j =>
        \/ <<f[i], f[j]>> \in B
        \/ <<f[j], f[i]>> \notin B /\ f[i] < f[j]

StableSorts(B, S) == {f \in [1 .. Cardinality(S) -> S] : InOrderOf(B, f)}

Arranged(seq, order) == [k \in DOMAIN order |-> seq[order[k]]]

\* There is a stable sort of any positions by any key.
LEMMA StableSort ==
    ASSUME NEW S \in SUBSET Nat, IsFiniteSet(S), NEW B, StrictWeakOrder(B, S)
    PROVE  StableSorts(B, S) # {}
<1> DEFINE R == {e \in S \X S : \/ <<e[1], e[2]>> \in B
                                \/ <<e[2], e[1]>> \notin B /\ e[1] < e[2]}
<1>1. \A x, y \in S : <<x, y>> \in R <=> \/ <<x, y>> \in B
                                         \/ <<y, x>> \notin B /\ x < y
  OBVIOUS
<1> HIDE DEF R
<1>2. \A x \in S : <<x, x>> \notin R
  BY <1>1 DEF StrictWeakOrder
<1>3. \A x, y \in S : x # y => <<x, y>> \in R \/ <<y, x>> \in R
  BY <1>1
<1>4. \A x, y, z \in S : <<x, y>> \in R /\ <<y, z>> \in R => <<x, z>> \in R
  <2> SUFFICES ASSUME NEW x \in S, NEW y \in S, NEW z \in S,
                      <<x, y>> \in R, <<y, z>> \in R
               PROVE  <<x, z>> \in R
    OBVIOUS
  <2>1. CASE <<x, z>> \in B
    BY <1>1, <2>1
  <2>2. CASE <<x, z>> \notin B
    <3>1. <<x, y>> \notin B
      <4>1. CASE <<y, z>> \in B
        BY <1>1, <2>2, <4>1 DEF StrictWeakOrder
      <4>2. CASE <<z, y>> \notin B
        BY <2>2, <4>2 DEF StrictWeakOrder
      <4> QED
        BY <1>1, <4>1, <4>2
    <3>2. <<y, x>> \notin B /\ x < y
      BY <1>1, <3>1
    <3>3. <<y, z>> \notin B
      BY <2>2, <3>2 DEF StrictWeakOrder
    <3>4. <<z, y>> \notin B /\ y < z
      BY <1>1, <3>3
    <3>5. <<z, x>> \notin B
      BY <3>2, <3>4 DEF StrictWeakOrder
    <3>6. x < z
      BY <3>2, <3>4
    <3> QED
      BY <1>1, <3>5, <3>6
  <2> QED
    BY <2>1, <2>2
<1>5. PICK f \in [1 .. Cardinality(S) -> S] :
          \A i, j \in 1 .. Cardinality(S) : i < j => <<f[i], f[j]>> \in R
  BY <1>2, <1>3, <1>4, OrderedListing, Zenon
<1>6. InOrderOf(B, f)
  BY <1>1, <1>5 DEF InOrderOf
<1> QED
  BY <1>6 DEF StableSorts

\* What is sorted is neither lost nor repeated.
LEMMA SortedIsAll ==
    ASSUME NEW S \in SUBSET Nat, IsFiniteSet(S), NEW B, StrictWeakOrder(B, S),
           NEW f \in StableSorts(B, S)
    PROVE  /\ \A x \in S : \E i \in 1 .. Cardinality(S) : f[i] = x
           /\ \A i, j \in 1 .. Cardinality(S) : f[i] = f[j] => i = j
<1> DEFINE N == Cardinality(S)
<1>1. N \in Nat
  BY FS_CardinalityType
<1> HIDE DEF N
<1>2. f \in [1 .. N -> S] /\ InOrderOf(B, f)
  BY DEF N, StableSorts
<1>3. ASSUME NEW i \in 1 .. N, NEW j \in 1 .. N, i < j PROVE f[i] # f[j]
  <2>1. f[i] \in S /\ f[j] \in S /\ DOMAIN f = 1 .. N
    BY <1>2
  <2>2. \/ <<f[i], f[j]>> \in B
        \/ <<f[j], f[i]>> \notin B /\ f[i] < f[j]
    BY <1>2, <1>3, <2>1 DEF InOrderOf
  <2>3. f[i] \in Nat /\ f[j] \in Nat
    BY <2>1
  <2> QED
    BY <2>1, <2>2, <2>3 DEF StrictWeakOrder
<1>4. \A i, j \in 1 .. N : f[i] = f[j] => i = j
  BY <1>1, <1>3
<1>5. f \in Injection(1 .. N, S)
  BY <1>2, <1>4 DEF Injection, IsInjective
<1>6. Cardinality(1 .. N) = Cardinality(S)
  BY <1>1, FS_Interval DEF N
<1>7. f \in Surjection(1 .. N, S)
  BY <1>5, <1>6, FS_Injection
<1> QED
  BY <1>4, <1>7 DEF Surjection, N

LEMMA PositionsFinite ==
    ASSUME NEW T, NEW seq \in Seq(T), NEW S \in SUBSET DOMAIN seq
    PROVE  S \in SUBSET Nat /\ IsFiniteSet(S) /\ Cardinality(S) \in Nat
<1>1. DOMAIN seq = 1 .. Len(seq) /\ Len(seq) \in Nat
  OBVIOUS
<1>2. IsFiniteSet(1 .. Len(seq))
  BY <1>1, FS_Interval
<1>3. IsFiniteSet(S)
  BY <1>1, <1>2, FS_Subset
<1> QED
  BY <1>1, <1>3, FS_CardinalityType

\* The sequence that an order of positions makes holds what is at these positions.
LEMMA ArrangedFacts ==
    ASSUME NEW T, NEW seq \in Seq(T), NEW S \in SUBSET DOMAIN seq,
           NEW B, StrictWeakOrder(B, S),
           NEW order \in StableSorts(B, S)
    PROVE  LET out == Arranged(seq, order)
           IN  /\ out \in Seq(T) /\ Len(out) = Cardinality(S)
               /\ \A k \in 1 .. Len(out) : order[k] \in S /\ out[k] = seq[order[k]]
               /\ \A i \in S : \E k \in 1 .. Len(out) : out[k] = seq[i]
<1> DEFINE N   == Cardinality(S)
           out == Arranged(seq, order)
<1>1. S \in SUBSET Nat /\ IsFiniteSet(S) /\ N \in Nat
  BY PositionsFinite
<1>2. \A x \in S : \E i \in 1 .. N : order[i] = x
  BY <1>1, SortedIsAll
<1>3. order \in [1 .. N -> S]
  BY DEF StableSorts
<1> HIDE DEF N
<1>4. out = [k \in 1 .. N |-> seq[order[k]]]
  BY <1>3 DEF Arranged
<1>5. \A k \in 1 .. N : order[k] \in S /\ seq[order[k]] \in T
  <2>1. \A i \in DOMAIN seq : seq[i] \in T
    OBVIOUS
  <2> QED
    BY <1>3, <2>1
<1> HIDE DEF out
<1>6. out \in Seq(T) /\ Len(out) = N
  BY <1>1, <1>4, <1>5
<1>7. \A k \in 1 .. N : out[k] = seq[order[k]]
  BY <1>4
<1>8. \A i \in S : \E k \in 1 .. N : out[k] = seq[i]
  BY <1>2, <1>7
<1> QED
  BY <1>5, <1>6, <1>7, <1>8 DEF N, out

-----------------------------------------------------------------------------
(* Precedence.                                                             *)

LEMMA KeyTypes ==
    ASSUME NEW p \in Provenance
    PROVE  LayerPriority(p.layer) \in Nat /\ NativeScore(p) \in Nat /\ p.source \in Nat
<1>1. p.source \in Nat
  BY LayersAssumption DEF Provenance
<1> QED
  BY <1>1 DEF LayerPriority, NativeScore

\* Precedence is a strict weak order, and only what has one source is left open by it.
LEMMA PrecedesOrders ==
    /\ \A p, q \in Provenance : Precedes(p, q) => ~Precedes(q, p)
    /\ \A p, q, r \in Provenance : Precedes(p, q) => Precedes(p, r) \/ Precedes(r, q)
    /\ \A p, q \in Provenance : ~Precedes(p, q) /\ ~Precedes(q, p) => p.source = q.source
<1>1. \A p \in Provenance :
          LayerPriority(p.layer) \in Nat /\ NativeScore(p) \in Nat /\ p.source \in Nat
  BY KeyTypes
<1> QED
  BY <1>1 DEF Precedes

LEMMA ListedBeforeOrders ==
    /\ \A p, q \in Provenance : ListedBefore(p, q) => ~ListedBefore(q, p)
    /\ \A p, q, r \in Provenance : ListedBefore(p, q) => ListedBefore(p, r) \/ ListedBefore(r, q)
    /\ \A p, q \in Provenance :
          ~ListedBefore(q, p) => LayerPriority(p.layer) >= LayerPriority(q.layer)
<1>1. \A p \in Provenance :
          LayerPriority(p.layer) \in Nat /\ NativeScore(p) \in Nat /\ p.source \in Nat
  BY KeyTypes
<1> QED
  BY <1>1 DEF ListedBefore

\* An activation that is neither before nor after another is the same file.
LEMMA PrecedenceIsUnique ==
    ASSUME NEW c \in Activations, NEW d \in Activations,
           ~Precedes(c.provenance, d.provenance), ~Precedes(d.provenance, c.provenance)
    PROVE  c = d
<1>1. c.provenance \in Provenance /\ d.provenance \in Provenance
  BY HealthAssumption DEF Document
<1>2. c.provenance.source = d.provenance.source
  BY <1>1, PrecedesOrders
<1> QED
  BY <1>2, HealthAssumption

-----------------------------------------------------------------------------
(* The documents of a key, from the lowest to the highest.                 *)

\* Each document of the key is in it, nothing else is, and no later one is preceded by an
\* earlier one.
LEMMA OrderedFacts ==
    ASSUME NEW docs \in Seq(Activations), NEW name, NEW namespace
    PROVE  LET o == Ordered(docs, Variants(docs, name, namespace))
           IN  /\ o \in Seq(Activations)
               /\ Len(o) = Cardinality(Variants(docs, name, namespace))
               /\ {o[k] : k \in 1 .. Len(o)} = Documents(docs, name, namespace)
               /\ \A i, j \in 1 .. Len(o) :
                     i < j => ~Precedes(o[j].provenance, o[i].provenance)
<1> DEFINE S     == Variants(docs, name, namespace)
           B     == {e \in S \X S : Precedes(docs[e[1]].provenance, docs[e[2]].provenance)}
           order == CHOOSE f \in [1 .. Cardinality(S) -> S] :
                      \A i, j \in DOMAIN f : i < j =>
                        \/ Precedes(docs[f[i]].provenance, docs[f[j]].provenance)
                        \/ ~Precedes(docs[f[j]].provenance, docs[f[i]].provenance) /\ f[i] < f[j]
           o     == Ordered(docs, S)
<1>1. S \in SUBSET DOMAIN docs
  BY DEF Variants
<1>2. S \in SUBSET Nat /\ IsFiniteSet(S) /\ Cardinality(S) \in Nat
  BY <1>1, PositionsFinite
<1>3. \A x \in S : docs[x] \in Activations /\ docs[x].provenance \in Provenance
  BY <1>1, HealthAssumption DEF Document
<1>4. o = Arranged(docs, order)
  BY DEF Ordered, Sorted, Arranged
<1>5. \A x \in DOMAIN docs : x \in S <=> docs[x].name = name /\ docs[x].namespace = namespace
  BY DEF Variants
<1>6. Documents(docs, name, namespace) = {docs[i] : i \in S}
  BY DEF Documents
<1> HIDE DEF S, o
<1>7. StrictWeakOrder(B, S)
  <2>1. \A x, y \in S : <<x, y>> \in B <=> Precedes(docs[x].provenance, docs[y].provenance)
    OBVIOUS
  <2> HIDE DEF B
  <2> QED
    BY <1>3, <2>1, PrecedesOrders DEF StrictWeakOrder
<1>8. \A f \in [1 .. Cardinality(S) -> S] :
          InOrderOf(B, f) <=>
            \A i, j \in DOMAIN f : i < j =>
               \/ Precedes(docs[f[i]].provenance, docs[f[j]].provenance)
               \/ ~Precedes(docs[f[j]].provenance, docs[f[i]].provenance) /\ f[i] < f[j]
  BY DEF InOrderOf
<1>9. order \in StableSorts(B, S)
  <2> HIDE DEF B
  <2>1. StableSorts(B, S) # {}
    BY <1>2, <1>7, StableSort
  <2> QED
    BY <1>8, <2>1 DEF StableSorts
<1> HIDE DEF order
<1>10. /\ o \in Seq(Activations) /\ Len(o) = Cardinality(S)
       /\ \A k \in 1 .. Cardinality(S) : order[k] \in S /\ o[k] = docs[order[k]]
       /\ \A i \in S : \E k \in 1 .. Len(o) : o[k] = docs[i]
  <2> HIDE DEF B
  <2> QED
    BY <1>1, <1>4, <1>7, <1>9, ArrangedFacts
<1>11. {o[k] : k \in 1 .. Len(o)} = Documents(docs, name, namespace)
  BY <1>6, <1>10
<1>12. ASSUME NEW i \in 1 .. Len(o), NEW j \in 1 .. Len(o), i < j
       PROVE  ~Precedes(o[j].provenance, o[i].provenance)
  <2>1. order[i] \in S /\ order[j] \in S /\ DOMAIN order = 1 .. Cardinality(S)
    BY <1>9, <1>10 DEF StableSorts
  <2>2. \/ Precedes(docs[order[i]].provenance, docs[order[j]].provenance)
        \/ ~Precedes(docs[order[j]].provenance, docs[order[i]].provenance)
    BY <1>8, <1>9, <1>10, <1>12, <2>1 DEF StableSorts
  <2>3. docs[order[i]].provenance \in Provenance /\ docs[order[j]].provenance \in Provenance
    BY <1>3, <2>1
  <2> QED
    BY <1>10, <2>2, <2>3, PrecedesOrders
<1> QED
  BY <1>10, <1>11, <1>12 DEF S, o

-----------------------------------------------------------------------------
(* Functions defined by recursion on an interval.                          *)

\* What makes the value at n from the one before it, for n up to N.
Makers(N, V) == [(1 .. N) \X V -> V]

\* From b on, each value is made from the one before it.
MadeFrom(N, V, b, g) ==
    {f \in [0 .. N -> V] : f[0] = b /\ \A n \in 1 .. N : f[n] = g[<<n, f[n - 1]>>]}

LEMMA StepsExist ==
    ASSUME NEW N \in Nat, NEW V, NEW b \in V, NEW g \in Makers(N, V)
    PROVE  MadeFrom(N, V, b, g) # {}
<1> DEFINE Steps(f, m) == f[0] = b /\ \A n \in 1 .. m : f[n] = g[<<n, f[n - 1]>>]
           S           == {m \in 0 .. N : \E f \in [0 .. m -> V] : Steps(f, m)}
<1> USE DEF Makers
<1>1. 0 \in S
  <2> DEFINE h == [n \in 0 .. 0 |-> b]
  <2>1. h \in [0 .. 0 -> V] /\ h[0] = b
    OBVIOUS
  <2> HIDE DEF h
  <2>2. \A n \in 1 .. 0 : FALSE
    OBVIOUS
  <2>3. Steps(h, 0)
    BY <2>1, <2>2
  <2> HIDE DEF Steps
  <2> QED
    BY <2>1, <2>3
<1>2. ASSUME NEW m \in S, m < N PROVE m + 1 \in S
  <2>1. m \in Nat /\ m + 1 \in 1 .. N
    BY <1>2
  <2>2. PICK f \in [0 .. m -> V] : Steps(f, m)
    OBVIOUS
  <2> DEFINE h == [n \in 0 .. m + 1 |-> IF n = m + 1 THEN g[<<m + 1, f[m]>>] ELSE f[n]]
  <2>3. f[m] \in V
    BY <2>1
  <2>4. g[<<m + 1, f[m]>>] \in V
    BY <2>1, <2>3
  <2>5. h \in [0 .. m + 1 -> V]
    BY <2>1, <2>4
  <2>6. h[0] = b
    BY <2>1, <2>2
  <2>7. ASSUME NEW n \in 1 .. m + 1 PROVE h[n] = g[<<n, h[n - 1]>>]
    <3>1. n - 1 \in 0 .. m /\ n - 1 # m + 1 /\ h[n - 1] = f[n - 1]
      BY <2>1
    <3>2. CASE n = m + 1
      <4>1. n - 1 = m /\ h[n] = g[<<m + 1, f[m]>>]
        BY <2>1, <3>2
      <4> HIDE DEF h
      <4> QED
        BY <3>1, <3>2, <4>1
    <3>3. CASE n # m + 1
      <4>1. n \in 1 .. m /\ h[n] = f[n]
        BY <2>1, <3>3
      <4>2. f[n] = g[<<n, f[n - 1]>>]
        BY <2>2, <4>1
      <4> HIDE DEF h
      <4> QED
        BY <3>1, <4>1, <4>2
    <3> QED
      BY <3>2, <3>3
  <2> HIDE DEF h
  <2>8. Steps(h, m + 1)
    BY <2>6, <2>7
  <2> HIDE DEF Steps
  <2> QED
    BY <2>1, <2>5, <2>8
<1>3. S = 0 .. N
  <2>1. S \in SUBSET (0 .. N)
    OBVIOUS
  <2> HIDE DEF S
  <2> QED
    BY <1>1, <1>2, <2>1, IntervalInduction
<1>4. N \in S
  BY <1>3
<1> QED
  BY <1>4 DEF MadeFrom

-----------------------------------------------------------------------------
(* The merge of the specs.                                                 *)

LEMMA DeepMergeType ==
    ASSUME NEW base \in SpecLeaves, NEW overlay \in SpecLeaves
    PROVE  DeepMerge(base, overlay) \in SpecLeaves
<1>1. PICK A \in SUBSET SpecPaths : base \in [A -> Values]
  BY DEF SpecLeaves
<1>2. PICK B \in SUBSET SpecPaths : overlay \in [B -> Values]
  BY DEF SpecLeaves
<1> DEFINE left == {p \in DOMAIN base : \A q \in DOMAIN overlay : ~Within(p, q)}
           all  == left \cup DOMAIN overlay
<1>3. all \in SUBSET SpecPaths
  BY <1>1, <1>2
<1>4. DeepMerge(base, overlay) =
          [p \in all |-> IF p \in DOMAIN overlay THEN overlay[p] ELSE base[p]]
  BY DEF DeepMerge
<1>5. \A p \in all : (IF p \in DOMAIN overlay THEN overlay[p] ELSE base[p]) \in Values
  BY <1>1, <1>2
<1> HIDE DEF all
<1>6. DeepMerge(base, overlay) \in [all -> Values]
  BY <1>4, <1>5
<1> QED
  BY <1>3, <1>6 DEF SpecLeaves

\* The specs that the n lowest documents make together.
LEMMA MergedSpecSteps ==
    ASSUME NEW o \in Seq(Activations)
    PROVE  \E f \in [0 .. Len(o) -> SpecLeaves] :
              /\ f[0] = <<>>
              /\ \A n \in 1 .. Len(o) : f[n] = DeepMerge(f[n - 1], o[n].spec)
              /\ MergedSpec(o) = f[Len(o)]
<1> DEFINE N      == Len(o)
           Is(f)  == f = [n \in 0 .. N |->
                            IF n = 0 THEN <<>> ELSE DeepMerge(f[n - 1], o[n].spec)]
           merged == CHOOSE f : Is(f)
           g      == [e \in (1 .. N) \X SpecLeaves |-> DeepMerge(e[2], o[e[1]].spec)]
<1>1. N \in Nat
  OBVIOUS
<1>2. \A n \in 1 .. N : o[n].spec \in SpecLeaves
  BY HealthAssumption DEF Document
<1>3. MergedSpec(o) = merged[N]
  BY DEF MergedSpec
<1> HIDE DEF N
<1>4. <<>> \in SpecLeaves
  <2>1. <<>> \in [{} -> Values]
    OBVIOUS
  <2> QED
    BY <2>1 DEF SpecLeaves
<1>5. g \in Makers(N, SpecLeaves)
  BY <1>2, DeepMergeType DEF Makers
<1>6. \A n \in 1 .. N, v \in SpecLeaves : g[<<n, v>>] = DeepMerge(v, o[n].spec)
  OBVIOUS
<1> HIDE DEF g
<1>7. PICK f \in [0 .. N -> SpecLeaves] :
          f[0] = <<>> /\ \A n \in 1 .. N : f[n] = g[<<n, f[n - 1]>>]
  <2>1. MadeFrom(N, SpecLeaves, <<>>, g) # {}
    BY <1>1, <1>4, <1>5, StepsExist
  <2> QED
    BY <2>1 DEF MadeFrom
<1>8. \A n \in 1 .. N : n - 1 \in 0 .. N /\ n # 0
  BY <1>1
<1>9. \A n \in 1 .. N : f[n] = DeepMerge(f[n - 1], o[n].spec)
  BY <1>6, <1>7, <1>8
<1>10. Is(f)
  <2>1. \A n \in 0 .. N : n = 0 \/ n \in 1 .. N
    BY <1>1
  <2>2. \A n \in 0 .. N : f[n] = IF n = 0 THEN <<>> ELSE DeepMerge(f[n - 1], o[n].spec)
    BY <1>7, <1>9, <2>1
  <2>3. f = [n \in 0 .. N |-> f[n]]
    BY <1>7
  <2> QED
    BY <2>2, <2>3, Zenon
<1>11. Is(merged)
  <2> HIDE DEF Is
  <2> QED
    BY <1>10
<1> HIDE DEF merged
<1>12. merged[0] = <<>> /\ \A n \in 1 .. N : merged[n] = DeepMerge(merged[n - 1], o[n].spec)
  <2>1. 0 \in 0 .. N /\ \A n \in 1 .. N : n \in 0 .. N
    BY <1>1
  <2> QED
    BY <1>8, <1>11, <2>1
<1>13. {n \in 0 .. N : merged[n] \in SpecLeaves} = 0 .. N
  <2> DEFINE T == {n \in 0 .. N : merged[n] \in SpecLeaves}
  <2>1. T \in SUBSET (0 .. N) /\ 0 \in T
    BY <1>1, <1>4, <1>12
  <2>2. ASSUME NEW n \in T, n < N PROVE n + 1 \in T
    <3>1. n + 1 \in 1 .. N /\ (n + 1) - 1 = n
      BY <1>1, <2>2
    <3>2. merged[n + 1] = DeepMerge(merged[n], o[n + 1].spec)
      BY <1>12, <3>1
    <3> QED
      BY <1>2, <3>1, <3>2, DeepMergeType
  <2> HIDE DEF T
  <2>3. T = 0 .. N
    BY <1>1, <2>1, <2>2, IntervalInduction
  <2> QED
    BY <2>3 DEF T
<1>14. merged \in [0 .. N -> SpecLeaves]
  <2>1. \A n \in 0 .. N : merged[n] \in SpecLeaves
    BY <1>13
  <2>2. merged = [n \in 0 .. N |-> merged[n]]
    BY <1>11
  <2> QED
    BY <2>1, <2>2, Zenon
<1> QED
  BY <1>3, <1>12, <1>14 DEF N

\* A set of positions that is not empty has a last one.
LEMMA LastPosition ==
    ASSUME NEW N \in Nat, NEW S \in SUBSET (1 .. N), S # {}
    PROVE  \E i \in S : \A j \in S : j <= i
<1> DEFINE T == {N - i : i \in S}
<1>1. T \in SUBSET Nat /\ T # {}
  <2>1. \A i \in S : N - i \in Nat
    OBVIOUS
  <2>2. PICK i \in S : TRUE
    OBVIOUS
  <2>3. N - i \in T
    BY <2>2
  <2> QED
    BY <2>1, <2>3
<1>2. PICK t \in T : \A u \in T : t <= u
  BY <1>1, LeastNatural
<1>3. PICK i \in S : t = N - i
  OBVIOUS
<1>4. ASSUME NEW j \in S PROVE j <= i
  <2>1. N - j \in T
    OBVIOUS
  <2>2. t <= N - j
    BY <1>2, <2>1
  <2> QED
    BY <1>3, <2>2
<1> QED
  BY <1>4

\* Of any of the documents of a key, the one that no other precedes is the last of them.
LEMMA LastIsHighest ==
    ASSUME NEW docs \in Seq(Activations), NEW name, NEW namespace,
           NEW S \in SUBSET Documents(docs, name, namespace), S # {}
    PROVE  LET o == Ordered(docs, Variants(docs, name, namespace))
           IN  \E last \in 1 .. Len(o) :
                  /\ o[last] \in S
                  /\ \A j \in 1 .. Len(o) : last < j => o[j] \notin S
                  /\ o[last] = CHOOSE d \in S :
                                  \A e \in S : ~Precedes(d.provenance, e.provenance)
<1> DEFINE o == Ordered(docs, Variants(docs, name, namespace))
           N == Len(o)
<1>1. /\ o \in Seq(Activations)
      /\ {o[k] : k \in 1 .. N} = Documents(docs, name, namespace)
      /\ \A i, j \in 1 .. N : i < j => ~Precedes(o[j].provenance, o[i].provenance)
  BY OrderedFacts
<1> HIDE DEF o
<1>2. N \in Nat
  BY <1>1
<1> DEFINE K == {k \in 1 .. N : o[k] \in S}
<1>3. K \in SUBSET (1 .. N) /\ K # {}
  BY <1>1
<1>4. PICK last \in K : \A k \in K : k <= last
  <2> HIDE DEF K, N
  <2> QED
    BY <1>2, <1>3, LastPosition
<1>5. last \in 1 .. N /\ o[last] \in S /\ \A j \in 1 .. N : last < j => o[j] \notin S
  BY <1>2, <1>4
<1>6. \A d \in S : d \in Activations /\ d.provenance \in Provenance
  <2>1. \A k \in 1 .. N : o[k] \in Activations
    BY <1>1
  <2>2. S \subseteq Activations
    BY <1>1, <2>1
  <2> QED
    BY <2>2, HealthAssumption DEF Document
<1>7. ASSUME NEW e \in S PROVE ~Precedes(o[last].provenance, e.provenance)
  <2>1. PICK k \in 1 .. N : e = o[k]
    BY <1>1
  <2>2. k \in K
    BY <2>1
  <2>3. k <= last
    BY <1>4, <2>2
  <2>4. CASE k = last
    BY <1>5, <1>6, <2>1, <2>4, PrecedesOrders
  <2>5. CASE k < last
    BY <1>1, <1>5, <2>1, <2>5
  <2> QED
    BY <1>2, <1>5, <2>3, <2>4, <2>5
<1>8. ASSUME NEW d \in S, \A e \in S : ~Precedes(d.provenance, e.provenance)
      PROVE  d = o[last]
  BY <1>5, <1>6, <1>7, <1>8, PrecedenceIsUnique
<1>9. o[last] = CHOOSE d \in S : \A e \in S : ~Precedes(d.provenance, e.provenance)
  BY <1>5, <1>7, <1>8
<1> QED
  BY <1>5, <1>9 DEF o

-----------------------------------------------------------------------------
(* What the merged spec says of a path.                                    *)

Says(d, path) == \E p \in DOMAIN d.spec : Within(p, path)

\* A document that says something of a path decides it, whatever was there.
LEMMA SayingDecides ==
    ASSUME NEW base \in SpecLeaves, NEW overlay \in SpecLeaves, NEW q,
           \E p \in DOMAIN overlay : Within(p, q)
    PROVE  /\ q \in DOMAIN DeepMerge(base, overlay) <=> q \in DOMAIN overlay
           /\ q \in DOMAIN overlay => DeepMerge(base, overlay)[q] = overlay[q]
<1>1. \A p : Within(p, q) <=> Within(q, p)
  BY DEF Within
<1> QED
  BY <1>1 DEF DeepMerge

\* One that says nothing of it leaves it as it was.
LEMMA SilenceKeeps ==
    ASSUME NEW base \in SpecLeaves, NEW overlay \in SpecLeaves, NEW q,
           ~ \E p \in DOMAIN overlay : Within(p, q)
    PROVE  /\ q \in DOMAIN DeepMerge(base, overlay) <=> q \in DOMAIN base
           /\ q \in DOMAIN base => DeepMerge(base, overlay)[q] = base[q]
<1>1. \A p : Within(p, q) <=> Within(q, p)
  BY DEF Within
<1>2. q \notin DOMAIN overlay
  <2> SUFFICES ASSUME q \in DOMAIN overlay PROVE FALSE
    OBVIOUS
  <2>1. q \in SpecPaths
    BY DEF SpecLeaves
  <2>2. q \in Seq(STRING)
    BY <2>1, LayersAssumption
  <2>3. Within(q, q)
    BY <2>2 DEF Within, IsPrefix
  <2> QED
    BY <2>3
<1> QED
  BY <1>1, <1>2 DEF DeepMerge

\* The last document that says something of a path decides it.
LEMMA LastSayerDecides ==
    ASSUME NEW o \in Seq(Activations), NEW q, NEW last \in 1 .. Len(o),
           Says(o[last], q), \A j \in 1 .. Len(o) : last < j => ~Says(o[j], q)
    PROVE  /\ q \in DOMAIN MergedSpec(o) <=> q \in DOMAIN o[last].spec
           /\ q \in DOMAIN o[last].spec => MergedSpec(o)[q] = o[last].spec[q]
<1> DEFINE N == Len(o)
<1>1. N \in Nat
  OBVIOUS
<1>2. \A n \in 1 .. N : o[n].spec \in SpecLeaves
  BY HealthAssumption DEF Document
<1>3. PICK f \in [0 .. N -> SpecLeaves] :
          /\ \A n \in 1 .. N : f[n] = DeepMerge(f[n - 1], o[n].spec)
          /\ MergedSpec(o) = f[N]
  BY MergedSpecSteps
<1> HIDE DEF N
<1> DEFINE Decided(n) == /\ q \in DOMAIN f[n] <=> q \in DOMAIN o[last].spec
                         /\ q \in DOMAIN o[last].spec => f[n][q] = o[last].spec[q]
           T          == {n \in last .. N : Decided(n)}
<1>4. last \in 1 .. N
  BY DEF N
<1>5. \A n \in 1 .. N : f[n - 1] \in SpecLeaves
  BY <1>1, <1>3
<1>6. last \in T
  <2>1. Decided(last)
    BY <1>2, <1>3, <1>4, <1>5, SayingDecides DEF Says
  <2> HIDE DEF Decided
  <2> QED
    BY <1>1, <1>4, <2>1
<1>7. ASSUME NEW n \in T, n < N PROVE n + 1 \in T
  <2>1. n \in last .. N /\ Decided(n)
    OBVIOUS
  <2> HIDE DEF Decided, T
  <2>2. n + 1 \in 1 .. N /\ (n + 1) - 1 = n /\ last < n + 1
    BY <1>1, <1>4, <1>7, <2>1
  <2>3. ~Says(o[n + 1], q)
    BY <2>2 DEF N
  <2>4. f[n + 1] = DeepMerge(f[n], o[n + 1].spec) /\ f[n] \in SpecLeaves
    BY <1>3, <1>5, <2>2
  <2>5. /\ q \in DOMAIN f[n + 1] <=> q \in DOMAIN f[n]
        /\ q \in DOMAIN f[n] => f[n + 1][q] = f[n][q]
    BY <1>2, <2>2, <2>3, <2>4, SilenceKeeps DEF Says
  <2>6. Decided(n + 1)
    BY <2>1, <2>5 DEF Decided
  <2> QED
    BY <1>1, <1>4, <2>1, <2>2, <2>6 DEF T
<1>8. T = last .. N
  <2>1. T \in SUBSET (last .. N)
    OBVIOUS
  <2> HIDE DEF T
  <2> QED
    BY <1>1, <1>4, <1>6, <1>7, <2>1, IntervalInduction
<1>9. Decided(N)
  <2>1. N \in T
    BY <1>1, <1>4, <1>8
  <2> HIDE DEF Decided
  <2> QED
    BY <2>1
<1> QED
  BY <1>3, <1>9

\* What no document says anything of is not in it.
LEMMA NothingSaid ==
    ASSUME NEW o \in Seq(Activations), NEW q, \A j \in 1 .. Len(o) : ~Says(o[j], q)
    PROVE  q \notin DOMAIN MergedSpec(o)
<1> DEFINE N == Len(o)
<1>1. N \in Nat
  OBVIOUS
<1>2. \A n \in 1 .. N : o[n].spec \in SpecLeaves
  BY HealthAssumption DEF Document
<1>3. PICK f \in [0 .. N -> SpecLeaves] :
          /\ f[0] = <<>>
          /\ \A n \in 1 .. N : f[n] = DeepMerge(f[n - 1], o[n].spec)
          /\ MergedSpec(o) = f[N]
  BY MergedSpecSteps
<1>4. \A n \in 1 .. N : ~Says(o[n], q)
  OBVIOUS
<1> HIDE DEF N
<1> DEFINE T == {n \in 0 .. N : q \notin DOMAIN f[n]}
<1>5. 0 \in T
  <2>1. DOMAIN <<>> = {}
    OBVIOUS
  <2> QED
    BY <1>1, <1>3, <2>1
<1>6. ASSUME NEW n \in T, n < N PROVE n + 1 \in T
  <2>1. n + 1 \in 1 .. N /\ (n + 1) - 1 = n /\ n \in 0 .. N /\ q \notin DOMAIN f[n]
    BY <1>1, <1>6
  <2>2. f[n + 1] = DeepMerge(f[n], o[n + 1].spec) /\ f[n] \in SpecLeaves
    BY <1>3, <2>1
  <2>3. q \notin DOMAIN f[n + 1]
    BY <1>2, <1>4, <2>1, <2>2, SilenceKeeps DEF Says
  <2> QED
    BY <2>1, <2>3
<1>7. T = 0 .. N
  <2>1. T \in SUBSET (0 .. N)
    OBVIOUS
  <2> HIDE DEF T
  <2> QED
    BY <1>1, <1>5, <1>6, <2>1, IntervalInduction
<1>8. N \in T
  BY <1>1, <1>7
<1> QED
  BY <1>3, <1>8

LEMMA MergedSpecType ==
    ASSUME NEW o \in Seq(Activations)
    PROVE  MergedSpec(o) \in SpecLeaves
<1>1. PICK f \in [0 .. Len(o) -> SpecLeaves] : MergedSpec(o) = f[Len(o)]
  BY MergedSpecSteps
<1>2. Len(o) \in 0 .. Len(o)
  OBVIOUS
<1> QED
  BY <1>1, <1>2

\* A path is in the merged spec if the document with the last word on it has it, with the
\* value it has there.
LEMMA LastWordDecides ==
    ASSUME NEW docs \in Seq(Activations), NEW name, NEW namespace, NEW q
    PROVE  LET merged == MergedDocument(docs, name, namespace).spec
               saying == Saying(docs, name, namespace, q)
               last   == LastWord(docs, name, namespace, q)
           IN  /\ saying = {} => q \notin DOMAIN merged
               /\ saying # {} => /\ last \in saying
                                 /\ q \in DOMAIN merged <=> q \in DOMAIN last.spec
                                 /\ q \in DOMAIN last.spec => merged[q] = last.spec[q]
<1> DEFINE o      == Ordered(docs, Variants(docs, name, namespace))
           saying == Saying(docs, name, namespace, q)
           last   == LastWord(docs, name, namespace, q)
<1>1. /\ o \in Seq(Activations)
      /\ {o[k] : k \in 1 .. Len(o)} = Documents(docs, name, namespace)
  BY OrderedFacts
<1>2. MergedDocument(docs, name, namespace).spec = MergedSpec(o)
  BY DEF MergedDocument
<1>3. /\ saying \in SUBSET Documents(docs, name, namespace)
      /\ \A d \in Documents(docs, name, namespace) : d \in saying <=> Says(d, q)
  BY DEF Saying, Says
<1>4. last = CHOOSE d \in saying : \A e \in saying : ~Precedes(d.provenance, e.provenance)
  BY DEF LastWord
<1>5. CASE saying = {}
  <2> HIDE DEF o, saying, last
  <2>1. \A j \in 1 .. Len(o) : ~Says(o[j], q)
    BY <1>1, <1>3, <1>5
  <2>2. q \notin DOMAIN MergedSpec(o)
    BY <1>1, <2>1, NothingSaid
  <2> QED
    BY <1>2, <1>5, <2>2 DEF saying
<1>6. CASE saying # {}
  <2>1. PICK k \in 1 .. Len(o) : /\ o[k] \in saying
                                 /\ \A j \in 1 .. Len(o) : k < j => o[j] \notin saying
                                 /\ o[k] = last
    <3> HIDE DEF saying, last
    <3>1. \E k \in 1 .. Len(o) :
            /\ o[k] \in saying
            /\ \A j \in 1 .. Len(o) : k < j => o[j] \notin saying
            /\ o[k] = CHOOSE d \in saying :
                        \A e \in saying : ~Precedes(d.provenance, e.provenance)
      BY <1>3, <1>6, LastIsHighest
    <3> HIDE DEF o
    <3> QED
      BY <1>4, <3>1
  <2> HIDE DEF o, saying, last
  <2>2. Says(o[k], q) /\ \A j \in 1 .. Len(o) : k < j => ~Says(o[j], q)
    BY <1>1, <1>3, <2>1
  <2>3. /\ q \in DOMAIN MergedSpec(o) <=> q \in DOMAIN o[k].spec
        /\ q \in DOMAIN o[k].spec => MergedSpec(o)[q] = o[k].spec[q]
    BY <1>1, <2>2, LastSayerDecides
  <2> QED
    BY <1>2, <1>6, <2>1, <2>3 DEF saying, last
<1> QED
  BY <1>5, <1>6

-----------------------------------------------------------------------------
(* The merge of the compatibilities.                                       *)

LEMMA OverlayType ==
    ASSUME NEW below \in Compatibility, NEW above \in Compatibility
    PROVE  OverlayCompatibility(below, above) \in Compatibility
BY DEF Compatibility, OverlayCompatibility, Or

LEMMA MergedCompatibilitySteps ==
    ASSUME NEW o \in Seq(Activations), Len(o) > 0
    PROVE  \E f \in [1 .. Len(o) -> Compatibility] :
              /\ f[1] = o[1].compatibility
              /\ \A n \in 2 .. Len(o) :
                    f[n] = OverlayCompatibility(f[n - 1], o[n].compatibility)
              /\ MergedCompatibility(o) = f[Len(o)]
<1> DEFINE N      == Len(o)
           Is(f)  == f = [n \in 1 .. N |->
                            IF n = 1 THEN o[1].compatibility
                            ELSE OverlayCompatibility(f[n - 1], o[n].compatibility)]
           merged == CHOOSE f : Is(f)
           g      == [e \in (1 .. N - 1) \X Compatibility |->
                        OverlayCompatibility(e[2], o[e[1] + 1].compatibility)]
<1>1. N \in Nat /\ N > 0 /\ N - 1 \in Nat
  OBVIOUS
<1>2. \A n \in 1 .. N : o[n].compatibility \in Compatibility
  BY HealthAssumption DEF Document
<1>3. MergedCompatibility(o) = merged[N]
  BY DEF MergedCompatibility
<1> HIDE DEF N
<1>4. 1 \in 1 .. N /\ N \in 1 .. N
  BY <1>1
<1>5. g \in Makers(N - 1, Compatibility)
  <2>1. \A n \in 1 .. N - 1 : n + 1 \in 1 .. N
    BY <1>1
  <2> QED
    BY <1>2, <2>1, OverlayType DEF Makers
<1>6. \A n \in 1 .. N - 1, v \in Compatibility :
          g[<<n, v>>] = OverlayCompatibility(v, o[n + 1].compatibility)
  OBVIOUS
<1> HIDE DEF g
<1>7. PICK h \in [0 .. N - 1 -> Compatibility] :
          h[0] = o[1].compatibility /\ \A n \in 1 .. N - 1 : h[n] = g[<<n, h[n - 1]>>]
  <2> DEFINE b == o[1].compatibility
  <2>1. b \in Compatibility
    BY <1>2, <1>4
  <2> HIDE DEF b
  <2>2. MadeFrom(N - 1, Compatibility, b, g) # {}
    BY <1>1, <1>5, <2>1, StepsExist
  <2> QED
    BY <2>2 DEF MadeFrom, b
<1> DEFINE f == [n \in 1 .. N |-> h[n - 1]]
<1>8. f \in [1 .. N -> Compatibility] /\ f[1] = o[1].compatibility
  <2>1. \A n \in 1 .. N : n - 1 \in 0 .. N - 1
    BY <1>1
  <2> QED
    BY <1>4, <1>7, <2>1
<1>9. ASSUME NEW n \in 2 .. N
      PROVE  f[n] = OverlayCompatibility(f[n - 1], o[n].compatibility)
  <2>1. n \in 1 .. N /\ n - 1 \in 1 .. N /\ n - 1 \in 1 .. N - 1 /\ (n - 1) + 1 = n
        /\ (n - 1) - 1 \in 0 .. N - 1
    BY <1>1
  <2>2. f[n] = h[n - 1] /\ f[n - 1] = h[(n - 1) - 1]
    BY <2>1
  <2> HIDE DEF f
  <2>3. h[n - 1] = g[<<n - 1, h[(n - 1) - 1]>>] /\ h[(n - 1) - 1] \in Compatibility
    BY <1>7, <2>1
  <2>4. g[<<n - 1, h[(n - 1) - 1]>>] =
            OverlayCompatibility(h[(n - 1) - 1], o[(n - 1) + 1].compatibility)
    BY <1>6, <2>1, <2>3
  <2> QED
    BY <2>1, <2>2, <2>3, <2>4
<1>10. \A n \in 1 .. N : n = 1 \/ n \in 2 .. N
  BY <1>1
<1>11. \A n \in 2 .. N : n \in 1 .. N /\ n # 1
  BY <1>1
<1> HIDE DEF f
<1>12. Is(f)
  <2>1. \A n \in 1 .. N : f[n] = IF n = 1 THEN o[1].compatibility
                               ELSE OverlayCompatibility(f[n - 1], o[n].compatibility)
    BY <1>8, <1>9, <1>10
  <2>2. f = [n \in 1 .. N |-> f[n]]
    BY <1>8
  <2> QED
    BY <2>1, <2>2, Zenon
<1>13. Is(merged)
  <2> HIDE DEF Is
  <2> QED
    BY <1>12
<1> HIDE DEF merged
<1>14. /\ merged[1] = o[1].compatibility
       /\ \A n \in 2 .. N : merged[n] = OverlayCompatibility(merged[n - 1], o[n].compatibility)
  BY <1>4, <1>11, <1>13
<1>15. \A n \in 1 .. N : merged[n] \in Compatibility
  <2> DEFINE T == {n \in 1 .. N : merged[n] \in Compatibility}
  <2>1. T \in SUBSET (1 .. N) /\ 1 \in T
    BY <1>2, <1>4, <1>14
  <2>2. ASSUME NEW n \in T, n < N PROVE n + 1 \in T
    <3>1. n + 1 \in 2 .. N /\ (n + 1) - 1 = n /\ n + 1 \in 1 .. N
      BY <1>1, <2>2
    <3>2. merged[n + 1] = OverlayCompatibility(merged[n], o[n + 1].compatibility)
      BY <1>14, <3>1
    <3> QED
      BY <1>2, <3>1, <3>2, OverlayType
  <2> HIDE DEF T
  <2>3. T = 1 .. N
    BY <1>1, <2>1, <2>2, IntervalInduction
  <2> QED
    BY <2>3 DEF T
<1>16. merged \in [1 .. N -> Compatibility]
  <2>1. merged = [n \in 1 .. N |-> merged[n]]
    BY <1>13
  <2> QED
    BY <1>15, <2>1, Zenon
<1> QED
  BY <1>3, <1>14, <1>16 DEF N

\* The stability that is merged is that of the last document that says anything.
LEMMA LastStabilityCounts ==
    ASSUME NEW o \in Seq(Activations), Len(o) > 0
    PROVE  /\ (\A j \in 1 .. Len(o) : Silent(o[j].compatibility))
                 => MergedCompatibility(o).stability = "experimental"
           /\ \A last \in 1 .. Len(o) :
                 /\ ~Silent(o[last].compatibility)
                 /\ \A j \in 1 .. Len(o) : last < j => Silent(o[j].compatibility)
                 => MergedCompatibility(o).stability = o[last].compatibility.stability
<1> DEFINE N    == Len(o)
           c(n) == o[n].compatibility
<1>1. N \in Nat /\ N > 0
  OBVIOUS
<1>2. PICK f \in [1 .. N -> Compatibility] :
          /\ f[1] = c(1)
          /\ \A n \in 2 .. N : f[n] = OverlayCompatibility(f[n - 1], c(n))
          /\ MergedCompatibility(o) = f[N]
  BY MergedCompatibilitySteps
<1> HIDE DEF N, c
<1>3. ASSUME NEW n \in 1 .. N, n < N
      PROVE  /\ n + 1 \in 1 .. N
             /\ f[n + 1].stability = IF Silent(c(n + 1)) THEN f[n].stability
                                     ELSE c(n + 1).stability
  <2>1. n + 1 \in 2 .. N /\ (n + 1) - 1 = n /\ n + 1 \in 1 .. N
    BY <1>1, <1>3
  <2>2. f[n + 1] = OverlayCompatibility(f[n], c(n + 1))
    BY <1>2, <2>1
  <2> QED
    BY <2>1, <2>2 DEF OverlayCompatibility
<1>4. ASSUME NEW first \in 1 .. N, NEW s, f[first].stability = s,
             \A j \in 1 .. N : first < j => Silent(c(j))
      PROVE  f[N].stability = s
  <2> DEFINE T == {n \in first .. N : f[n].stability = s}
  <2>1. T \in SUBSET (first .. N) /\ first \in T
    BY <1>1, <1>4
  <2>2. ASSUME NEW n \in T, n < N PROVE n + 1 \in T
    <3>1. n \in 1 .. N /\ first < n + 1 /\ n + 1 \in first .. N
      BY <1>1, <2>2
    <3>2. f[n + 1].stability = f[n].stability
      BY <1>3, <1>4, <2>2, <3>1
    <3> QED
      BY <3>1, <3>2
  <2> HIDE DEF T
  <2>3. T = first .. N
    <3>1. first \in Nat /\ N \in Nat /\ T \in SUBSET (first .. N)
      BY <1>1, <2>1
    <3>2. \A n \in T : n < N => n + 1 \in T
      BY <2>2
    <3> QED
      BY <2>1, <3>1, <3>2, IntervalInduction
  <2>4. N \in first .. N
    BY <1>1
  <2> QED
    BY <2>3, <2>4 DEF T
<1>5. ASSUME \A j \in 1 .. N : Silent(c(j))
      PROVE  f[N].stability = "experimental"
  <2>1. 1 \in 1 .. N
    BY <1>1
  <2>2. f[1].stability = "experimental"
    BY <1>2, <1>5, <2>1 DEF Silent
  <2> QED
    BY <1>4, <1>5, <2>1, <2>2
<1>6. ASSUME NEW last \in 1 .. N, ~Silent(c(last)),
             \A j \in 1 .. N : last < j => Silent(c(j))
      PROVE  f[N].stability = c(last).stability
  <2>1. f[last].stability = c(last).stability
    <3>1. CASE last = 1
      BY <1>2, <3>1
    <3>2. CASE last # 1
      <4>1. last - 1 \in 1 .. N /\ last - 1 < N /\ (last - 1) + 1 = last
        BY <1>1, <3>2
      <4> QED
        BY <1>3, <1>6, <4>1
    <3> QED
      BY <3>1, <3>2
  <2> QED
    BY <1>4, <1>6, <2>1
<1>7. MergedCompatibility(o) = f[N]
  BY <1>2
<1> HIDE DEF N
<1> QED
  BY <1>5, <1>6, <1>7 DEF N, c

-----------------------------------------------------------------------------
(* The provenance.                                                         *)

LEMMA WithoutFacts ==
    ASSUME NEW T, NEW seq \in Seq(T), NEW x
    PROVE  LET rest == Without(seq, x)
           IN  /\ rest \in Seq(T)
               /\ \A k \in 1 .. Len(rest) : rest[k] # x /\ \E i \in DOMAIN seq : rest[k] = seq[i]
               /\ \A i \in DOMAIN seq : seq[i] # x => \E k \in 1 .. Len(rest) : rest[k] = seq[i]
               /\ \A i, j \in 1 .. Len(rest) : i < j =>
                     \E k, l \in DOMAIN seq : k < l /\ rest[i] = seq[k] /\ rest[j] = seq[l]
<1> DEFINE S     == {i \in DOMAIN seq : seq[i] # x}
           order == CHOOSE f \in [1 .. Cardinality(S) -> S] :
                      \A i, j \in DOMAIN f : i < j => FALSE \/ (~FALSE /\ f[i] < f[j])
           rest  == Without(seq, x)
<1>1. S \in SUBSET DOMAIN seq
  OBVIOUS
<1>2. S \in SUBSET Nat /\ IsFiniteSet(S) /\ Cardinality(S) \in Nat
  BY <1>1, PositionsFinite
<1>3. rest = Arranged(seq, order)
  BY DEF Without, Sorted, Arranged
<1>4. \A i \in DOMAIN seq : i \in S <=> seq[i] # x
  OBVIOUS
<1> HIDE DEF S, rest
<1>5. StrictWeakOrder({}, S)
  BY DEF StrictWeakOrder
<1>6. \A f \in [1 .. Cardinality(S) -> S] :
          InOrderOf({}, f) <=> \A i, j \in DOMAIN f : i < j => FALSE \/ (~FALSE /\ f[i] < f[j])
  BY DEF InOrderOf
<1>7. order \in StableSorts({}, S)
  <2>1. StableSorts({}, S) # {}
    BY <1>2, <1>5, StableSort
  <2> QED
    BY <1>6, <2>1 DEF StableSorts
<1> HIDE DEF order
<1>8. /\ rest \in Seq(T) /\ Len(rest) = Cardinality(S)
      /\ \A k \in 1 .. Len(rest) : order[k] \in S /\ rest[k] = seq[order[k]]
      /\ \A i \in S : \E k \in 1 .. Len(rest) : rest[k] = seq[i]
  <2> DEFINE out == Arranged(seq, order)
  <2>1. /\ out \in Seq(T) /\ Len(out) = Cardinality(S)
        /\ \A k \in 1 .. Len(out) : order[k] \in S /\ out[k] = seq[order[k]]
        /\ \A i \in S : \E k \in 1 .. Len(out) : out[k] = seq[i]
    BY <1>1, <1>5, <1>7, ArrangedFacts
  <2>2. rest = out
    BY <1>3
  <2> HIDE DEF out
  <2> QED
    BY <2>1, <2>2
<1>9. ASSUME NEW i \in 1 .. Len(rest), NEW j \in 1 .. Len(rest), i < j
      PROVE  \E k, l \in DOMAIN seq : k < l /\ rest[i] = seq[k] /\ rest[j] = seq[l]
  <2>1. order[i] < order[j]
    BY <1>7, <1>8, <1>9 DEF StableSorts, InOrderOf
  <2> QED
    BY <1>1, <1>8, <2>1
<1>10. \A k \in 1 .. Len(rest) : rest[k] # x /\ \E i \in DOMAIN seq : rest[k] = seq[i]
  BY <1>1, <1>4, <1>8
<1>11. \A i \in DOMAIN seq : seq[i] # x => \E k \in 1 .. Len(rest) : rest[k] = seq[i]
  BY <1>4, <1>8
<1> QED
  BY <1>8, <1>9, <1>10, <1>11 DEF rest

\* Sorted for the list, each entry is in it, from the highest layer to the lowest.
LEMMA ListedFacts ==
    ASSUME NEW seq \in Seq(Provenance)
    PROVE  LET listed == Sorted(seq, DOMAIN seq, ListedBefore)
           IN  /\ listed \in Seq(Provenance)
               /\ \A k \in 1 .. Len(listed) : \E i \in DOMAIN seq : listed[k] = seq[i]
               /\ \A i \in DOMAIN seq : \E k \in 1 .. Len(listed) : listed[k] = seq[i]
               /\ \A i, j \in 1 .. Len(listed) : i < j =>
                     LayerPriority(listed[i].layer) >= LayerPriority(listed[j].layer)
<1> DEFINE S      == DOMAIN seq
           B      == {e \in S \X S : ListedBefore(seq[e[1]], seq[e[2]])}
           order  == CHOOSE f \in [1 .. Cardinality(S) -> S] :
                       \A i, j \in DOMAIN f : i < j =>
                         \/ ListedBefore(seq[f[i]], seq[f[j]])
                         \/ ~ListedBefore(seq[f[j]], seq[f[i]]) /\ f[i] < f[j]
           listed == Sorted(seq, S, ListedBefore)
<1>1. S \in SUBSET DOMAIN seq
  OBVIOUS
<1>2. S \in SUBSET Nat /\ IsFiniteSet(S) /\ Cardinality(S) \in Nat
  BY <1>1, PositionsFinite
<1>3. \A x \in S : seq[x] \in Provenance
  OBVIOUS
<1>4. listed = Arranged(seq, order)
  BY DEF Sorted, Arranged
<1> HIDE DEF S, listed
<1>5. StrictWeakOrder(B, S)
  <2>1. \A x, y \in S : <<x, y>> \in B <=> ListedBefore(seq[x], seq[y])
    OBVIOUS
  <2> HIDE DEF B
  <2> QED
    BY <1>3, <2>1, ListedBeforeOrders DEF StrictWeakOrder
<1>6. \A f \in [1 .. Cardinality(S) -> S] :
          InOrderOf(B, f) <=>
            \A i, j \in DOMAIN f : i < j =>
               \/ ListedBefore(seq[f[i]], seq[f[j]])
               \/ ~ListedBefore(seq[f[j]], seq[f[i]]) /\ f[i] < f[j]
  BY DEF InOrderOf
<1>7. order \in StableSorts(B, S)
  <2> HIDE DEF B
  <2>1. StableSorts(B, S) # {}
    BY <1>2, <1>5, StableSort
  <2> QED
    BY <1>6, <2>1 DEF StableSorts
<1> HIDE DEF order
<1>8. /\ listed \in Seq(Provenance) /\ Len(listed) = Cardinality(S)
      /\ \A k \in 1 .. Len(listed) : order[k] \in S /\ listed[k] = seq[order[k]]
      /\ \A i \in S : \E k \in 1 .. Len(listed) : listed[k] = seq[i]
  <2> HIDE DEF B
  <2> QED
    BY <1>1, <1>4, <1>5, <1>7, ArrangedFacts
<1>9. ASSUME NEW i \in 1 .. Len(listed), NEW j \in 1 .. Len(listed), i < j
      PROVE  LayerPriority(listed[i].layer) >= LayerPriority(listed[j].layer)
  <2>1. \/ ListedBefore(seq[order[i]], seq[order[j]])
        \/ ~ListedBefore(seq[order[j]], seq[order[i]])
    BY <1>6, <1>7, <1>8, <1>9 DEF StableSorts
  <2>2. listed[i] \in Provenance /\ listed[j] \in Provenance
    BY <1>8
  <2>3. ~ListedBefore(listed[j], listed[i])
    BY <1>8, <2>1, <2>2, ListedBeforeOrders
  <2> QED
    BY <2>2, <2>3, ListedBeforeOrders
<1>10. /\ \A k \in 1 .. Len(listed) : \E i \in S : listed[k] = seq[i]
       /\ \A i \in S : \E k \in 1 .. Len(listed) : listed[k] = seq[i]
  BY <1>8
<1> QED
  BY <1>8, <1>9, <1>10 DEF S, listed

LEMMA ProvenanceOfMerge ==
    ASSUME NEW docs \in Seq(Activations), NEW name, NEW namespace,
           Documents(docs, name, namespace) # {}
    PROVE  LET provenance == MergedDocument(docs, name, namespace).provenance
               made       == {d.provenance : d \in Documents(docs, name, namespace)}
           IN  /\ ToSet(provenance) = made
               /\ \A p \in made : ~Precedes(provenance[1], p)
               /\ \A i, j \in DOMAIN provenance : i < j =>
                     LayerPriority(provenance[i].layer) >= LayerPriority(provenance[j].layer)
<1> DEFINE o      == Ordered(docs, Variants(docs, name, namespace))
           N      == Len(o)
           made   == {d.provenance : d \in Documents(docs, name, namespace)}
           seq    == [i \in DOMAIN o |-> o[i].provenance]
           listed == Sorted(seq, DOMAIN seq, ListedBefore)
           winner == Last(seq)
           rest   == Without(listed, winner)
           all    == <<winner>> \o rest
<1>1. /\ o \in Seq(Activations)
      /\ {o[k] : k \in 1 .. N} = Documents(docs, name, namespace)
      /\ \A i, j \in 1 .. N : i < j => ~Precedes(o[j].provenance, o[i].provenance)
  BY OrderedFacts
<1>2. MergedDocument(docs, name, namespace).provenance = all
  BY DEF MergedDocument, OrderedProvenance
<1> HIDE DEF o
<1>3. N \in Nat /\ N > 0 /\ DOMAIN o = 1 .. N
  BY <1>1
<1>4. \A k \in 1 .. N : o[k].provenance \in Provenance
  BY <1>1, HealthAssumption DEF Document
<1> HIDE DEF N
<1>5. seq = [k \in 1 .. N |-> o[k].provenance]
  BY <1>3
<1> HIDE DEF seq
<1>6. /\ seq \in Seq(Provenance) /\ Len(seq) = N /\ DOMAIN seq = 1 .. N
      /\ \A k \in 1 .. N : seq[k] = o[k].provenance
  BY <1>3, <1>4, <1>5
<1>7. /\ listed \in Seq(Provenance)
      /\ \A k \in 1 .. Len(listed) : \E i \in 1 .. N : listed[k] = seq[i]
      /\ \A i \in 1 .. N : \E k \in 1 .. Len(listed) : listed[k] = seq[i]
      /\ \A i, j \in 1 .. Len(listed) : i < j =>
            LayerPriority(listed[i].layer) >= LayerPriority(listed[j].layer)
  <2>1. /\ listed \in Seq(Provenance)
        /\ \A k \in 1 .. Len(listed) : \E i \in DOMAIN seq : listed[k] = seq[i]
        /\ \A i \in DOMAIN seq : \E k \in 1 .. Len(listed) : listed[k] = seq[i]
        /\ \A i, j \in 1 .. Len(listed) : i < j =>
              LayerPriority(listed[i].layer) >= LayerPriority(listed[j].layer)
    BY <1>6, ListedFacts
  <2> HIDE DEF listed
  <2> QED
    BY <1>6, <2>1
<1>8. winner = seq[N] /\ winner \in Provenance
  BY <1>3, <1>6 DEF Last
<1> HIDE DEF listed, winner
<1>9. /\ rest \in Seq(Provenance)
      /\ \A k \in 1 .. Len(rest) :
            rest[k] # winner /\ \E i \in DOMAIN listed : rest[k] = listed[i]
      /\ \A i \in DOMAIN listed :
            listed[i] # winner => \E k \in 1 .. Len(rest) : rest[k] = listed[i]
      /\ \A i, j \in 1 .. Len(rest) : i < j =>
            \E k, l \in DOMAIN listed : k < l /\ rest[i] = listed[k] /\ rest[j] = listed[l]
  BY <1>7, WithoutFacts
<1> HIDE DEF rest
<1>10. /\ \A k \in 1 .. N : seq[k] \in made
       /\ \A p \in made : \E k \in 1 .. N : p = seq[k]
  <2>1. \A k \in 1 .. N : o[k] \in Documents(docs, name, namespace)
    BY <1>1
  <2>2. \A d \in Documents(docs, name, namespace) : \E k \in 1 .. N : d = o[k]
    BY <1>1
  <2> QED
    BY <1>6, <2>1, <2>2
<1>11. /\ winner \in made
       /\ \A k \in 1 .. Len(rest) : rest[k] \in made
       /\ \A p \in made : p # winner => \E k \in 1 .. Len(rest) : rest[k] = p
  <2>1. DOMAIN listed = 1 .. Len(listed)
    BY <1>7
  <2>2. winner \in made
    BY <1>3, <1>8, <1>10
  <2>3. ASSUME NEW k \in 1 .. Len(rest) PROVE rest[k] \in made
    <3>1. PICK j \in 1 .. Len(listed) : rest[k] = listed[j]
      BY <1>9, <2>1
    <3>2. PICK i \in 1 .. N : listed[j] = seq[i]
      BY <1>7
    <3> QED
      BY <1>10, <3>1, <3>2
  <2>4. ASSUME NEW p \in made, p # winner PROVE \E k \in 1 .. Len(rest) : rest[k] = p
    <3>1. PICK i \in 1 .. N : p = seq[i]
      BY <1>10
    <3>2. PICK j \in 1 .. Len(listed) : listed[j] = p
      BY <1>7, <3>1
    <3> QED
      BY <1>9, <2>1, <2>4, <3>2
  <2> QED
    BY <2>2, <2>3, <2>4
<1> HIDE DEF made
<1>12. /\ DOMAIN all = 1 .. (1 + Len(rest)) /\ all[1] = winner /\ Len(rest) \in Nat
       /\ \A i \in 2 .. (1 + Len(rest)) : i - 1 \in 1 .. Len(rest) /\ all[i] = rest[i - 1]
  BY <1>8, <1>9
<1> HIDE DEF all
<1>13. ToSet(all) = made
  <2>1. \A i \in DOMAIN all : all[i] \in made
    BY <1>11, <1>12
  <2>2. ASSUME NEW p \in made PROVE \E i \in DOMAIN all : all[i] = p
    <3>1. CASE p = winner
      BY <1>12, <3>1
    <3>2. CASE p # winner
      <4>1. PICK k \in 1 .. Len(rest) : p = rest[k]
        BY <1>11, <3>2
      <4>2. k + 1 \in 2 .. (1 + Len(rest)) /\ (k + 1) - 1 = k /\ k + 1 \in DOMAIN all
        BY <1>12, <4>1
      <4> QED
        BY <1>12, <4>1, <4>2
    <3> QED
      BY <3>1, <3>2
  <2> QED
    BY <2>1, <2>2 DEF ToSet
<1>14. ASSUME NEW p \in made PROVE p \in Provenance /\ ~Precedes(winner, p)
  <2>1. PICK k \in 1 .. N : p = o[k].provenance
    BY <1>6, <1>10
  <2>2. N \in 1 .. N /\ winner = o[N].provenance
    BY <1>3, <1>6, <1>8
  <2>3. CASE k = N
    BY <1>4, <2>1, <2>2, <2>3, PrecedesOrders
  <2>4. CASE k < N
    <3>1. ~Precedes(o[N].provenance, o[k].provenance)
      BY <1>1, <2>1, <2>2, <2>4
    <3> QED
      BY <1>4, <2>1, <2>2, <3>1
  <2> QED
    BY <1>3, <1>4, <2>1, <2>3, <2>4
<1>15. ASSUME NEW i \in DOMAIN all, NEW j \in DOMAIN all, i < j
       PROVE  LayerPriority(all[i].layer) >= LayerPriority(all[j].layer)
  <2>1. j \in 2 .. (1 + Len(rest)) /\ j - 1 \in 1 .. Len(rest) /\ all[j] = rest[j - 1]
    BY <1>12, <1>15
  <2>2. CASE i = 1
    <3>1. all[i] = winner /\ all[j] \in made
      BY <1>11, <1>12, <2>1, <2>2
    <3>2. all[j] \in Provenance /\ ~Precedes(winner, all[j])
      BY <1>14, <3>1
    <3>3. LayerPriority(winner.layer) \in Nat /\ LayerPriority(all[j].layer) \in Nat
      BY <1>8, <3>2, KeyTypes
    <3> QED
      BY <3>1, <3>2, <3>3 DEF Precedes
  <2>3. CASE i # 1
    <3>1. i \in 2 .. (1 + Len(rest)) /\ i - 1 \in 1 .. Len(rest) /\ i - 1 < j - 1
      BY <1>12, <1>15, <2>3
    <3>2. all[i] = rest[i - 1]
      BY <1>12, <3>1
    <3>3. PICK k \in DOMAIN listed, l \in DOMAIN listed :
            k < l /\ rest[i - 1] = listed[k] /\ rest[j - 1] = listed[l]
      BY <1>9, <2>1, <3>1
    <3>4. k \in 1 .. Len(listed) /\ l \in 1 .. Len(listed)
      BY <1>7
    <3> QED
      BY <1>7, <2>1, <3>2, <3>3, <3>4
  <2> QED
    BY <2>2, <2>3
<1> QED
  BY <1>2, <1>12, <1>13, <1>14, <1>15 DEF made

-----------------------------------------------------------------------------
(* The document that get_resource returns.                                 *)

LEMMA FoundHasDocuments ==
    ASSUME NEW docs \in Seq(Activations), NEW name, NEW namespace
    PROVE  Found(docs, name, namespace) <=> Documents(docs, name, namespace) # {}
<1>1. ASSUME Found(docs, name, namespace)
      PROVE  Documents(docs, name, namespace) # {}
  <2>1. PICK i \in DOMAIN docs : docs[i].name = name /\ docs[i].namespace = namespace
    BY <1>1 DEF Found, Keys
  <2> QED
    BY <2>1 DEF Documents, Variants
<1>2. ASSUME Documents(docs, name, namespace) # {}
      PROVE  Found(docs, name, namespace)
  <2>1. PICK i \in DOMAIN docs : docs[i].name = name /\ docs[i].namespace = namespace
    BY <1>2 DEF Documents, Variants
  <2> QED
    BY <2>1 DEF Found, Keys
<1> QED
  BY <1>1, <1>2

\* Each leaf is that of the document with the last word on it.
LEMMA LayersOfMerge ==
    ASSUME NEW docs \in Seq(Activations), NEW name, NEW namespace
    PROVE  LET said == UNION {DOMAIN d.spec : d \in Documents(docs, name, namespace)}
           IN  MergedDocument(docs, name, namespace).spec =
                  [p \in {q \in said : q \in DOMAIN LastWord(docs, name, namespace, q).spec}
                      |-> LastWord(docs, name, namespace, p).spec[p]]
<1> DEFINE said    == UNION {DOMAIN d.spec : d \in Documents(docs, name, namespace)}
           merged  == MergedDocument(docs, name, namespace).spec
           last(q) == LastWord(docs, name, namespace, q)
           paths   == {q \in said : q \in DOMAIN last(q).spec}
<1>1. merged \in SpecLeaves
  BY OrderedFacts, MergedSpecType DEF MergedDocument
<1>2. Documents(docs, name, namespace) \subseteq Activations
  BY DEF Documents, Variants
<1>3. ASSUME NEW q
      PROVE  /\ q \in DOMAIN merged <=> q \in paths
             /\ q \in DOMAIN merged => merged[q] = last(q).spec[q]
  <2> DEFINE saying == Saying(docs, name, namespace, q)
  <2>1. /\ saying = {} => q \notin DOMAIN merged
        /\ saying # {} => /\ last(q) \in saying
                          /\ q \in DOMAIN merged <=> q \in DOMAIN last(q).spec
                          /\ q \in DOMAIN last(q).spec => merged[q] = last(q).spec[q]
    BY LastWordDecides
  <2>2. saying \subseteq Documents(docs, name, namespace)
    BY DEF Saying
  <2>3. ASSUME q \in said
        PROVE  saying # {}
    <3>1. PICK d \in Documents(docs, name, namespace) : q \in DOMAIN d.spec
      BY <2>3
    <3>2. q \in Seq(STRING)
      BY <1>2, <3>1, HealthAssumption, LayersAssumption DEF Document, SpecLeaves
    <3>3. Within(q, q)
      BY <3>2 DEF Within, IsPrefix
    <3> QED
      BY <3>1, <3>3 DEF Saying
  <2> QED
    BY <2>1, <2>2, <2>3
<1>4. DOMAIN merged = paths /\ merged = [q \in DOMAIN merged |-> merged[q]]
  <2>1. merged = [q \in DOMAIN merged |-> merged[q]]
    BY <1>1 DEF SpecLeaves
  <2> HIDE DEF merged, paths
  <2> QED
    BY <1>3, <2>1
<1>5. merged = [q \in paths |-> last(q).spec[q]]
  <2> HIDE DEF merged, paths, last
  <2> QED
    BY <1>3, <1>4
<1> QED
  BY <1>5

\* The stability is that of the last document that says anything on compatibility.
LEMMA CompatibilityOfMerge ==
    ASSUME NEW docs \in Seq(Activations), NEW name, NEW namespace,
           Documents(docs, name, namespace) # {}
    PROVE  LET saying == {d \in Documents(docs, name, namespace) : ~Silent(d.compatibility)}
           IN  MergedDocument(docs, name, namespace).compatibility.stability =
                  IF saying = {} THEN "experimental"
                  ELSE (CHOOSE d \in saying : \A e \in saying :
                          ~Precedes(d.provenance, e.provenance)).compatibility.stability
<1> DEFINE o      == Ordered(docs, Variants(docs, name, namespace))
           saying == {d \in Documents(docs, name, namespace) : ~Silent(d.compatibility)}
           last   == CHOOSE d \in saying : \A e \in saying : ~Precedes(d.provenance, e.provenance)
<1>1. /\ o \in Seq(Activations)
      /\ {o[k] : k \in 1 .. Len(o)} = Documents(docs, name, namespace)
  BY OrderedFacts
<1>2. MergedDocument(docs, name, namespace).compatibility = MergedCompatibility(o)
  BY DEF MergedDocument
<1>3. /\ saying \in SUBSET Documents(docs, name, namespace)
      /\ \A d \in Documents(docs, name, namespace) : d \in saying <=> ~Silent(d.compatibility)
  OBVIOUS
<1>4. saying # {} =>
        \E k \in 1 .. Len(o) : /\ o[k] \in saying
                               /\ \A j \in 1 .. Len(o) : k < j => o[j] \notin saying
                               /\ o[k] = last
  <2> HIDE DEF saying, last
  <2>1. SUFFICES ASSUME saying # {}
                 PROVE  \E k \in 1 .. Len(o) :
                          /\ o[k] \in saying
                          /\ \A j \in 1 .. Len(o) : k < j => o[j] \notin saying
                          /\ o[k] = last
    OBVIOUS
  <2>2. \E k \in 1 .. Len(o) :
          /\ o[k] \in saying
          /\ \A j \in 1 .. Len(o) : k < j => o[j] \notin saying
          /\ o[k] = CHOOSE d \in saying :
                      \A e \in saying : ~Precedes(d.provenance, e.provenance)
    BY <1>3, <2>1, LastIsHighest
  <2> HIDE DEF o
  <2> QED
    BY <2>2 DEF last
<1> HIDE DEF o, saying, last
<1>5. Len(o) > 0
  <2>1. Len(o) \in Nat
    BY <1>1
  <2>2. 1 .. Len(o) # {}
    BY <1>1
  <2> QED
    BY <2>1, <2>2
<1>6. /\ (\A j \in 1 .. Len(o) : Silent(o[j].compatibility))
            => MergedCompatibility(o).stability = "experimental"
      /\ \A k \in 1 .. Len(o) :
            /\ ~Silent(o[k].compatibility)
            /\ \A j \in 1 .. Len(o) : k < j => Silent(o[j].compatibility)
            => MergedCompatibility(o).stability = o[k].compatibility.stability
  BY <1>1, <1>5, LastStabilityCounts
<1>7. CASE saying = {}
  <2>1. \A j \in 1 .. Len(o) : Silent(o[j].compatibility)
    BY <1>1, <1>3, <1>7
  <2> QED
    BY <1>2, <1>6, <1>7, <2>1 DEF saying
<1>8. CASE saying # {}
  <2>1. PICK k \in 1 .. Len(o) : /\ o[k] \in saying
                                 /\ \A j \in 1 .. Len(o) : k < j => o[j] \notin saying
                                 /\ o[k] = last
    BY <1>4, <1>8
  <2>2. ~Silent(o[k].compatibility) /\ \A j \in 1 .. Len(o) : k < j => Silent(o[j].compatibility)
    BY <1>1, <1>3, <2>1
  <2>3. MergedCompatibility(o).stability = last.compatibility.stability
    BY <1>6, <2>1, <2>2
  <2> QED
    BY <1>2, <1>8, <2>3 DEF saying, last
<1> QED
  BY <1>7, <1>8

-----------------------------------------------------------------------------
(* The state of a pack.                                                    *)

\* build_pack_status gives the state of the effective document, or that of the manifest.
LEMMA StatusOf ==
    ASSUME NEW docs \in Seq(Activations), NEW m \in Manifests
    PROVE  /\ PackStatus(docs, m).pack = m
           /\ Found(docs, m.name, Default) =>
                 PackStatus(docs, m).state =
                    State(MergedDocument(docs, m.name, Default), m.default)
           /\ ~Found(docs, m.name, Default) => PackStatus(docs, m).state = m.default
<1>1. Normalized(m.default) = m.default
  BY ManifestsAssumption DEF Manifest, DefaultStates, Normalized
<1>2. Found(docs, m.name, Default) =>
        /\ ActivationOf(docs, m) # {}
        /\ (CHOOSE d \in ActivationOf(docs, m) : TRUE) = MergedDocument(docs, m.name, Default)
  BY DEF ActivationOf
<1>3. ~Found(docs, m.name, Default) => ActivationOf(docs, m) = {}
  BY DEF ActivationOf
<1> QED
  BY <1>1, <1>2, <1>3 DEF PackStatus

LEMMA StatusIsText ==
    ASSUME NEW docs \in Seq(Activations), NEW m \in Manifests
    PROVE  PackStatus(docs, m).state \in Statuses
<1>1. m.default \in Statuses /\ "disabled" \in Statuses
  BY ManifestsAssumption DEF Manifest, DefaultStates, Statuses
<1>2. ASSUME Found(docs, m.name, Default)
      PROVE  State(MergedDocument(docs, m.name, Default), m.default) \in Statuses
  <2> DEFINE merged == MergedDocument(docs, m.name, Default)
  <2>1. merged.spec \in SpecLeaves
    BY OrderedFacts, MergedSpecType DEF MergedDocument
  <2>2. <<"state">> \in DOMAIN merged.spec => merged.spec[<<"state">>] \in Values
    BY <2>1 DEF SpecLeaves
  <2>3. At(merged, <<"state">>, m.default) \in Values \cup Statuses
    BY <1>1, <2>2 DEF At
  <2> QED
    BY <1>1, <2>3 DEF State, Normalized, Statuses
<1> QED
  BY <1>1, <1>2, StatusOf

\* It is that of the activation with the last word on it, where one says anything.
LEMMA StateOfMerge ==
    ASSUME NEW docs \in Seq(Activations), NEW m \in Manifests
    PROVE  LET saying == Saying(docs, m.name, Default, <<"state">>)
               last   == LastWord(docs, m.name, Default, <<"state">>)
           IN  PackStatus(docs, m).state =
                  IF saying = {} THEN m.default ELSE Normalized(last.spec[<<"state">>])
<1> DEFINE merged == MergedDocument(docs, m.name, Default)
           saying == Saying(docs, m.name, Default, <<"state">>)
           last   == LastWord(docs, m.name, Default, <<"state">>)
<1>1. /\ saying = {} => <<"state">> \notin DOMAIN merged.spec
      /\ saying # {} => /\ last \in saying
                        /\ <<"state">> \in DOMAIN merged.spec <=> <<"state">> \in DOMAIN last.spec
                        /\ <<"state">> \in DOMAIN last.spec =>
                              merged.spec[<<"state">>] = last.spec[<<"state">>]
  BY LastWordDecides
<1>2. saying # {} => Found(docs, m.name, Default)
  BY FoundHasDocuments DEF Saying
<1>3. saying # {} => <<"state">> \in DOMAIN last.spec
  <2>1. SUFFICES ASSUME saying # {}
                 PROVE  <<"state">> \in DOMAIN last.spec
    OBVIOUS
  <2>2. PICK p \in DOMAIN last.spec : Within(p, <<"state">>)
    BY <1>1, <2>1 DEF Saying
  <2>3. last \in Activations
    BY <1>1, <2>1 DEF Saying, Documents, Variants
  <2>4. p \in SpecPaths
    BY <2>2, <2>3, HealthAssumption DEF Document, SpecLeaves
  <2> QED
    BY <2>2, <2>4, HealthAssumption
<1>4. Normalized(m.default) = m.default
  BY ManifestsAssumption DEF Manifest, DefaultStates, Normalized
<1>5. CASE saying = {}
  BY <1>1, <1>4, <1>5, StatusOf DEF State, At
<1>6. CASE saying # {}
  BY <1>1, <1>2, <1>3, <1>6, StatusOf DEF State, At
<1> QED
  BY <1>5, <1>6

-----------------------------------------------------------------------------
(* What the reports say.                                                   *)

\* What was printed is a report, and not the failure to make one.
MadeReport(op, ms, docs, version, report) ==
    report = ReportOn(op, ms, docs, version) /\ report.kind = op

\* The pack of the name of an activation is on or off because of it.
IsTheReason(docs, i, report) ==
    LET name == docs[i].name
        pack == MergedDocument(docs, name, Default)
    IN  \E s \in report.status :
            /\ s.pack.name = name
            /\ Target(pack) = name
            /\ s.state = State(pack, s.pack.default)
            /\ s.state \in {"enabled", "disabled"}

\* A doctor that finds nothing has looked at everything HealthyIsInEffect promises.
LEMMA HealthyReport ==
    ASSUME NEW ms \in SUBSET Manifests, NEW docs \in Seq(Activations), NEW version,
           NEW report, MadeReport("doctor", ms, docs, version, report), report.healthy
    PROVE  /\ \A m, n \in ms : m.name = n.name => m = n
           /\ \A m \in ms : m.requires \subseteq Capabilities /\ SatisfiesRange(version, m.core)
           /\ \A i \in DOMAIN docs :
                 docs[i].namespace = Default => IsTheReason(docs, i, report)
<1>1. /\ StatusIssues(ms, docs) = {}
      /\ UpgradeIssues(ms, version) = {}
      /\ report.status = {PackStatus(docs, m) : m \in ms}
  <2>1. ~PlanRaises(ms, version)
    BY DEF MadeReport, ReportOn, Raised
  <2>2. report.healthy <=> StatusIssues(ms, docs) \cup UpgradeIssues(ms, version) = {}
    BY <2>1 DEF MadeReport, ReportOn
  <2>3. report.status = {PackStatus(docs, m) : m \in ms}
    BY <2>1 DEF MadeReport, ReportOn
  <2> QED
    BY <2>2, <2>3
<1>2. \A m, n \in ms : m.name = n.name => m = n
  <2> SUFFICES ASSUME NEW m \in ms, NEW n \in ms, m.name = n.name, m # n
               PROVE  FALSE
    OBVIOUS
  <2>1. m.version \in Nat /\ n.version \in Nat /\ m.source \in Nat /\ n.source \in Nat
    BY ManifestsAssumption DEF Manifest
  <2>2. m.source # n.source
    BY ManifestsAssumption
  <2>3. \/ n.version < m.version
        \/ n.version = m.version /\ n.source < m.source
        \/ m.version < n.version
        \/ m.version = n.version /\ m.source < n.source
    BY <2>1, <2>2
  <2>4. \/ Issue("error", "duplicate-pack-manifest", m) \in ManifestIssues(ms)
        \/ Issue("error", "duplicate-pack-manifest", n) \in ManifestIssues(ms)
    BY <2>3 DEF ManifestIssues
  <2> QED
    BY <1>1, <2>4 DEF StatusIssues
<1>3. ASSUME NEW m \in ms
      PROVE  m.requires \subseteq Capabilities /\ SatisfiesRange(version, m.core)
  <2>1. m \notin WithDisposition(ms, version, version, "blocked")
    BY <1>1 DEF UpgradeIssues
  <2> QED
    BY <2>1 DEF WithDisposition, Disposition, Blocked
<1>4. ASSUME NEW i \in DOMAIN docs, docs[i].namespace = Default
      PROVE  IsTheReason(docs, i, report)
  <2> DEFINE name == docs[i].name
             pack == MergedDocument(docs, name, Default)
  <2>1. <<name, Default>> \in Keys(docs) /\ Found(docs, name, Default)
    BY <1>4 DEF Keys, Found
  <2>2. pack.name = name /\ pack = MergedDocument(docs, name, Default)
    BY DEF MergedDocument
  <2> HIDE DEF name, pack
  <2> DEFINE listed == {MergedDocument(docs, k[1], k[2]) : k \in Keys(docs)}
  <2>3. pack \in listed
    BY <2>1, <2>2
  <2>4. \A d \in listed : /\ Target(d) \in {" ", d.name}
                          /\ Target(d) # " "
                          /\ \E m \in ms : m.name = Target(d)
    <3> DEFINE A == {d \in listed : Target(d) = " "}
               B == {d \in listed : Target(d) \notin {" ", d.name}}
               C == {d \in listed : Target(d) # " " /\ \A m \in ms : m.name # Target(d)}
    <3>1. ActivationIssues(ms, docs) =
            {Issue("error", "invalid-pack-activation", d) : d \in A}
            \cup {Issue("warning", "pack-activation-name-mismatch", d) : d \in B}
            \cup {Issue("error", "unknown-pack-activation", d) : d \in C}
      BY Zenon DEF ActivationIssues
    <3>2. ActivationIssues(ms, docs) = {}
      BY <1>1 DEF StatusIssues
    <3> HIDE DEF A, B, C
    <3>3. A = {} /\ B = {} /\ C = {}
      BY <3>1, <3>2
    <3> HIDE DEF listed
    <3> QED
      BY <3>3 DEF A, B, C
  <2> HIDE DEF listed
  <2>5. Target(pack) = name /\ \E m \in ms : m.name = name
    BY <2>2, <2>3, <2>4
  <2>6. PICK m \in ms : m.name = name
    BY <2>5
  <2>7. /\ PackStatus(docs, m).pack = m
        /\ PackStatus(docs, m).state = State(pack, m.default)
    BY <2>1, <2>2, <2>6, StatusOf
  <2>8. ActivationOf(docs, m) # {}
    BY <2>1, <2>6 DEF ActivationOf
  <2>9. PackStatus(docs, m).state \in {"enabled", "disabled"}
    <3>1. {Issue("error", "invalid-pack-activation-state", n) : n \in
              {n \in ms : /\ ActivationOf(docs, n) # {}
                          /\ PackStatus(docs, n).state \notin {"enabled", "disabled"}}} = {}
      BY <1>1, Zenon DEF StatusIssues, StateIssues
    <3> QED
      BY <2>6, <2>8, <3>1
  <2>10. \E s \in report.status :
            /\ s.pack.name = name
            /\ Target(pack) = name
            /\ s.state = State(pack, s.pack.default)
            /\ s.state \in {"enabled", "disabled"}
    BY <1>1, <2>5, <2>6, <2>7, <2>9
  <2> QED
    BY <2>10, Zenon DEF IsTheReason, name, pack
<1> QED
  BY <1>2, <1>3, <1>4

Incompatible(report) ==
    {i.about : i \in {i \in report.issues : i.code = "pack-core-incompatible"}}

\* The packs that validate and doctor call incompatible are those that a plan to the
\* installed version would block.
LEMMA IncompatibleAreBlocked ==
    ASSUME NEW ms \in SUBSET Manifests, NEW docs \in Seq(Activations), NEW version,
           NEW op \in Reports, op # "status",
           NEW report, MadeReport(op, ms, docs, version, report)
    PROVE  Incompatible(report) = WithDisposition(ms, version, version, "blocked")
<1> DEFINE blocked == WithDisposition(ms, version, version, "blocked")
<1>1. report.issues = StatusIssues(ms, docs) \cup UpgradeIssues(ms, version)
  BY DEF MadeReport, ReportOn, Raised, Reports
<1>2. \A i \in StatusIssues(ms, docs) : i.code # "pack-core-incompatible"
  <2>1. \A level, code, about : Issue(level, code, about).code = code
    BY DEF Issue
  <2>2. \A i \in ManifestIssues(ms) : i.code = "duplicate-pack-manifest"
    BY <2>1 DEF ManifestIssues
  <2>3. \A i \in ActivationIssues(ms, docs) :
          i.code \in {"invalid-pack-activation", "pack-activation-name-mismatch",
                      "unknown-pack-activation"}
    <3> DEFINE listed == {MergedDocument(docs, k[1], k[2]) : k \in Keys(docs)}
               A == {d \in listed : Target(d) = " "}
               B == {d \in listed : Target(d) \notin {" ", d.name}}
               C == {d \in listed : Target(d) # " " /\ \A m \in ms : m.name # Target(d)}
    <3>1. ActivationIssues(ms, docs) =
            {Issue("error", "invalid-pack-activation", d) : d \in A}
            \cup {Issue("warning", "pack-activation-name-mismatch", d) : d \in B}
            \cup {Issue("error", "unknown-pack-activation", d) : d \in C}
      BY Zenon DEF ActivationIssues
    <3> HIDE DEF A, B, C
    <3> QED
      BY <2>1, <3>1
  <2>4. \A i \in StateIssues(ms, docs) : i.code = "invalid-pack-activation-state"
    BY <2>1 DEF StateIssues
  <2> QED
    BY <2>2, <2>3, <2>4 DEF StatusIssues
<1>3. \A i \in UpgradeIssues(ms, version) : i.code = "pack-core-incompatible" =>
         i.about \in blocked
  <2>1. \A level, code, about : /\ Issue(level, code, about).code = code
                                /\ Issue(level, code, about).about = about
    BY DEF Issue
  <2> HIDE DEF blocked
  <2>2. UpgradeIssues(ms, version) =
          {Issue("error", "pack-core-incompatible", m) : m \in blocked} \cup
          {Issue("warning", "pack-migration-review", m) :
              m \in WithDisposition(ms, version, version, "manual")}
    BY DEF UpgradeIssues, blocked
  <2> QED
    BY <2>1, <2>2
<1>4. \A m \in blocked : \E i \in UpgradeIssues(ms, version) :
         i.code = "pack-core-incompatible" /\ i.about = m
  <2>1. \A m \in blocked : Issue("error", "pack-core-incompatible", m) \in
                               UpgradeIssues(ms, version)
    BY DEF UpgradeIssues
  <2>2. \A m : /\ Issue("error", "pack-core-incompatible", m).code = "pack-core-incompatible"
               /\ Issue("error", "pack-core-incompatible", m).about = m
    BY DEF Issue
  <2> HIDE DEF blocked
  <2> QED
    BY <2>1, <2>2
<1> HIDE DEF blocked
<1>5. \A m : m \in blocked <=> \E i \in report.issues :
                                   i.code = "pack-core-incompatible" /\ m = i.about
  BY <1>1, <1>2, <1>3, <1>4
<1> QED
  BY <1>5 DEF Incompatible, blocked

\* Both plans block the same packs, whatever the version they start from.
LEMMA BlockedByTarget ==
    ASSUME NEW ms, NEW v, NEW w, NEW target
    PROVE  WithDisposition(ms, v, target, "blocked") = WithDisposition(ms, w, target, "blocked")
BY DEF WithDisposition, Disposition, Blocked

-----------------------------------------------------------------------------
(* Versions as numbers.                                                    *)

Short(v) == Len(v) <= 3 /\ \A i \in DOMAIN v : v[i] = NotANumber \/ v[i] < 100

LEMMA PartsAreSmall ==
    ASSUME NEW v \in Version, Numeric(v), Short(v), NEW i \in {1, 2, 3}
    PROVE  PartAt(v, i) \in 0 .. 99
<1>1. CASE i \in DOMAIN v
  <2>1. v[i] \in Nat /\ v[i] < 100
    BY <1>1, ManifestsAssumption DEF Version, Part, Numeric, Short
  <2> QED
    BY <1>1, <2>1 DEF PartAt
<1>2. CASE i \notin DOMAIN v
  BY <1>2 DEF PartAt
<1> QED
  BY <1>1, <1>2

Decimal(f) == 10000 * f[1] + 100 * f[2] + f[3]

LEMMA DecimalOrder ==
    ASSUME NEW f, NEW g, \A i \in {1, 2, 3} : f[i] \in 0 .. 99 /\ g[i] \in 0 .. 99
    PROVE  /\ Decimal(f) \in Nat /\ Decimal(g) \in Nat
           /\ Decimal(f) < Decimal(g) <=> \/ f[1] < g[1]
                                          \/ f[1] = g[1] /\ f[2] < g[2]
                                          \/ f[1] = g[1] /\ f[2] = g[2] /\ f[3] < g[3]
<1> DEFINE a == f[1]  b == f[2]  c == f[3]
           x == g[1]  y == g[2]  z == g[3]
<1>0. /\ a \in 0 .. 99 /\ b \in 0 .. 99 /\ c \in 0 .. 99
      /\ x \in 0 .. 99 /\ y \in 0 .. 99 /\ z \in 0 .. 99
  OBVIOUS
<1> HIDE DEF a, b, c, x, y, z
<1>1. /\ 10000 * a + 100 * b + c \in Nat /\ 10000 * x + 100 * y + z \in Nat
      /\ 10000 * a + 100 * b + c < 10000 * x + 100 * y + z
            <=> \/ a < x
                \/ a = x /\ b < y
                \/ a = x /\ b = y /\ c < z
  <2>1. /\ a \in Int /\ b \in Int /\ c \in Int /\ x \in Int /\ y \in Int /\ z \in Int
        /\ 0 <= a /\ a <= 99 /\ 0 <= b /\ b <= 99 /\ 0 <= c /\ c <= 99
        /\ 0 <= x /\ x <= 99 /\ 0 <= y /\ y <= 99 /\ 0 <= z /\ z <= 99
    BY <1>0
  <2>2. CASE a < x
    <3>1. 100 * b + c <= 9999
      BY <2>1
    <3>2. a + 1 <= x
      BY <2>1, <2>2
    <3>3. 10000 * a + 10000 <= 10000 * x
      BY <2>1, <3>2
    <3> QED
      BY <2>1, <2>2, <3>1, <3>3
  <2>3. CASE x < a
    <3>1. 100 * y + z <= 9999
      BY <2>1
    <3>2. x + 1 <= a
      BY <2>1, <2>3
    <3>3. 10000 * x + 10000 <= 10000 * a
      BY <2>1, <3>2
    <3> QED
      BY <2>1, <2>3, <3>1, <3>3
  <2>4. CASE a = x
    <3>1. b < y => 100 * b + 100 <= 100 * y
      BY <2>1
    <3>2. y < b => 100 * y + 100 <= 100 * b
      BY <2>1
    <3> QED
      BY <2>1, <2>4, <3>1, <3>2
  <2> QED
    BY <2>1, <2>2, <2>3, <2>4
<1> QED
  BY <1>1 DEF Decimal, a, b, c, x, y, z

\* To compare part by part is to compare the numbers.
LEMMA EarlierIsLess ==
    ASSUME NEW v \in Version, Numeric(v), Short(v), NEW w \in Version, Numeric(w), Short(w)
    PROVE  /\ Number(v) \in Nat /\ Number(w) \in Nat
           /\ Earlier(v, w) <=> Number(v) < Number(w)
<1> DEFINE a == [i \in {1, 2, 3} |-> PartAt(v, i)]
           b == [i \in {1, 2, 3} |-> PartAt(w, i)]
<1>1. \A i \in {1, 2, 3} : a[i] \in 0 .. 99 /\ b[i] \in 0 .. 99
  BY PartsAreSmall
<1>2. DOMAIN v \subseteq {1, 2, 3} /\ DOMAIN w \subseteq {1, 2, 3}
  BY DEF Version, Short
<1>3. \A i \in {1, 2, 3} : a[i] < b[i] => i \in DOMAIN w
  <2> SUFFICES ASSUME NEW i \in {1, 2, 3}, a[i] < b[i], i \notin DOMAIN w
               PROVE  FALSE
    OBVIOUS
  <2>1. b[i] = 0
    BY DEF PartAt
  <2> HIDE DEF a, b
  <2> QED
    BY <1>1, <2>1
<1>4. Earlier(v, w) <=> \E i \in DOMAIN v \cup DOMAIN w :
                            a[i] < b[i] /\ \A j \in 1 .. i - 1 : a[j] = b[j]
  <2>1. \A i \in {1, 2, 3} : a[i] = PartAt(v, i) /\ b[i] = PartAt(w, i)
    OBVIOUS
  <2>2. \A i \in DOMAIN v \cup DOMAIN w : i \in {1, 2, 3} /\ 1 .. i - 1 \subseteq {1, 2, 3}
    BY <1>2
  <2> HIDE DEF a, b
  <2> QED
    BY <2>1, <2>2 DEF Earlier
<1>5. Number(v) = Decimal(a) /\ Number(w) = Decimal(b)
  BY DEF Number, Decimal
<1> HIDE DEF a, b
<1>6. Earlier(v, w) <=> \E i \in {1, 2, 3} : a[i] < b[i] /\ \A j \in 1 .. i - 1 : a[j] = b[j]
  BY <1>2, <1>3, <1>4
<1>7. Earlier(v, w) <=> \/ a[1] < b[1]
                        \/ a[1] = b[1] /\ a[2] < b[2]
                        \/ a[1] = b[1] /\ a[2] = b[2] /\ a[3] < b[3]
  <2>1. /\ \A j \in 1 .. 1 - 1 : a[j] = b[j]
        /\ (\A j \in 1 .. 2 - 1 : a[j] = b[j]) <=> a[1] = b[1]
        /\ (\A j \in 1 .. 3 - 1 : a[j] = b[j]) <=> a[1] = b[1] /\ a[2] = b[2]
    <3>1. 1 .. 1 - 1 = {} /\ 1 .. 2 - 1 = {1} /\ 1 .. 3 - 1 = {1, 2}
      OBVIOUS
    <3> QED
      BY <3>1
  <2> QED
    BY <1>6, <2>1
<1>8. /\ Decimal(a) \in Nat /\ Decimal(b) \in Nat
      /\ Decimal(a) < Decimal(b) <=> \/ a[1] < b[1]
                                     \/ a[1] = b[1] /\ a[2] < b[2]
                                     \/ a[1] = b[1] /\ a[2] = b[2] /\ a[3] < b[3]
  BY <1>1, DecimalOrder
<1> QED
  BY <1>5, <1>7, <1>8

\* A comparison that does not raise holds as that of the numbers.
LEMMA HoldsCompares ==
    ASSUME NEW v \in Version, Short(v), NEW c \in Comparison, Short(c.version), ~Raises(v, c)
    PROVE  Holds(v, c) <=> Compares(v, c)
<1>1. c.version \in Version
  BY DEF Comparison
<1>2. CASE c.op \in Operators
  <2>1. Numeric(v) /\ Numeric(c.version)
    BY <1>2 DEF Raises
  <2>2. /\ Number(v) \in Nat /\ Number(c.version) \in Nat
        /\ Earlier(v, c.version) <=> Number(v) < Number(c.version)
        /\ Earlier(c.version, v) <=> Number(c.version) < Number(v)
    BY <1>1, <2>1, EarlierIsLess
  <2> QED
    BY <1>2, <2>2 DEF Holds, Compares, Operators
<1>3. CASE c.op \notin Operators
  BY <1>3 DEF Holds, Compares, Operators
<1> QED
  BY <1>2, <1>3

\* A range that does not raise is not satisfied if a comparison of it fails: one that
\* cannot be made is only reached if the ones before hold.
LEMMA RangeCompares ==
    ASSUME NEW v \in Version, Short(v), NEW range \in Seq(Comparison),
           \A i \in DOMAIN range : Short(range[i].version),
           ~RangeRaises(v, range)
    PROVE  ~SatisfiesRange(v, range) <=> \E i \in DOMAIN range : ~Compares(v, range[i])
<1>1. \A i \in DOMAIN range : range[i] \in Comparison
  OBVIOUS
<1>2. ASSUME NEW k \in DOMAIN range, ~Compares(v, range[k])
      PROVE  Stops(v, range[k])
  BY <1>1, <1>2, HoldsCompares DEF Stops
<1>3. ASSUME ~SatisfiesRange(v, range)
      PROVE  \E i \in DOMAIN range : ~Compares(v, range[i])
  <2> DEFINE stops == {i \in DOMAIN range : Stops(v, range[i])}
  <2>1. stops # {} /\ stops \in SUBSET Nat
    BY <1>3 DEF SatisfiesRange
  <2>2. PICK i \in stops : \A j \in stops : i <= j
    <3> HIDE DEF stops
    <3> QED
      BY <2>1, LeastNatural
  <2>3. \A j \in 1 .. i - 1 : ~Stops(v, range[j])
    BY <2>2
  <2>4. ~Raises(v, range[i])
    BY <2>2, <2>3 DEF RangeRaises
  <2>5. ~Holds(v, range[i])
    BY <2>2, <2>4 DEF Stops
  <2>6. i \in DOMAIN range
    BY <2>2
  <2> QED
    BY <1>1, <2>4, <2>5, <2>6, HoldsCompares
<1> QED
  BY <1>2, <1>3 DEF SatisfiesRange

-----------------------------------------------------------------------------
(* The kinds of what is printed.                                           *)

LEMMA RequestTypes ==
    ASSUME NEW r \in Requests
    PROVE  /\ r.op \in Reports \cup {"plan", "explain"}
           /\ r.op = "plan" => r.target \in Version \cup {Unset}
           /\ r.op = "explain" => r.name \in Names /\ r.namespace \in Namespaces
BY HealthAssumption DEF Request, Reports

LEMMA ReportType ==
    ASSUME NEW ms \in SUBSET Manifests, NEW docs \in Seq(Activations), NEW version,
           NEW op \in Reports, NEW report, report = ReportOn(op, ms, docs, version)
    PROVE  /\ report.kind \in {op, "raised"}
           /\ report.kind = op =>
                /\ \A s \in report.status : \E m \in ms : s = PackStatus(docs, m)
                /\ \A s \in report.status : s.pack \in Manifests /\ s.state \in Statuses
                /\ \A i \in report.issues : i.level \in {"error", "warning"}
<1>1. CASE op # "status" /\ PlanRaises(ms, version)
  BY <1>1 DEF ReportOn, Raised, Reports
<1>2. CASE ~(op # "status" /\ PlanRaises(ms, version))
  <2>1. /\ report.kind = op
        /\ report.status = {PackStatus(docs, m) : m \in ms}
        /\ report.issues \subseteq StatusIssues(ms, docs) \cup UpgradeIssues(ms, version)
    BY <1>2 DEF ReportOn
  <2>2. \A s \in report.status : s.pack \in Manifests /\ s.state \in Statuses
    BY <2>1, StatusIsText, StatusOf
  <2>3. \A level, code, about : Issue(level, code, about).level = level
    BY DEF Issue
  <2>4. \A i \in ManifestIssues(ms) \cup StateIssues(ms, docs) : i.level \in {"error", "warning"}
    BY <2>3 DEF ManifestIssues, StateIssues
  <2>5. \A i \in UpgradeIssues(ms, version) : i.level \in {"error", "warning"}
    BY <2>3 DEF UpgradeIssues
  <2>6. \A i \in ActivationIssues(ms, docs) : i.level \in {"error", "warning"}
    <3> DEFINE listed == {MergedDocument(docs, k[1], k[2]) : k \in Keys(docs)}
               A == {d \in listed : Target(d) = " "}
               B == {d \in listed : Target(d) \notin {" ", d.name}}
               C == {d \in listed : Target(d) # " " /\ \A m \in ms : m.name # Target(d)}
    <3>1. ActivationIssues(ms, docs) =
            {Issue("error", "invalid-pack-activation", d) : d \in A}
            \cup {Issue("warning", "pack-activation-name-mismatch", d) : d \in B}
            \cup {Issue("error", "unknown-pack-activation", d) : d \in C}
      BY Zenon DEF ActivationIssues
    <3> HIDE DEF A, B, C
    <3> QED
      BY <2>3, <3>1
  <2> QED
    BY <2>1, <2>2, <2>4, <2>5, <2>6 DEF StatusIssues
<1> QED
  BY <1>1, <1>2

LEMMA StatusesOfReport ==
    ASSUME NEW ms \in SUBSET Manifests, NEW docs \in Seq(Activations), NEW version,
           NEW op \in Reports, NEW report, MadeReport(op, ms, docs, version, report)
    PROVE  \A s \in report.status : \E m \in ms : s = PackStatus(docs, m)
<1>1. ~(op # "status" /\ PlanRaises(ms, version))
  BY DEF MadeReport, ReportOn, Raised, Reports
<1>2. report.status = {PackStatus(docs, m) : m \in ms}
  BY <1>1 DEF MadeReport, ReportOn
<1> QED
  BY <1>2

LEMMA PlanKind ==
    ASSUME NEW ms, NEW version, NEW target
    PROVE  LET plan == PlanFor(ms, version, target)
           IN  /\ plan.kind \in {"plan", "raised"}
               /\ plan.kind = "plan" =>
                    /\ plan.target = target
                    /\ plan.blocked = WithDisposition(ms, version, target, "blocked")
                    /\ ~PlanRaises(ms, target)
<1>1. CASE PlanRaises(ms, target)
  BY <1>1 DEF PlanFor, Raised
<1>2. CASE ~PlanRaises(ms, target)
  BY <1>2 DEF PlanFor
<1> QED
  BY <1>1, <1>2

LEMMA ExplainKind ==
    ASSUME NEW docs, NEW name, NEW namespace
    PROVE  LET shown == ExplainResource(docs, name, namespace)
           IN  /\ shown.kind \in {"explain", "not found"}
               /\ shown.kind = "explain" =>
                    /\ Found(docs, name, namespace)
                    /\ shown.document = MergedDocument(docs, name, namespace)
<1>1. CASE Found(docs, name, namespace)
  BY <1>1 DEF ExplainResource
<1>2. CASE ~Found(docs, name, namespace)
  BY <1>2 DEF ExplainResource
<1> QED
  BY <1>1, <1>2

-----------------------------------------------------------------------------
(* The types.                                                              *)

\* A step keeps the types: what a command prints is made of what it has loaded, which are
\* manifests, and of the activations as they are when it loads them.
LEMMA TypeStep == TypeOK /\ [Next]_vars => TypeOK'
<1> SUFFICES ASSUME TypeOK, [Next]_vars
             PROVE  TypeOK'
  OBVIOUS
<1> DEFINE Printed == /\ Kind \in Reports \cup {"none", "raised", "plan", "explain", "not found"}
                      /\ Kind \in Reports =>
                            /\ \A s \in answer.status : s.pack \in Manifests /\ s.state \in Statuses
                            /\ \A i \in answer.issues : i.level \in {"error", "warning"}
<1>1. Printed
  BY DEF TypeOK
<1>2. answer' = None => Printed'
  BY DEF Kind, Reports
<1>3. /\ TypeOK <=> /\ manifests \subseteq Manifests
                    /\ activations \in Seq(Activations)
                    /\ core \in CoreVersions
                    /\ request \in Requests \cup {None}
                    /\ loaded \in (SUBSET Manifests) \cup {None}
                    /\ (request = None) <=> (loaded = None)
                    /\ calm \in BOOLEAN
                    /\ Printed
      /\ TypeOK' <=> /\ manifests' \subseteq Manifests
                     /\ activations' \in Seq(Activations)
                     /\ core' \in CoreVersions
                     /\ request' \in Requests \cup {None}
                     /\ loaded' \in (SUBSET Manifests) \cup {None}
                     /\ (request' = None) <=> (loaded' = None)
                     /\ calm' \in BOOLEAN
                     /\ Printed'
  BY DEF TypeOK
<1>4. UNCHANGED answer => Printed'
  BY <1>1 DEF Kind
<1> HIDE DEF Printed
<1>5. CASE PutManifest
  BY <1>2, <1>3, <1>5 DEF PutManifest, Edited
<1>6. CASE RemoveManifest
  BY <1>2, <1>3, <1>6 DEF RemoveManifest, Edited
<1>7. CASE PutActivation
  <2>1. activations' \in Seq(Activations)
    BY <1>3, <1>7 DEF PutActivation
  <2> QED
    BY <1>2, <1>3, <1>7, <2>1 DEF PutActivation, Edited
<1>8. CASE RemoveActivation
  <2>1. PICK i \in DOMAIN activations : activations' = Without(activations, activations[i])
    BY <1>8 DEF RemoveActivation
  <2>2. activations' \in Seq(Activations)
    BY <1>3, <2>1, WithoutFacts
  <2> QED
    BY <1>2, <1>3, <1>8, <2>2 DEF RemoveActivation, Edited
<1>9. CASE InstallCore
  BY <1>2, <1>3, <1>9 DEF InstallCore, Edited
<1>10. CASE LoadManifests
  <2>1. request' \in Requests /\ loaded' \in SUBSET Manifests
    BY <1>3, <1>10 DEF LoadManifests
  <2>2. request' # None /\ loaded' # None
    BY <2>1, HealthAssumption
  <2> QED
    BY <1>2, <1>3, <1>10, <2>1, <2>2 DEF LoadManifests, files
<1>11. CASE Report
  <2>1. loaded \in SUBSET Manifests /\ request.op \in Reports
    BY <1>3, <1>11 DEF Report
  <2>2. /\ answer' = ReportOn(request.op, loaded, activations, core)
        /\ answer'.kind \in {request.op, "raised"}
        /\ answer'.kind = request.op =>
              /\ \A s \in answer'.status : s.pack \in Manifests /\ s.state \in Statuses
              /\ \A i \in answer'.issues : i.level \in {"error", "warning"}
    BY <1>3, <1>11, <2>1, ReportType DEF Report
  <2>3. Printed'
    BY <1>2, <2>1, <2>2 DEF Printed, Kind, Reports
  <2> QED
    BY <1>3, <1>11, <2>3 DEF Report, files
<1>12. CASE Plan
  <2>1. answer'.kind \in {"plan", "raised"}
    BY <1>12, PlanKind DEF Plan
  <2>2. Printed'
    BY <1>2, <2>1 DEF Printed, Kind, Reports
  <2> QED
    BY <1>3, <1>12, <2>2 DEF Plan, files
<1>13. CASE Explain
  <2>1. answer'.kind \in {"explain", "not found"}
    <3>1. PICK r \in Requests : answer' = ExplainResource(activations, r.name, r.namespace)
      BY <1>13 DEF Explain
    <3> QED
      BY <3>1, ExplainKind
  <2>2. Printed'
    BY <1>2, <2>1 DEF Printed, Kind, Reports
  <2> QED
    BY <1>3, <1>13, <2>2 DEF Explain, files
<1>14. CASE UNCHANGED vars
  BY <1>3, <1>4, <1>14 DEF vars, files
<1> QED
  BY <1>5, <1>6, <1>7, <1>8, <1>9, <1>10, <1>11, <1>12, <1>13, <1>14 DEF Next

LEMMA TypeInit == Init => TypeOK
BY HealthAssumption DEF Init, TypeOK, Kind, Reports

\* The files, what a command has read of them, and what it prints stay what they are
\* supposed to be; every state that a report gives is a text that says something.
THEOREM TypeCorrect == Spec => []TypeOK
<1> QED
  BY TypeInit, TypeStep, PTL DEF Spec

-----------------------------------------------------------------------------
(* What was printed is about the files as they are, unless they were       *)
(* edited while the command ran.                                           *)

Targets == CoreVersions \cup {r.target : r \in {r \in Requests : r.op = "plan" /\ r.target # Unset}}

AnswerInv ==
    /\ calm /\ request # None => loaded = manifests
    /\ calm /\ Kind \in Reports => answer = ReportOn(Kind, manifests, activations, core)
    /\ calm /\ Kind = "plan" =>
           answer = PlanFor(manifests, core, answer.target) /\ answer.target \in Targets
    /\ Kind = "explain" =>
           \E name \in Names, namespace \in Namespaces :
              /\ Found(activations, name, namespace)
              /\ answer.document = MergedDocument(activations, name, namespace)
    /\ forecast # None =>
           forecast.blocked = WithDisposition(manifests, core, forecast.target, "blocked")

LEMMA AnswerInit == Init => AnswerInv
BY DEF Init, AnswerInv, Kind, Reports

\* An edit takes the answer back, and the forecast where a manifest is edited; a command
\* prints what its report makes of what it has loaded, which is what there is if no
\* edit came in between.
LEMMA AnswerStep == TypeOK /\ AnswerInv /\ [Next]_vars => AnswerInv'
<1> SUFFICES ASSUME TypeOK, AnswerInv, [Next]_vars
             PROVE  AnswerInv'
  OBVIOUS
<1> DEFINE Fresh    == calm /\ request # None => loaded = manifests
           Reported == calm /\ Kind \in Reports =>
                          answer = ReportOn(Kind, manifests, activations, core)
           Planned  == calm /\ Kind = "plan" =>
                          answer = PlanFor(manifests, core, answer.target) /\ answer.target \in Targets
           Shown    == Kind = "explain" =>
                          \E name \in Names, namespace \in Namespaces :
                             /\ Found(activations, name, namespace)
                             /\ answer.document = MergedDocument(activations, name, namespace)
           Foretold == forecast # None =>
                          forecast.blocked =
                             WithDisposition(manifests, core, forecast.target, "blocked")
<1>1. Fresh /\ Reported /\ Planned /\ Shown /\ Foretold
  BY DEF AnswerInv
<1>2. AnswerInv' <=> Fresh' /\ Reported' /\ Planned' /\ Shown' /\ Foretold'
  BY DEF AnswerInv
<1>3. answer' = None => Reported' /\ Planned' /\ Shown'
  BY DEF Kind, Reports
<1>4. \A v, w, target : WithDisposition(manifests, v, target, "blocked") =
                           WithDisposition(manifests, w, target, "blocked")
  BY BlockedByTarget
<1>5. UNCHANGED <<manifests, forecast>> => Foretold'
  BY <1>1, <1>4
<1>6. Edited => Fresh' /\ Reported' /\ Planned' /\ Shown'
  BY <1>3 DEF Edited
<1>7. CASE PutManifest \/ RemoveManifest
  BY <1>2, <1>6, <1>7 DEF PutManifest, RemoveManifest
<1>8. CASE PutActivation \/ RemoveActivation \/ InstallCore
  BY <1>2, <1>5, <1>6, <1>8 DEF PutActivation, RemoveActivation, InstallCore
<1>9. CASE LoadManifests
  BY <1>2, <1>3, <1>5, <1>9 DEF LoadManifests, files
<1>10. CASE Report
  <2>1. /\ answer' = ReportOn(request.op, loaded, activations, core)
        /\ request.op \in Reports /\ request # None
        /\ UNCHANGED <<manifests, activations, core, calm, forecast>> /\ request' = None
    BY <1>10 DEF Report, files
  <2>2. loaded \in SUBSET Manifests /\ activations \in Seq(Activations)
    BY <2>1 DEF TypeOK
  <2>3. answer'.kind \in {request.op, "raised"}
    BY <2>1, <2>2, ReportType
  <2>4. calm => loaded = manifests
    BY <1>1, <2>1
  <2>5. Kind' \in {request.op, "none", "raised"}
    BY <2>3 DEF Kind
  <2>6. Fresh' /\ Planned' /\ Shown'
    BY <2>1, <2>5 DEF Reports
  <2>7. Reported'
    BY <2>1, <2>4, <2>5 DEF Reports
  <2> QED
    BY <1>2, <1>5, <2>1, <2>6, <2>7
<1>11. CASE Plan
  <2> DEFINE target == EffectiveTarget(request.target, core)
  <2>1. /\ answer' = PlanFor(loaded, core, target)
        /\ forecast' = IF calm /\ answer'.kind = "plan"
                       THEN [target |-> answer'.target, blocked |-> answer'.blocked] ELSE None
        /\ request.op = "plan" /\ request # None
        /\ UNCHANGED <<manifests, activations, core, calm>> /\ request' = None
    BY <1>11 DEF Plan, files
  <2>2. target \in Targets
    BY <2>1 DEF TypeOK, EffectiveTarget, Targets
  <2> HIDE DEF target
  <2>3. /\ answer'.kind \in {"plan", "raised"}
        /\ answer'.kind = "plan" =>
              /\ answer'.target = target
              /\ answer'.blocked = WithDisposition(loaded, core, target, "blocked")
    BY <2>1, PlanKind
  <2>4. calm => loaded = manifests
    BY <1>1, <2>1
  <2>5. Kind' \in {"none", "plan", "raised"} /\ (Kind' = "plan" => answer'.kind = "plan")
    BY <2>3 DEF Kind
  <2>6. Fresh' /\ Reported' /\ Shown'
    BY <2>1, <2>5 DEF Reports
  <2>7. Planned'
    BY <2>1, <2>2, <2>3, <2>4, <2>5
  <2>8. Foretold'
    <3>1. SUFFICES ASSUME forecast' # None
                   PROVE  forecast'.blocked =
                             WithDisposition(manifests, core, forecast'.target, "blocked")
      BY <2>1
    <3>2. calm /\ answer'.kind = "plan"
      BY <2>1, <3>1
    <3>3. forecast'.target = target /\ forecast'.blocked = answer'.blocked
      BY <2>1, <2>3, <3>2
    <3> QED
      BY <2>3, <2>4, <3>2, <3>3
  <2> QED
    BY <1>2, <2>6, <2>7, <2>8
<1>12. CASE Explain
  <2>1. PICK r \in Requests :
          /\ request = None /\ r.op = "explain"
          /\ answer' = ExplainResource(activations, r.name, r.namespace)
          /\ UNCHANGED <<manifests, activations, core, request, loaded, forecast>>
    BY <1>12 DEF Explain, files
  <2>2. r.name \in Names /\ r.namespace \in Namespaces
    BY <2>1, RequestTypes
  <2>3. /\ answer'.kind \in {"explain", "not found"}
        /\ answer'.kind = "explain" =>
              /\ Found(activations, r.name, r.namespace)
              /\ answer'.document = MergedDocument(activations, r.name, r.namespace)
    BY <2>1, ExplainKind
  <2>4. Kind' \in {"none", "explain", "not found"} /\ (Kind' = "explain" => answer'.kind = "explain")
    BY <2>3 DEF Kind
  <2>5. Fresh' /\ Reported' /\ Planned'
    BY <2>1, <2>4 DEF Reports
  <2>6. Shown'
    BY <2>1, <2>2, <2>3, <2>4
  <2> QED
    BY <1>2, <1>5, <2>1, <2>5, <2>6
<1>13. CASE UNCHANGED vars
  BY <1>1, <1>2, <1>13 DEF vars, files, Kind
<1> QED
  BY <1>7, <1>8, <1>9, <1>10, <1>11, <1>12, <1>13 DEF Next

\* A report, a plan and an explanation are about the files as they are.
THEOREM AnswersAreOfTheFiles == Spec => [](TypeOK /\ AnswerInv)
<1> QED
  BY TypeInit, TypeStep, AnswerInit, AnswerStep, PTL DEF Spec

-----------------------------------------------------------------------------
(* The properties.                                                         *)

\* The state that a report gives a pack is that of the activation of its name, in the default
\* namespace, that has the last word on it; the manifest decides only if none
\* of them says anything.
THEOREM StateIsThatOfTheLastWord == Spec => []StateIsLastWord
<1>1. ASSUME TypeOK, AnswerInv
      PROVE  StateIsLastWord
  <2> SUFFICES ASSUME calm, Kind \in Reports, NEW s \in answer.status
               PROVE  LET saying == Saying(activations, s.pack.name, Default, <<"state">>)
                          last   == LastWord(activations, s.pack.name, Default, <<"state">>)
                      IN  s.state = IF saying = {} THEN s.pack.default
                                    ELSE Normalized(last.spec[<<"state">>])
    BY DEF StateIsLastWord
  <2>1. activations \in Seq(Activations) /\ manifests \in SUBSET Manifests
    BY <1>1 DEF TypeOK
  <2>2. MadeReport(Kind, manifests, activations, core, answer)
    BY <1>1 DEF AnswerInv, Kind, Reports, MadeReport
  <2>3. PICK m \in manifests : s = PackStatus(activations, m)
    BY <2>1, <2>2, StatusesOfReport
  <2>4. m \in Manifests /\ s.pack = m
    BY <2>1, <2>3, StatusOf
  <2> QED
    BY <2>1, <2>3, <2>4, StateOfMerge
<1> QED
  BY <1>1, AnswersAreOfTheFiles, PTL

\* When doctor finds nothing, what was asked for is in effect: one manifest of each name, each
\* fitting the core, and each activation in the default namespace about the pack of
\* its name and the reason why this is on or off.
THEOREM HealthyMeansInEffect == Spec => []HealthyIsInEffect
<1>1. ASSUME TypeOK, AnswerInv
      PROVE  HealthyIsInEffect
  <2> SUFFICES ASSUME calm, Kind = "doctor", answer.healthy
               PROVE  /\ \A m, n \in manifests : m.name = n.name => m = n
                      /\ \A m \in manifests :
                            m.requires \subseteq Capabilities /\ SatisfiesRange(core, m.core)
                      /\ \A i \in DOMAIN activations : activations[i].namespace = Default =>
                            IsTheReason(activations, i, answer)
    BY Zenon DEF HealthyIsInEffect, IsTheReason
  <2>1. activations \in Seq(Activations) /\ manifests \in SUBSET Manifests
    BY <1>1 DEF TypeOK
  <2>2. MadeReport("doctor", manifests, activations, core, answer)
    BY <1>1 DEF AnswerInv, Kind, Reports, MadeReport
  <2> QED
    BY <2>1, <2>2, HealthyReport
<1> QED
  BY <1>1, AnswersAreOfTheFiles, PTL

\* What explain shows was found, so that it is made of at least one document.
LEMMA ShownDocument ==
    ASSUME TypeOK, AnswerInv, Kind = "explain"
    PROVE  /\ activations \in Seq(Activations)
           /\ answer.document =
                 MergedDocument(activations, answer.document.name, answer.document.namespace)
           /\ Documents(activations, answer.document.name, answer.document.namespace) # {}
<1>1. activations \in Seq(Activations)
  BY DEF TypeOK
<1>2. PICK name \in Names, namespace \in Namespaces :
        /\ Found(activations, name, namespace)
        /\ answer.document = MergedDocument(activations, name, namespace)
  BY DEF AnswerInv
<1>3. answer.document.name = name /\ answer.document.namespace = namespace
  BY <1>2 DEF MergedDocument
<1> QED
  BY <1>1, <1>2, <1>3, FoundHasDocuments

\* Every leaf of an effective document is what the document with the last word on it says.
THEOREM LayersDecideLeaves == Spec => []LayersDecide
<1>1. ASSUME TypeOK, AnswerInv
      PROVE  LayersDecide
  <2> SUFFICES ASSUME Kind = "explain"
               PROVE  LayersDecide
    BY DEF LayersDecide
  <2> DEFINE doc  == answer.document
             said == UNION {DOMAIN d.spec : d \in Documents(activations, doc.name, doc.namespace)}
  <2>1. /\ activations \in Seq(Activations)
        /\ doc = MergedDocument(activations, doc.name, doc.namespace)
    BY <1>1, ShownDocument
  <2>2. MergedDocument(activations, doc.name, doc.namespace).spec =
          [p \in {q \in said : q \in DOMAIN LastWord(activations, doc.name, doc.namespace, q).spec}
              |-> LastWord(activations, doc.name, doc.namespace, p).spec[p]]
    BY <2>1, LayersOfMerge
  <2>3. doc.spec =
          [p \in {q \in said : q \in DOMAIN LastWord(activations, doc.name, doc.namespace, q).spec}
              |-> LastWord(activations, doc.name, doc.namespace, p).spec[p]]
    BY <2>1, <2>2, Zenon
  <2> QED
    BY <2>3, Zenon DEF LayersDecide
<1> QED
  BY <1>1, AnswersAreOfTheFiles, PTL

\* Its stability is that of the last document that says anything on compatibility.
THEOREM CompatibilityIsThatOfTheLastWord == Spec => []CompatibilityIsLastWord
<1>1. ASSUME TypeOK, AnswerInv
      PROVE  CompatibilityIsLastWord
  <2> SUFFICES ASSUME Kind = "explain"
               PROVE  CompatibilityIsLastWord
    BY DEF CompatibilityIsLastWord
  <2> DEFINE doc    == answer.document
             saying == {d \in Documents(activations, doc.name, doc.namespace) :
                            ~Silent(d.compatibility)}
  <2>1. /\ activations \in Seq(Activations)
        /\ doc = MergedDocument(activations, doc.name, doc.namespace)
        /\ Documents(activations, doc.name, doc.namespace) # {}
    BY <1>1, ShownDocument
  <2>2. MergedDocument(activations, doc.name, doc.namespace).compatibility.stability =
          IF saying = {} THEN "experimental"
          ELSE (CHOOSE d \in saying : \A e \in saying :
                  ~Precedes(d.provenance, e.provenance)).compatibility.stability
    BY <2>1, CompatibilityOfMerge
  <2>3. doc.compatibility.stability =
          IF saying = {} THEN "experimental"
          ELSE (CHOOSE d \in saying : \A e \in saying :
                  ~Precedes(d.provenance, e.provenance)).compatibility.stability
    BY <2>1, <2>2, Zenon
  <2> QED
    BY <2>3, Zenon DEF CompatibilityIsLastWord
<1> QED
  BY <1>1, AnswersAreOfTheFiles, PTL

\* Its provenance starts with the document that has the last word, names what it is made of
\* and nothing else, and goes down the layers.
THEOREM ProvenanceNamesAll == Spec => []ProvenanceIsComplete
<1>1. ASSUME TypeOK, AnswerInv
      PROVE  ProvenanceIsComplete
  <2> SUFFICES ASSUME Kind = "explain"
               PROVE  ProvenanceIsComplete
    BY DEF ProvenanceIsComplete
  <2> DEFINE doc  == answer.document
             made == {d.provenance : d \in Documents(activations, doc.name, doc.namespace)}
             prov == MergedDocument(activations, doc.name, doc.namespace).provenance
  <2>1. /\ activations \in Seq(Activations)
        /\ doc = MergedDocument(activations, doc.name, doc.namespace)
        /\ Documents(activations, doc.name, doc.namespace) # {}
    BY <1>1, ShownDocument
  <2>2. /\ ToSet(prov) = made
        /\ \A p \in made : ~Precedes(prov[1], p)
        /\ \A i, j \in DOMAIN prov : i < j =>
              LayerPriority(prov[i].layer) >= LayerPriority(prov[j].layer)
    BY <2>1, ProvenanceOfMerge
  <2>3. doc.provenance = prov
    BY <2>1, Zenon
  <2> HIDE DEF prov
  <2> QED
    BY <2>2, <2>3 DEF ProvenanceIsComplete
<1> QED
  BY <1>1, AnswersAreOfTheFiles, PTL

\* The versions that are read here as numbers have at most three parts, each below 100.
ShortVersions ==
    /\ \A v \in Targets : Short(v)
    /\ \A m \in Manifests : \A i \in DOMAIN m.core : Short(m.core[i].version)

\* For such versions: a plan blocks exactly the packs that want a capability the core has
\* not, or a comparison of whose range does not hold of the numbers.
THEOREM PlansCompareNumbers == ASSUME ShortVersions PROVE Spec => []RangesCompareNumbers
<1>1. ASSUME TypeOK, AnswerInv
      PROVE  RangesCompareNumbers
  <2> SUFFICES ASSUME calm, Kind = "plan"
               PROVE  answer.blocked =
                        {m \in manifests :
                            \/ ~(m.requires \subseteq Capabilities)
                            \/ \E i \in DOMAIN m.core : ~Compares(answer.target, m.core[i])}
    BY DEF RangesCompareNumbers
  <2> DEFINE target == answer.target
  <2>1. manifests \subseteq Manifests
    BY <1>1 DEF TypeOK
  <2>2. answer = PlanFor(manifests, core, target) /\ target \in Targets /\ answer.kind = "plan"
    BY <1>1 DEF AnswerInv, Kind
  <2>3. target \in Version /\ Short(target)
    <3>1. \A r \in Requests : r.op = "plan" => r.target \in Version \cup {Unset}
      BY RequestTypes
    <3>2. Targets \subseteq Version
      BY <3>1, HealthAssumption DEF Targets
    <3> QED
      BY <2>2, <3>2 DEF ShortVersions
  <2>4. /\ answer.blocked = WithDisposition(manifests, core, target, "blocked")
        /\ ~PlanRaises(manifests, target)
    BY <2>2, PlanKind
  <2> HIDE DEF target
  <2>5. ASSUME NEW m \in manifests
        PROVE  Disposition(m, core, target) = "blocked" <=>
                  \/ ~(m.requires \subseteq Capabilities)
                  \/ \E i \in DOMAIN m.core : ~Compares(target, m.core[i])
    <3>1. m.core \in Seq(Comparison) /\ \A i \in DOMAIN m.core : Short(m.core[i].version)
      BY <2>1, ManifestsAssumption DEF Manifest, ShortVersions
    <3>2. ~RangeRaises(target, m.core)
      BY <2>4 DEF PlanRaises
    <3>3. ~SatisfiesRange(target, m.core) <=> \E i \in DOMAIN m.core : ~Compares(target, m.core[i])
      BY <2>3, <3>1, <3>2, RangeCompares
    <3>4. Disposition(m, core, target) = "blocked" <=> Blocked(m, core, target)
      BY DEF Disposition
    <3> QED
      BY <3>3, <3>4 DEF Blocked
  <2>6. answer.blocked = {m \in manifests :
                            \/ ~(m.requires \subseteq Capabilities)
                            \/ \E i \in DOMAIN m.core : ~Compares(target, m.core[i])}
    BY <2>4, <2>5 DEF WithDisposition
  <2> QED
    BY <2>6 DEF target
<1> QED
  BY <1>1, AnswersAreOfTheFiles, PTL

\* What a plan says is blocked is what validate and doctor call incompatible once that core
\* is installed, if the manifests are still the same.
THEOREM PlansForetell == Spec => []PlanForetells
<1>1. ASSUME TypeOK, AnswerInv
      PROVE  PlanForetells
  <2> SUFFICES ASSUME forecast # None, calm, Kind \in {"validate", "doctor"},
                      forecast.target = core
               PROVE  Incompatible(answer) = forecast.blocked
    BY Zenon DEF PlanForetells, Incompatible
  <2>1. activations \in Seq(Activations) /\ manifests \in SUBSET Manifests
    BY <1>1 DEF TypeOK
  <2>2. MadeReport(Kind, manifests, activations, core, answer)
    BY <1>1 DEF AnswerInv, Kind, Reports, MadeReport
  <2>3. forecast.blocked = WithDisposition(manifests, core, core, "blocked")
    BY <1>1 DEF AnswerInv
  <2>4. Kind \in Reports /\ Kind # "status"
    BY DEF Reports
  <2>5. Incompatible(answer) = WithDisposition(manifests, core, core, "blocked")
    BY <2>1, <2>2, <2>4, IncompatibleAreBlocked
  <2> QED
    BY <2>3, <2>5
<1> QED
  BY <1>1, AnswersAreOfTheFiles, PTL

=============================================================================
