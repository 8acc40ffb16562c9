--------------------------- MODULE CatalogProofs ----------------------------
(***************************************************************************)
(* Proofs about Catalog for any catalog, vocabulary, queries and settings: *)
(* turning pages shows nothing twice and misses nothing, and what is shown *)
(* is what it says.                                                        *)
(***************************************************************************)
EXTENDS Catalog, SequenceTheorems, FiniteSetTheorems, WellFoundedInduction, TLAPS

(* Rows in order.  A family of keys is lists of numbers of one length, and  *)
(* the last number of a key belongs to no other.                            *)
Keyed(key) ==
    /\ IsFiniteSet(DOMAIN key)
    /\ \A p \in DOMAIN key : key[p] \in Seq(Int) /\ Len(key[p]) >= 1
    /\ \A p, q \in DOMAIN key : Len(key[p]) = Len(key[q])
    /\ \A p, q \in DOMAIN key : key[p][Len(key[p])] = key[q][Len(key[q])] => p = q

(* Every set of numbers that has an element has a least one. *)
LEMMA LeastIs == ASSUME NEW S, S \subseteq Nat, S # {}
                 PROVE  \E i \in S : \A j \in S : i <= j
<1>1. PICK i \in S : \A j \in S : ~(<<j, i>> \in OpToRel(<, Nat))
  BY NatLessThanWellFounded, WFMin
<1>2. ASSUME NEW j \in S PROVE i <= j
  <2>1. ~(j < i)
    BY <1>1 DEF OpToRel
  <2>. QED
    BY <2>1
<1>. QED
  BY <1>2

LEMMA AboveEither ==
    ASSUME NEW a \in Seq(Int), NEW b \in Seq(Int), Len(a) = Len(b), NEW n \in 1..Len(a), a[n] # b[n]
    PROVE  Above(a, b) \/ Above(b, a)
<1>. DEFINE D == {i \in 1..Len(a) : a[i] # b[i]}
<1>1. PICK i \in D : \A j \in D : i <= j
  <2>1. n \in D /\ D \subseteq Nat
    OBVIOUS
  <2>. HIDE DEF D
  <2>. QED
    BY <2>1, LeastIs
<1>2. i \in 1..Len(a) /\ a[i] # b[i] /\ i \in Nat
  OBVIOUS
<1>3. ASSUME NEW j \in 1..(i - 1) PROVE a[j] = b[j]
  <2>1. j \in 1..Len(a) /\ j < i
    BY <1>2
  <2>. QED
    BY <1>1, <2>1
<1>4. a[i] \in Int /\ b[i] \in Int /\ DOMAIN a = 1..Len(a) /\ DOMAIN b = 1..Len(b)
  BY <1>2
<1>5. a[i] > b[i] \/ b[i] > a[i]
  BY <1>2, <1>4
<1>. QED
  BY <1>2, <1>3, <1>4, <1>5 DEF Above

LEMMA AboveIrreflexive == ASSUME NEW a \in Seq(Int) PROVE ~Above(a, a)
<1>. SUFFICES ASSUME NEW i \in DOMAIN a, a[i] > a[i] PROVE FALSE
  BY DEF Above
<1>1. a[i] \in Int
  OBVIOUS
<1>. QED
  BY <1>1

LEMMA AboveTransitive ==
    ASSUME NEW a \in Seq(Int), NEW b \in Seq(Int), NEW c \in Seq(Int),
           Len(a) = Len(b), Len(b) = Len(c), Above(a, b), Above(b, c)
    PROVE  Above(a, c)
<1>1. PICK i \in DOMAIN a : a[i] > b[i] /\ \A j \in 1..(i - 1) : a[j] = b[j]
  BY DEF Above
<1>2. PICK k \in DOMAIN b : b[k] > c[k] /\ \A j \in 1..(k - 1) : b[j] = c[j]
  BY DEF Above
<1>3. i \in 1..Len(a) /\ k \in 1..Len(a) /\ DOMAIN a = 1..Len(a)
  OBVIOUS
<1>4. \A j \in 1..Len(a) : a[j] \in Int /\ b[j] \in Int /\ c[j] \in Int
  OBVIOUS
<1>5. CASE i < k
  <2>1. a[i] > c[i]
    <3>1. i \in 1..(k - 1)
      BY <1>3, <1>5
    <3>2. b[i] = c[i]
      BY <1>1, <1>2, <3>1, Zenon
    <3>. QED
      BY <1>1, <1>2, <1>3, <1>4, <3>2
  <2>2. ASSUME NEW j \in 1..(i - 1) PROVE a[j] = c[j]
    <3>1. j \in 1..(k - 1)
      BY <1>3, <1>5
    <3>. QED
      BY <1>1, <1>2, <3>1
  <2>. QED
    BY <1>3, <2>1, <2>2, Zenon DEF Above
<1>6. CASE k < i
  <2>1. a[k] > c[k]
    <3>1. k \in 1..(i - 1)
      BY <1>3, <1>6
    <3>2. a[k] = b[k]
      BY <1>1, <1>2, <3>1, Zenon
    <3>. QED
      BY <1>1, <1>2, <1>3, <1>4, <3>2
  <2>2. ASSUME NEW j \in 1..(k - 1) PROVE a[j] = c[j]
    <3>1. j \in 1..(i - 1)
      BY <1>3, <1>6
    <3>. QED
      BY <1>1, <1>2, <3>1
  <2>. QED
    BY <1>3, <2>1, <2>2, Zenon DEF Above
<1>7. CASE k = i
  <2>1. a[k] > c[k]
    BY <1>1, <1>2, <1>3, <1>4, <1>7
  <2>2. ASSUME NEW j \in 1..(k - 1) PROVE a[j] = c[j]
    BY <1>1, <1>2, <1>7
  <2>. QED
    BY <1>3, <2>1, <2>2, Zenon DEF Above
<1>. QED
  BY <1>3, <1>5, <1>6, <1>7

(* How many stand before. *)
Before(key, p) == {q \in DOMAIN key : Above(key[q], key[p])}

LEMMA OneIsAbove ==
    ASSUME NEW key, Keyed(key), NEW p \in DOMAIN key, NEW q \in DOMAIN key, p # q
    PROVE  Above(key[p], key[q]) \/ Above(key[q], key[p])
<1>1. key[p] \in Seq(Int) /\ key[q] \in Seq(Int) /\ Len(key[p]) = Len(key[q])
  BY DEF Keyed
<1>2. Len(key[p]) \in 1..Len(key[p]) /\ key[p][Len(key[p])] # key[q][Len(key[p])]
  BY <1>1 DEF Keyed
<1>. QED
  BY <1>1, <1>2, AboveEither

LEMMA BeforeIs ==
    ASSUME NEW key, Keyed(key), NEW p \in DOMAIN key
    PROVE  /\ IsFiniteSet(Before(key, p)) /\ p \notin Before(key, p)
           /\ Cardinality(Before(key, p)) \in 0..(Cardinality(DOMAIN key) - 1)
           /\ Cardinality(DOMAIN key) \in Nat
<1>1. p \notin Before(key, p)
  BY AboveIrreflexive DEF Before, Keyed
<1>2. IsFiniteSet(DOMAIN key) /\ Before(key, p) \subseteq DOMAIN key \ {p}
  BY <1>1 DEF Before, Keyed
<1>3. IsFiniteSet(DOMAIN key \ {p}) /\ Cardinality(DOMAIN key \ {p}) = Cardinality(DOMAIN key) - 1
  BY <1>2, FS_RemoveElement
<1>4. IsFiniteSet(Before(key, p)) /\ Cardinality(Before(key, p)) <= Cardinality(DOMAIN key \ {p})
  BY <1>2, <1>3, FS_Subset
<1>5. Cardinality(DOMAIN key) \in Nat /\ Cardinality(Before(key, p)) \in Nat
  BY <1>2, <1>4, FS_CardinalityType
<1>. QED
  BY <1>1, <1>3, <1>4, <1>5

LEMMA BeforeGrows ==
    ASSUME NEW key, Keyed(key), NEW p \in DOMAIN key, NEW q \in DOMAIN key, Above(key[p], key[q])
    PROVE  Cardinality(Before(key, p)) < Cardinality(Before(key, q))
<1>1. ASSUME NEW r \in Before(key, p) PROVE r \in Before(key, q)
  <2>1. r \in DOMAIN key /\ Above(key[r], key[p])
    BY DEF Before
  <2>2. /\ key[r] \in Seq(Int) /\ key[p] \in Seq(Int) /\ key[q] \in Seq(Int)
        /\ Len(key[r]) = Len(key[p]) /\ Len(key[p]) = Len(key[q])
    BY <2>1 DEF Keyed
  <2>3. Above(key[r], key[q])
    BY <2>1, <2>2, AboveTransitive
  <2>. QED
    BY <2>1, <2>3 DEF Before
<1>2. p \in Before(key, q)
  BY DEF Before
<1>. DEFINE A == Before(key, p)
            B == Before(key, q)
<1>3. A \cup {p} \subseteq B /\ p \notin A /\ IsFiniteSet(A) /\ IsFiniteSet(B)
  BY <1>1, <1>2, BeforeIs
<1>. HIDE DEF A, B
<1>4. Cardinality(A \cup {p}) = Cardinality(A) + 1 /\ Cardinality(A \cup {p}) <= Cardinality(B)
  BY <1>3, FS_AddElement, FS_Subset
<1>5. Cardinality(A) \in Nat /\ Cardinality(B) \in Nat
  BY <1>3, FS_CardinalityType
<1>6. Cardinality(A) < Cardinality(B)
  BY <1>4, <1>5
<1>. QED
  BY <1>6 DEF A, B

(* Every place is taken. *)
LEMMA PlacesTaken ==
    ASSUME NEW key, Keyed(key), NEW i \in 1..Cardinality(DOMAIN key)
    PROVE  \E p \in DOMAIN key : Cardinality(Before(key, p)) = i - 1
<1>. DEFINE S == DOMAIN key
            n == Cardinality(S)
            place == [p \in S |-> Cardinality(Before(key, p))]
<1>1. IsFiniteSet(S) /\ n \in Nat
  BY FS_CardinalityType DEF Keyed
<1>2. place \in [S -> 0..(n - 1)]
  BY BeforeIs
<1>3. ASSUME NEW p \in S, NEW q \in S, place[p] = place[q] PROVE p = q
  <2>. SUFFICES ASSUME p # q PROVE FALSE
    OBVIOUS
  <2>1. place[p] < place[q] \/ place[q] < place[p]
    BY OneIsAbove, BeforeGrows
  <2>2. place[p] \in Nat /\ place[q] \in Nat
    BY <1>2
  <2>. HIDE DEF place
  <2>. QED
    BY <1>3, <2>1, <2>2
<1>. HIDE DEF place
<1>4. place \in Injection(S, 0..(n - 1))
  BY <1>2, <1>3 DEF Injection, IsInjective
<1>5. IsFiniteSet(0..(n - 1)) /\ Cardinality(0..(n - 1)) = n
  <2>. HIDE DEF n
  <2>1. n - 1 \in Int /\ (0 > n - 1 => n = 0)
    BY <1>1
  <2>2. IsFiniteSet(0..(n - 1)) /\ Cardinality(0..(n - 1)) = IF 0 > n - 1 THEN 0 ELSE (n - 1) - 0 + 1
    BY <2>1, FS_Interval
  <2>. QED
    BY <1>1, <2>1, <2>2
<1>6. place \in Surjection(S, 0..(n - 1))
  BY <1>4, <1>5, FS_Injection
<1>7. i - 1 \in 0..(n - 1)
  BY <1>1
<1>8. PICK p \in S : place[p] = i - 1
  BY <1>6, <1>7 DEF Surjection
<1>. QED
  BY <1>8 DEF place

(* The rows in order: all of them, each once, and the one above first. *)
LEMMA OrderedIs ==
    ASSUME NEW key, Keyed(key)
    PROVE  /\ Ordered(key) \in [1..Cardinality(DOMAIN key) -> DOMAIN key]
           /\ Cardinality(DOMAIN key) \in Nat
           /\ \A p \in DOMAIN key : \E i \in 1..Cardinality(DOMAIN key) : Ordered(key)[i] = p
           /\ \A i, j \in 1..Cardinality(DOMAIN key) :
                  i < j => Above(key[Ordered(key)[i]], key[Ordered(key)[j]])
           /\ \A i, j \in 1..Cardinality(DOMAIN key) :
                  Ordered(key)[i] = Ordered(key)[j] => i = j
           /\ \A i \in 1..Cardinality(DOMAIN key) : Cardinality(Before(key, Ordered(key)[i])) = i - 1
<1>. DEFINE n == Cardinality(DOMAIN key)
            r == Ordered(key)
<1>1. n \in Nat
  BY FS_CardinalityType DEF Keyed
<1>2. r = [i \in 1..n |-> CHOOSE p \in DOMAIN key : Cardinality(Before(key, p)) = i - 1]
  BY DEF Ordered, Before
<1>3. ASSUME NEW i \in 1..n
      PROVE  r[i] \in DOMAIN key /\ Cardinality(Before(key, r[i])) = i - 1
  <2>1. \E p \in DOMAIN key : Cardinality(Before(key, p)) = i - 1
    BY PlacesTaken
  <2>2. r[i] = CHOOSE p \in DOMAIN key : Cardinality(Before(key, p)) = i - 1
    BY <1>2
  <2>. QED
    BY <2>1, <2>2
<1>. HIDE DEF r
<1>4. r \in [1..n -> DOMAIN key]
  BY <1>2, <1>3
<1>5. ASSUME NEW i \in 1..n, NEW j \in 1..n, r[i] = r[j] PROVE i = j
  <2>1. i - 1 = j - 1
    BY <1>3, <1>5
  <2>. QED
    BY <2>1
<1>6. ASSUME NEW p \in DOMAIN key PROVE \E i \in 1..n : r[i] = p
  <2>. DEFINE i == Cardinality(Before(key, p)) + 1
  <2>1. i \in 1..n /\ Cardinality(Before(key, p)) = i - 1
    BY <1>1, BeforeIs
  <2>2. r[i] = p
    <3>1. r[i] \in DOMAIN key /\ Cardinality(Before(key, r[i])) = Cardinality(Before(key, p))
      BY <1>3, <2>1
    <3>2. ASSUME r[i] # p PROVE FALSE
      <4>1. /\ Cardinality(Before(key, r[i])) \in Nat
            /\ \/ Cardinality(Before(key, p)) < Cardinality(Before(key, r[i]))
               \/ Cardinality(Before(key, r[i])) < Cardinality(Before(key, p))
        BY <3>1, <3>2, OneIsAbove, BeforeGrows, BeforeIs
      <4>. QED
        BY <3>1, <4>1
    <3>. QED
      BY <3>2
  <2>. QED
    BY <2>1, <2>2
<1>7. ASSUME NEW i \in 1..n, NEW j \in 1..n, i < j PROVE Above(key[r[i]], key[r[j]])
  <2>1. r[i] \in DOMAIN key /\ r[j] \in DOMAIN key /\ r[i] # r[j]
    BY <1>3, <1>5, <1>7
  <2>2. ASSUME Above(key[r[j]], key[r[i]]) PROVE FALSE
    <3>1. Cardinality(Before(key, r[j])) < Cardinality(Before(key, r[i]))
      BY <2>1, <2>2, BeforeGrows
    <3>2. j - 1 < i - 1
      BY <1>3, <3>1
    <3>. QED
      BY <1>7, <3>2
  <2>. QED
    BY <2>1, <2>2, OneIsAbove
<1>. QED
  BY <1>1, <1>3, <1>4, <1>5, <1>6, <1>7 DEF r

-----------------------------------------------------------------------------
(* Lists that keep the order of another, and lists of different things.     *)
Follows(b, a) ==
    /\ \A i \in 1..Len(b) : \E k \in 1..Len(a) : b[i] = a[k]
    /\ \A i, j \in 1..Len(b) : i < j =>
           \E k, m \in 1..Len(a) : k < m /\ b[i] = a[k] /\ b[j] = a[m]
Once(a) == \A i, j \in 1..Len(a) : a[i] = a[j] => i = j

LEMMA FollowsTransitive ==
    ASSUME NEW a, NEW b, NEW c, Follows(c, b), Follows(b, a) PROVE Follows(c, a)
<1>1. ASSUME NEW i \in 1..Len(c) PROVE \E k \in 1..Len(a) : c[i] = a[k]
  <2>1. PICK k \in 1..Len(b) : c[i] = b[k]
    BY DEF Follows
  <2>. QED
    BY <2>1 DEF Follows
<1>2. ASSUME NEW i \in 1..Len(c), NEW j \in 1..Len(c), i < j
      PROVE  \E k, m \in 1..Len(a) : k < m /\ c[i] = a[k] /\ c[j] = a[m]
  <2>1. PICK k \in 1..Len(b), m \in 1..Len(b) : k < m /\ c[i] = b[k] /\ c[j] = b[m]
    BY <1>2 DEF Follows
  <2>2. PICK x \in 1..Len(a), y \in 1..Len(a) : x < y /\ b[k] = a[x] /\ b[m] = a[y]
    BY <2>1 DEF Follows
  <2>. QED
    BY <2>1, <2>2
<1>. QED
  BY <1>1, <1>2 DEF Follows

LEMMA FollowsOnce ==
    ASSUME NEW T, NEW a \in Seq(T), NEW b \in Seq(T), Follows(b, a), Once(a) PROVE Once(b)
<1>1. ASSUME NEW i \in 1..Len(b), NEW j \in 1..Len(b), i < j PROVE b[i] # b[j]
  <2>1. PICK k \in 1..Len(a), m \in 1..Len(a) : k < m /\ b[i] = a[k] /\ b[j] = a[m]
    BY <1>1 DEF Follows
  <2>. QED
    BY <2>1 DEF Once
<1>2. ASSUME NEW i \in 1..Len(b), NEW j \in 1..Len(b), b[i] = b[j] PROVE i = j
  <2>1. i \in Nat /\ j \in Nat
    OBVIOUS
  <2>2. ~(i < j) /\ ~(j < i)
    BY <1>1, <1>2
  <2>. QED
    BY <2>1, <2>2
<1>. QED
  BY <1>2 DEF Once

LEMMA PartFollows ==
    ASSUME NEW T, NEW a \in Seq(T), NEW m \in Nat \ {0}, NEW n \in Int, n <= Len(a)
    PROVE  /\ SubSeq(a, m, n) \in Seq(T)
           /\ Len(SubSeq(a, m, n)) = IF m <= n THEN n - m + 1 ELSE 0
           /\ \A i \in 1..Len(SubSeq(a, m, n)) : SubSeq(a, m, n)[i] = a[m + i - 1]
           /\ Follows(SubSeq(a, m, n), a)
<1>. DEFINE b == SubSeq(a, m, n)
<1>1. \A i \in m..n : a[i] \in T
  OBVIOUS
<1>2. /\ b \in Seq(T)
      /\ Len(b) = IF m <= n THEN n - m + 1 ELSE 0
      /\ \A i \in 1..(n - m + 1) : b[i] = a[m + i - 1]
  BY <1>1, SubSeqProperties
<1>. HIDE DEF b
<1>3. ASSUME NEW i \in 1..Len(b) PROVE b[i] = a[m + i - 1] /\ m + i - 1 \in 1..Len(a)
  <2>1. i \in 1..(n - m + 1)
    BY <1>2
  <2>2. Len(a) \in Nat
    OBVIOUS
  <2>. QED
    BY <1>2, <2>1, <2>2
<1>4. ASSUME NEW i \in 1..Len(b), NEW j \in 1..Len(b), i < j
      PROVE  \E k, l \in 1..Len(a) : k < l /\ b[i] = a[k] /\ b[j] = a[l]
  <2>1. m + i - 1 < m + j - 1
    BY <1>4
  <2>. QED
    BY <1>3, <2>1
<1>5. Follows(b, a)
  BY <1>3, <1>4 DEF Follows
<1>. QED
  BY <1>2, <1>3, <1>5 DEF b

(* Places, in their order. *)
InPlace(I) == [i \in I |-> <<-i>>]
LEMMA InPlaceKeyed ==
    ASSUME NEW I, I \subseteq Nat, IsFiniteSet(I)
    PROVE  /\ Keyed(InPlace(I)) /\ DOMAIN InPlace(I) = I
           /\ \A i, j \in I : Above(InPlace(I)[i], InPlace(I)[j]) <=> i < j
<1>1. ASSUME NEW i \in I
      PROVE  InPlace(I)[i] = <<-i>> /\ <<-i>> \in Seq(Int) /\ Len(<<-i>>) = 1
  BY DEF InPlace
<1>2. ASSUME NEW i \in I, NEW j \in I PROVE Above(<<-i>>, <<-j>>) <=> i < j
  <2>1. i \in Nat /\ j \in Nat /\ DOMAIN <<-i>> = {1} /\ <<-i>>[1] = -i /\ <<-j>>[1] = -j
    OBVIOUS
  <2>2. Above(<<-i>>, <<-j>>) <=> -i > -j /\ \A k \in 1..(1 - 1) : <<-i>>[k] = <<-j>>[k]
    BY <2>1, Zenon DEF Above
  <2>. QED
    BY <2>1, <2>2
<1>3. ASSUME NEW i \in I, NEW j \in I, <<-i>>[1] = <<-j>>[1] PROVE i = j
  BY <1>3
<1>. QED
  BY <1>1, <1>2, <1>3 DEF Keyed, InPlace

LEMMA OnlyIs ==
    ASSUME NEW T, NEW a \in Seq(T), NEW S
    PROVE  /\ Only(a, S) \in Seq(T)
           /\ \A k \in 1..Len(Only(a, S)) : Only(a, S)[k] \in S
           /\ Follows(Only(a, S), a)
           /\ (\A i \in 1..Len(a) : a[i] \in S) => Only(a, S) = a
<1>. DEFINE I == {i \in DOMAIN a : a[i] \in S}
            place == Ordered(InPlace(I))
            n == Cardinality(I)
            b == Only(a, S)
<1>1. I \subseteq 1..Len(a) /\ I \subseteq Nat /\ IsFiniteSet(I)
  <2>1. IsFiniteSet(1..Len(a))
    BY FS_Interval
  <2>2. I \subseteq 1..Len(a) /\ I \subseteq Nat
    OBVIOUS
  <2>. QED
    BY <2>1, <2>2, FS_Subset
<1>2. b = [k \in DOMAIN place |-> a[place[k]]]
  BY DEF Only, InPlace
<1>3. \A i \in I : a[i] \in S /\ a[i] \in T
  OBVIOUS
<1>. HIDE DEF b, I
<1>4. Keyed(InPlace(I)) /\ DOMAIN InPlace(I) = I
  BY <1>1, InPlaceKeyed
<1>5. n \in Nat /\ place \in [1..n -> I]
  BY <1>4, OrderedIs
<1>6. ASSUME NEW k \in 1..n, NEW l \in 1..n, k < l PROVE place[k] < place[l]
  <2>1. Above(InPlace(I)[place[k]], InPlace(I)[place[l]])
    BY <1>4, <1>6, OrderedIs
  <2>. QED
    BY <1>1, <1>5, <2>1, InPlaceKeyed
<1>7. b = [k \in 1..n |-> a[place[k]]]
  BY <1>2, <1>5
<1>8. b \in Seq(T) /\ Len(b) = n
  <2>1. \A k \in 1..n : a[place[k]] \in T
    BY <1>3, <1>5
  <2>. HIDE DEF place, n
  <2>. QED
    BY <1>5, <1>7, <2>1
<1>9. \A k \in 1..n : b[k] \in S /\ b[k] = a[place[k]] /\ place[k] \in 1..Len(a)
  BY <1>1, <1>3, <1>5, <1>7
<1>10. Follows(b, a)
  BY <1>6, <1>8, <1>9 DEF Follows
<1>11. ASSUME \A i \in 1..Len(a) : a[i] \in S PROVE b = a
  <2>1. I = 1..Len(a)
    BY <1>11 DEF I
  <2>2. n = Len(a)
    BY <2>1, FS_Interval
  <2>3. ASSUME NEW k \in 1..n PROVE place[k] = k
    <3>. DEFINE m == place[k]
    <3>1. Cardinality(Before(InPlace(I), m)) = k - 1
      BY <1>4, OrderedIs
    <3>2. m \in I
      BY <1>5
    <3>. HIDE DEF m, place
    <3>3. m \in Nat /\ m >= 1 /\ m <= Len(a) /\ Len(a) \in Nat
      BY <2>1, <3>2
    <3>4. Before(InPlace(I), m) = {i \in I : i < m}
      BY <1>1, <1>4, <3>2, InPlaceKeyed DEF Before
    <3>5. {i \in I : i < m} = 1..(m - 1)
      BY <2>1, <3>3
    <3>6. Cardinality(1..(m - 1)) = IF 1 > m - 1 THEN 0 ELSE (m - 1) - 1 + 1
      BY <3>3, FS_Interval
    <3>7. Cardinality(1..(m - 1)) = m - 1
      BY <3>3, <3>6
    <3>8. m - 1 = k - 1
      BY <3>1, <3>4, <3>5, <3>7
    <3>9. m = k
      BY <3>3, <3>8
    <3>. QED
      BY <3>9 DEF m
  <2>4. \A k \in 1..Len(a) : b[k] = a[k]
    BY <1>9, <2>2, <2>3
  <2>. QED
    BY <1>8, <2>2, <2>4, SeqEqual
<1>. QED
  BY <1>8, <1>9, <1>10, <1>11 DEF b

-----------------------------------------------------------------------------
(* Folds over finite sets (Scale, and the sums of Fuse): the recursion that *)
(* they stand for has a solution.                                           *)
(* Induction over the subsets of a finite set: what a set has whenever its  *)
(* proper subsets have it.                                                  *)
LEMMA SubsetInduction ==
  ASSUME NEW S, IsFiniteSet(S), NEW G,
         \A T \in SUBSET S : (\A U \in SUBSET T : U # T => U \in G) => T \in G
  PROVE  S \in G
<1>. DEFINE Without == (SUBSET S) \ G
<1>1. ASSUME Without # {} PROVE FALSE
  <2>1. Without \subseteq FiniteSubsetsOf(S)
    BY FS_Subset DEF FiniteSubsetsOf
  <2>2. IsWellFoundedOn(StrictSubsetOrdering(S), FiniteSubsetsOf(S))
    BY FS_StrictSubsetOrderingWellFounded
  <2>. HIDE DEF Without
  <2>3. PICK T \in Without : \A U \in Without : ~(<<U, T>> \in StrictSubsetOrdering(S))
    BY <1>1, <2>1, <2>2, WFMin
  <2>. USE DEF Without
  <2>4. ASSUME NEW U \in SUBSET T, U # T PROVE U \in G
    <3>1. <<U, T>> \in StrictSubsetOrdering(S)
      BY <2>4 DEF StrictSubsetOrdering
    <3>. QED
      BY <2>3, <3>1
  <2>. QED
    BY <2>4
<1>. QED
  BY <1>1

AnyOf(s) == CHOOSE x \in s : TRUE

LEMMA AnyOfIs == ASSUME NEW s, s # {} PROVE AnyOf(s) \in s
BY DEF AnyOf

(* What is taken out next is a function of what is left. *)
Picks(pick, S) == \A s \in SUBSET S : s # {} => pick[s] \in s
AnyPick(S) == [s \in SUBSET S |-> AnyOf(s)]

LEMMA AnyPicks == ASSUME NEW S PROVE Picks(AnyPick(S), S) /\ \A s \in SUBSET S : AnyPick(S)[s] = AnyOf(s)
BY AnyOfIs DEF Picks, AnyPick

Folds(pick, base, step, S, g) ==
  g = [s \in SUBSET S |-> IF s = {} THEN base ELSE step[pick[s]][g[s \ {pick[s]}]]]

LEMMA FoldsAt ==
  ASSUME NEW pick, NEW base, NEW step, NEW S, NEW g, Folds(pick, base, step, S, g)
  PROVE  /\ g[{}] = base
         /\ \A s \in SUBSET S : s # {} => g[s] = step[pick[s]][g[s \ {pick[s]}]]
BY DEF Folds

\* Two recursions over two sets agree on the subsets they share.
LEMMA FoldsAgree ==
  ASSUME NEW pick, NEW base, NEW step, NEW A, NEW B, NEW g, NEW h,
         Folds(pick, base, step, A, g), Folds(pick, base, step, B, h),
         NEW S, IsFiniteSet(S), S \subseteq A, S \subseteq B, Picks(pick, S)
  PROVE  g[S] = h[S]
<1>. DEFINE G == {T \in SUBSET S : g[T] = h[T]}
<1>1. ASSUME NEW T \in SUBSET S, \A U \in SUBSET T : U # T => U \in G
      PROVE  T \in G
  <2>0. T \in SUBSET A /\ T \in SUBSET B
    OBVIOUS
  <2>1. CASE T = {}
    <3>1. g[T] = base
      BY <2>0, <2>1, FoldsAt
    <3>2. h[T] = base
      BY <2>0, <2>1, FoldsAt
    <3>. QED
      BY <3>1, <3>2
  <2>2. CASE T # {}
    <3>1. T \ {pick[T]} \in G
      BY <1>1, <2>2 DEF Picks
    <3>. HIDE DEF G
    <3>2. g[T] = step[pick[T]][g[T \ {pick[T]}]]
      BY <2>0, <2>2, Zenon DEF Folds
    <3>3. h[T] = step[pick[T]][h[T \ {pick[T]}]]
      BY <2>0, <2>2, Zenon DEF Folds
    <3>. USE DEF G
    <3>. QED
      BY <3>1, <3>2, <3>3
  <2>. QED
    BY <2>1, <2>2
<1>. HIDE DEF G
<1>2. S \in G
  BY <1>1, SubsetInduction
<1>. QED
  BY <1>2 DEF G

LEMMA FoldsBelow ==
  ASSUME NEW pick, NEW base, NEW step, NEW u, NEW g, Folds(pick, base, step, u, g),
         NEW w, w \subseteq u, NEW h, Folds(pick, base, step, w, h), IsFiniteSet(w), Picks(pick, w)
  PROVE  g[w] = h[w]
<1>1. w \subseteq w
  OBVIOUS
<1>. QED
  BY <1>1, FoldsAgree

\* The recursion has a solution over every finite set.
LEMMA FoldsExists ==
  ASSUME NEW pick, NEW base, NEW step, NEW S, IsFiniteSet(S), Picks(pick, S)
  PROVE  \E g : Folds(pick, base, step, S, g)
<1>. DEFINE G == {T \in SUBSET S : \E g : Folds(pick, base, step, T, g)}
<1>1. ASSUME NEW T \in SUBSET S, \A U \in SUBSET T : U # T => U \in G
      PROVE  T \in G
  <2>. DEFINE I(u) == CHOOSE g : Folds(pick, base, step, u, g)
              V(u) == I(u)[u]
              h == [s \in SUBSET T |-> IF s = {} THEN base
                      ELSE step[pick[s]][V(s \ {pick[s]})]]
  <2>1. ASSUME NEW u \in SUBSET T, u # T
        PROVE  Folds(pick, base, step, u, I(u))
    BY <1>1, <2>1
  <2>2. ASSUME NEW u \in SUBSET T, u # T
        PROVE  V(u) = h[u]
    <3>0. Folds(pick, base, step, u, I(u))
      BY <2>1, <2>2
    <3>. HIDE DEF I
    <3>1. CASE u = {}
      <4>1. u \in SUBSET u /\ h[u] = base
        BY <3>1
      <4>2. I(u)[u] = base
        BY <3>0, <3>1, <4>1, FoldsAt
      <4>. QED
        BY <4>1, <4>2
    <3>2. CASE u # {}
      <4>. DEFINE w == u \ {pick[u]}
      <4>1. w \in SUBSET T /\ w # T /\ w \subseteq u
        BY <3>2 DEF Picks
      <4>2. Folds(pick, base, step, w, I(w))
        BY <2>1, <4>1
      <4>3. IsFiniteSet(w) /\ Picks(pick, w)
        BY <4>1, FS_Subset DEF Picks
      <4>4. I(u)[w] = I(w)[w]
        <5>. HIDE DEF w
        <5>. QED
          BY <3>0, <4>1, <4>2, <4>3, FoldsBelow
      <4>5. I(u)[u] = step[pick[u]][I(u)[w]]
        BY <3>0, <3>2, Zenon DEF Folds
      <4>6. h[u] = step[pick[u]][V(w)]
        BY <3>2
      <4>. QED
        BY <4>4, <4>5, <4>6
    <3>. QED
      BY <3>1, <3>2
  <2>. HIDE DEF I
  <2>3. ASSUME NEW s \in SUBSET T, s # {}
        PROVE  V(s \ {pick[s]}) = h[s \ {pick[s]}]
    <3>1. s \ {pick[s]} \in SUBSET T /\ s \ {pick[s]} # T
      BY <2>3 DEF Picks
    <3>. HIDE DEF V, h
    <3>. QED
      BY <2>2, <3>1
  <2>. HIDE DEF V
  <2>4. h = [s \in SUBSET T |-> IF s = {} THEN base
                      ELSE step[pick[s]][h[s \ {pick[s]}]]]
    <3>1. ASSUME NEW s \in SUBSET T
          PROVE  h[s] = IF s = {} THEN base ELSE step[pick[s]][h[s \ {pick[s]}]]
      BY <2>3
    <3>2. h = [s \in SUBSET T |-> h[s]]
      OBVIOUS
    <3>. HIDE DEF h
    <3>. QED
      BY <3>1, <3>2, Zenon
  <2>. HIDE DEF h
  <2>5. Folds(pick, base, step, T, h)
    BY <2>4 DEF Folds
  <2>6. \E g : Folds(pick, base, step, T, g)
    BY <2>5
  <2>. HIDE DEF h
  <2>. QED
    BY <2>6
<1>. HIDE DEF G
<1>2. S \in G
  BY <1>1, SubsetInduction
<1>. QED
  BY <1>2 DEF G

(* What every step of a fold keeps, its result is. *)
LEMMA FoldKeeps ==
  ASSUME NEW S, IsFiniteSet(S), NEW T, NEW g, g[{}] \in T,
         \A s \in SUBSET S : s # {} => \E x \in s : g[s \ {x}] \in T => g[s] \in T
  PROVE  g[S] \in T
<1>. DEFINE G == {s \in SUBSET S : g[s] \in T}
<1>1. ASSUME NEW s \in SUBSET S, \A U \in SUBSET s : U # s => U \in G
      PROVE  s \in G
  <2>1. CASE s = {}
    BY <2>1
  <2>2. CASE s # {}
    <3>1. PICK x \in s : g[s \ {x}] \in T => g[s] \in T
      BY <2>2
    <3>2. s \ {x} \in G
      BY <1>1
    <3>. QED
      BY <3>1, <3>2
  <2>. QED
    BY <2>1, <2>2
<1>. HIDE DEF G
<1>2. S \in G
  BY <1>1, SubsetInduction
<1>. QED
  BY <1>2 DEF G

LEMMA ProductsAre == IsFiniteSet(Products) /\ Products \subseteq Nat
<1>1. IsFiniteSet(Products) /\ Products = 1..Cardinality(Products)
  BY CatalogAssumption
<1>2. Cardinality(Products) \in Nat
  BY <1>1, FS_CardinalityType
<1>3. \A p \in 1..Cardinality(Products) : p \in Nat
  BY <1>2
<1>. QED
  BY <1>1, <1>3

LEMMA ScaleType == Scale \in Nat
<1>. DEFINE step == [i \in Products |-> [n \in Nat |-> n * (K + i)]]
            Solves(g) == g = [s \in SUBSET Products |->
                                 IF s = {} THEN 1 ELSE g[s \ {AnyOf(s)}] * (K + AnyOf(s))]
<1>1. K \in Nat /\ IsFiniteSet(Products) /\ Products \subseteq Nat
  BY CatalogAssumption, ProductsAre
<1>3. ASSUME NEW s \in SUBSET Products, s # {}, NEW m \in Nat
      PROVE  /\ step[AnyOf(s)][m] = m * (K + AnyOf(s))
             /\ m * (K + AnyOf(s)) \in Nat
  <2>1. AnyOf(s) \in Products /\ AnyOf(s) \in Nat
    BY <1>1, <1>3, AnyOfIs
  <2>2. K + AnyOf(s) \in Nat
    BY <1>1, <2>1
  <2>3. step[AnyOf(s)] = [n \in Nat |-> n * (K + AnyOf(s))]
    BY <2>1
  <2>. QED
    BY <2>2, <2>3
<1>. HIDE DEF step
<1>2. PICK g : Folds(AnyPick(Products), 1, step, Products, g)
  BY <1>1, AnyPicks, FoldsExists
<1>. DEFINE At(s) == step[AnyOf(s)][g[s \ {AnyOf(s)}]]
<1>a2. g[{}] = 1 /\ \A s \in SUBSET Products : s # {} => g[s] = At(s)
  <2>1. /\ g[{}] = 1
        /\ \A s \in SUBSET Products : s # {} => g[s] = step[AnyPick(Products)[s]][g[s \ {AnyPick(Products)[s]}]]
    BY <1>2, Zenon DEF Folds
  <2>. QED
    BY <2>1, AnyPicks
<1>4. ASSUME NEW s \in SUBSET Products PROVE g[s] \in Nat
  <2>1. IsFiniteSet(s)
    BY <1>1, FS_Subset
  <2>2. g[{}] \in Nat
    BY <1>a2
  <2>3. ASSUME NEW u \in SUBSET s, u # {}, g[u \ {AnyOf(u)}] \in Nat PROVE g[u] \in Nat
    <3>1. u \in SUBSET Products /\ g[u] = step[AnyOf(u)][g[u \ {AnyOf(u)}]]
      BY <1>a2, <2>3
    <3>. QED
      BY <1>3, <2>3, <3>1
  <2>4. \A u \in SUBSET s : u # {} => \E x \in u : g[u \ {x}] \in Nat => g[u] \in Nat
    BY <2>3, AnyOfIs
  <2>. QED
    BY <2>1, <2>2, <2>4, FoldKeeps
<1>5. Solves(g)
  <2>1. g = [s \in SUBSET Products |-> g[s]]
    BY <1>2 DEF Folds
  <2>2. ASSUME NEW s \in SUBSET Products
        PROVE  g[s] = IF s = {} THEN 1 ELSE g[s \ {AnyOf(s)}] * (K + AnyOf(s))
    <3>1. CASE s = {}
      BY <1>a2, <3>1
    <3>2. CASE s # {}
      <4>1. g[s] = step[AnyOf(s)][g[s \ {AnyOf(s)}]]
        BY <1>a2, <3>2
      <4>2. g[s \ {AnyOf(s)}] \in Nat
        BY <1>4
      <4>. QED
        BY <1>3, <3>2, <4>1, <4>2
    <3>. QED
      BY <3>1, <3>2
  <2>. QED
    BY <2>1, <2>2, Zenon
<1>. DEFINE h == CHOOSE h : Solves(h)
<1>6. Scale = h[Products]
  BY DEF Scale, FoldSet, MapThenFoldSet, AnyOf
<1>7. Solves(h)
  BY <1>5
<1>. HIDE DEF h
<1>8. ASSUME NEW u \in SUBSET Products, u # {}, h[u \ {AnyOf(u)}] \in Nat PROVE h[u] \in Nat
  <2>1. h[u] = h[u \ {AnyOf(u)}] * (K + AnyOf(u))
    BY <1>7, <1>8
  <2>. QED
    BY <1>3, <1>8, <2>1
<1>9. h[{}] \in Nat
  BY <1>7
<1>10. \A u \in SUBSET Products : u # {} => \E x \in u : h[u \ {x}] \in Nat => h[u] \in Nat
  BY <1>8, AnyOfIs
<1>. QED
  BY <1>1, <1>6, <1>9, <1>10, FoldKeeps

(* Scores are numbers. *)
LegNames == {"sem", "lex", "trg"}
LEMMA FuseType ==
    ASSUME NEW of, DOMAIN of = LegNames,
           \A n \in LegNames : \A p \in DOMAIN of[n] : of[n][p] \in Nat,
           NEW p \in DOMAIN Fuse(of)
    PROVE  Fuse(of)[p] \in Int
<1>. DEFINE N == {n \in DOMAIN of : p \in DOMAIN of[n]}
            term(n) == Weights[n] * (Scale \div (K + of[n][p]))
            step == [n \in N |-> [m \in Int |-> term(n) + m]]
            Solves(g) == g = [s \in SUBSET N |->
                                 IF s = {} THEN 0 ELSE term(AnyOf(s)) + g[s \ {AnyOf(s)}]]
<1>1. IsFiniteSet(N) /\ N \subseteq LegNames
  <2>1. IsFiniteSet({"sem"} \cup {"lex"} \cup {"trg"})
    BY FS_Singleton, FS_AddElement
  <2>2. LegNames = {"sem"} \cup {"lex"} \cup {"trg"}
    BY DEF LegNames
  <2>3. IsFiniteSet(LegNames) /\ N \subseteq LegNames
    BY <2>1, <2>2
  <2>. QED
    BY <2>3, FS_Subset
<1>2. ASSUME NEW n \in N PROVE term(n) \in Int
  <2>1. Weights[n] \in Nat /\ K \in Nat \ {0}
    BY <1>1, CatalogAssumption DEF LegNames
  <2>2. of[n][p] \in Nat
    BY <1>1
  <2>. DEFINE d == K + of[n][p]
  <2>3. d \in Nat \ {0}
    BY <2>1, <2>2
  <2>. HIDE DEF d
  <2>4. Scale \div d \in Int
    BY <2>3, ScaleType, Z3
  <2>5. Weights[n] * (Scale \div d) \in Int
    BY <2>1, <2>4
  <2>. QED
    BY <2>5 DEF d
<1>. HIDE DEF term
<1>3. ASSUME NEW s \in SUBSET N, s # {}, NEW m \in Int
      PROVE  /\ step[AnyOf(s)][m] = term(AnyOf(s)) + m
             /\ term(AnyOf(s)) + m \in Int
  <2>1. AnyOf(s) \in N
    BY <1>3, AnyOfIs
  <2>. HIDE DEF N
  <2>2. term(AnyOf(s)) \in Int
    BY <1>2, <2>1
  <2>3. step[AnyOf(s)] = [k \in Int |-> term(AnyOf(s)) + k]
    BY <2>1
  <2>. QED
    BY <2>2, <2>3
<1>. HIDE DEF step, N
<1>4. PICK g : Folds(AnyPick(N), 0, step, N, g)
  BY <1>1, AnyPicks, FoldsExists
<1>. DEFINE At(s) == step[AnyOf(s)][g[s \ {AnyOf(s)}]]
<1>a4. g[{}] = 0 /\ \A s \in SUBSET N : s # {} => g[s] = At(s)
  <2>1. /\ g[{}] = 0
        /\ \A s \in SUBSET N : s # {} => g[s] = step[AnyPick(N)[s]][g[s \ {AnyPick(N)[s]}]]
    BY <1>4, Zenon DEF Folds
  <2>. QED
    BY <2>1, AnyPicks
<1>5. ASSUME NEW s \in SUBSET N PROVE g[s] \in Int
  <2>1. IsFiniteSet(s)
    BY <1>1, FS_Subset
  <2>2. g[{}] \in Int
    BY <1>a4
  <2>3. ASSUME NEW u \in SUBSET s, u # {}, g[u \ {AnyOf(u)}] \in Int PROVE g[u] \in Int
    <3>1. u \in SUBSET N /\ g[u] = step[AnyOf(u)][g[u \ {AnyOf(u)}]]
      BY <1>a4, <2>3
    <3>. QED
      BY <1>3, <2>3, <3>1
  <2>4. \A u \in SUBSET s : u # {} => \E x \in u : g[u \ {x}] \in Int => g[u] \in Int
    BY <2>3, AnyOfIs
  <2>. QED
    BY <2>1, <2>2, <2>4, FoldKeeps
<1>6. Solves(g)
  <2>1. g = [s \in SUBSET N |-> g[s]]
    BY <1>4 DEF Folds
  <2>2. ASSUME NEW s \in SUBSET N
        PROVE  g[s] = IF s = {} THEN 0 ELSE term(AnyOf(s)) + g[s \ {AnyOf(s)}]
    <3>1. CASE s = {}
      BY <1>a4, <3>1
    <3>2. CASE s # {}
      <4>1. g[s] = step[AnyOf(s)][g[s \ {AnyOf(s)}]]
        BY <1>a4, <3>2
      <4>2. g[s \ {AnyOf(s)}] \in Int
        BY <1>5
      <4>. QED
        BY <1>3, <3>2, <4>1, <4>2
    <3>. QED
      BY <3>1, <3>2
  <2>. QED
    BY <2>1, <2>2, Zenon
<1>. DEFINE h == CHOOSE h : Solves(h)
<1>7. Fuse(of)[p] = h[N]
  BY DEF Fuse, MapThenSumSet, MapThenFoldSet, AnyOf, N, term
<1>8. Solves(h)
  BY <1>6
<1>. HIDE DEF h
<1>9. ASSUME NEW u \in SUBSET N, u # {}, h[u \ {AnyOf(u)}] \in Int PROVE h[u] \in Int
  <2>1. h[u] = term(AnyOf(u)) + h[u \ {AnyOf(u)}]
    BY <1>8, <1>9
  <2>. QED
    BY <1>3, <1>9, <2>1
<1>10. h[{}] \in Int
  BY <1>8
<1>11. \A u \in SUBSET N : u # {} => \E x \in u : h[u \ {x}] \in Int => h[u] \in Int
  BY <1>9, AnyOfIs
<1>. QED
  BY <1>1, <1>7, <1>10, <1>11, FoldKeeps

-----------------------------------------------------------------------------
(* The listings: their keys, and what they hold.                            *)
ShopType == shop \in [Products -> [price : Nat, stock : {0, 1}, archived : BOOLEAN]]

LEMMA LegIs ==
    ASSUME NEW name \in LegNames, NEW use, NEW f, NEW s
    PROVE  /\ DOMAIN Leg(name, use, f, s) \subseteq Filtered(f)
           /\ \A p \in DOMAIN Leg(name, use, f, s) : Leg(name, use, f, s)[p] \in Nat
<1>. DEFINE S == {p \in Pool(name, use, f) : Match(name, use, f, s, p) > 0}
            Ahead(q, p) == \/ Match(name, use, f, s, q) > Match(name, use, f, s, p)
                           \/ Match(name, use, f, s, q) = Match(name, use, f, s, p) /\ q < p
            best == {p \in S : Cardinality({q \in S : Ahead(q, p)}) < Candidates[name]}
            Behind(p) == {q \in best : Match(name, use, f, s, q) > Match(name, use, f, s, p)}
<1>1. Leg(name, use, f, s) = [p \in best |-> 1 + Cardinality(Behind(p))]
  BY DEF Leg, Top
<1>2. Pool(name, use, f) \subseteq Filtered(f)
  BY DEF Pool, LegNames
<1>3. best \subseteq Filtered(f) /\ Filtered(f) \subseteq Products
  BY <1>2 DEF Filtered, Active
<1>4. ASSUME NEW p \in best PROVE 1 + Cardinality(Behind(p)) \in Nat
  <2>1. Behind(p) \subseteq Products
    BY <1>3
  <2>. HIDE DEF Behind
  <2>2. Cardinality(Behind(p)) \in Nat
    BY <2>1, ProductsAre, FS_Subset, FS_CardinalityType
  <2>. QED
    BY <2>2
<1>. HIDE DEF best, Behind
<1>. QED
  BY <1>1, <1>3, <1>4

LEMMA FusedIs ==
    ASSUME NEW use, NEW f, NEW s
    PROVE  /\ DOMAIN Fused(use, f, s) \subseteq Filtered(f)
           /\ \A p \in DOMAIN Fused(use, f, s) : Fused(use, f, s)[p] \in Int
<1>. DEFINE of == [name \in LegNames |-> Leg(name, use, f, s)]
            S == {p \in DOMAIN Fuse(of) : Fuse(of)[p] >= Floor}
<1>1. Fused(use, f, s) = [p \in S |-> Fuse(of)[p]]
  BY DEF Fused, RestrictValues, Restrict, LegNames
<1>2. ASSUME NEW p \in DOMAIN Fuse(of) PROVE Fuse(of)[p] \in Int /\ p \in Filtered(f)
  <2>1. PICK name \in LegNames : p \in DOMAIN of[name]
    BY DEF Fuse
  <2>2. p \in Filtered(f)
    BY <2>1, LegIs
  <2>3. \A n \in LegNames : \A q \in DOMAIN of[n] : of[n][q] \in Nat
    BY LegIs
  <2>4. DOMAIN of = LegNames
    OBVIOUS
  <2>. HIDE DEF of
  <2>. QED
    BY <2>2, <2>3, <2>4, FuseType
<1>. HIDE DEF of
<1>. QED
  BY <1>1, <1>2

(* The last number of a key is the product's. *)
KeyLen(sort) == IF sort = "rating" THEN 3 ELSE 2
Mark(sort, p) == IF sort \in {"price_asc", "price_desc", "rating"} THEN -p ELSE p
LEMMA SortKeyIs ==
    ASSUME ShopType, NEW sort, NEW p \in Products
    PROVE  /\ SortKey(sort, p) \in Seq(Int)
           /\ Len(SortKey(sort, p)) = KeyLen(sort)
           /\ SortKey(sort, p)[KeyLen(sort)] = Mark(sort, p)
<1>1. p \in Nat /\ shop[p].price \in Nat /\ Detail[p].rating \in Nat /\ Detail[p].reviews \in Nat
      /\ Detail[p].created \in Nat
  BY ProductsAre, CatalogAssumption DEF ShopType
<1>2. CASE sort = "price_asc"
  BY <1>1, <1>2 DEF SortKey, KeyLen, Mark
<1>3. CASE sort = "price_desc"
  BY <1>1, <1>3 DEF SortKey, KeyLen, Mark
<1>4. CASE sort = "rating"
  BY <1>1, <1>4 DEF SortKey, KeyLen, Mark
<1>5. CASE sort \notin {"price_asc", "price_desc", "rating"}
  BY <1>1, <1>5 DEF SortKey, KeyLen, Mark
<1>. QED
  BY <1>2, <1>3, <1>4, <1>5

LEMMA MarkIs == ASSUME NEW sort, NEW p \in Products, NEW q \in Products, Mark(sort, p) = Mark(sort, q)
                PROVE  p = q
BY ProductsAre DEF Mark

BrowseKeys(f) == [p \in Filtered(f) |-> SortKey(SortBy(f), p)]
LEMMA BrowseKeyed == ASSUME ShopType, NEW f PROVE Keyed(BrowseKeys(f)) /\ DOMAIN BrowseKeys(f) = Filtered(f)
<1>1. Filtered(f) \subseteq Products /\ IsFiniteSet(Filtered(f))
  BY ProductsAre, FS_Subset DEF Filtered, Active
<1>2. ASSUME NEW p \in Filtered(f)
      PROVE  /\ BrowseKeys(f)[p] \in Seq(Int) /\ Len(BrowseKeys(f)[p]) = KeyLen(SortBy(f))
             /\ BrowseKeys(f)[p][KeyLen(SortBy(f))] = Mark(SortBy(f), p)
  BY <1>1, SortKeyIs DEF BrowseKeys
<1>3. DOMAIN BrowseKeys(f) = Filtered(f)
  BY DEF BrowseKeys
<1>4. ASSUME NEW p \in Filtered(f), NEW q \in Filtered(f), Mark(SortBy(f), p) = Mark(SortBy(f), q)
      PROVE  p = q
  BY <1>1, <1>4, MarkIs
<1>5. KeyLen(SortBy(f)) >= 1
  BY DEF KeyLen
<1>. QED
  BY <1>1, <1>2, <1>3, <1>4, <1>5 DEF Keyed

RowKey(score, f, text, p) ==
    <<One(Detail[p].name = text)>> \o
    (IF SortBy(f) = "relevance" THEN Relevance(text, score, p) ELSE SortKey(SortBy(f), p))
RowKeys(score, f, text) == [p \in DOMAIN score |-> RowKey(score, f, text, p)]
RowLen(f) == IF SortBy(f) = "relevance" THEN 7 ELSE 1 + KeyLen(SortBy(f))
RowMark(f, p) == IF SortBy(f) = "relevance" THEN -p ELSE Mark(SortBy(f), p)
LEMMA RowKeyIs ==
    ASSUME ShopType, NEW score, NEW f, NEW text, NEW p \in Products, score[p] \in Int
    PROVE  /\ RowKey(score, f, text, p) \in Seq(Int)
           /\ Len(RowKey(score, f, text, p)) = RowLen(f)
           /\ RowKey(score, f, text, p)[RowLen(f)] = RowMark(f, p)
           /\ RowKey(score, f, text, p)[1] = One(Detail[p].name = text)
           /\ SortBy(f) # "relevance" =>
                  \A i \in 1..KeyLen(SortBy(f)) :
                      RowKey(score, f, text, p)[1 + i] = SortKey(SortBy(f), p)[i]
<1>. DEFINE a == <<One(Detail[p].name = text)>>
            b == IF SortBy(f) = "relevance" THEN Relevance(text, score, p) ELSE SortKey(SortBy(f), p)
            n == IF SortBy(f) = "relevance" THEN 6 ELSE KeyLen(SortBy(f))
<1>1. \A c : One(c) \in Int
  BY DEF One
<1>2. a \in Seq(Int) /\ Len(a) = 1 /\ a[1] = One(Detail[p].name = text)
  BY <1>1
<1>3. b \in Seq(Int) /\ Len(b) = n /\ b[n] = RowMark(f, p) /\ n \in Nat /\ n >= 1
  <2>1. CASE SortBy(f) = "relevance"
    <3>1. /\ p \in Nat /\ Detail[p].rating \in Nat /\ Detail[p].reviews \in Nat
      BY ProductsAre, CatalogAssumption
    <3>2. b = <<score[p], One(Labels[Detail[p].category] = text) + One(Labels[Detail[p].origin] = text),
                One(shop[p].stock > 0), Detail[p].rating, Detail[p].reviews, -p>>
      BY <2>1 DEF Relevance
    <3>3. One(Labels[Detail[p].category] = text) + One(Labels[Detail[p].origin] = text) \in Int
      BY <1>1
    <3>. HIDE DEF b
    <3>4. b \in Seq(Int) /\ Len(b) = 6 /\ b[6] = -p
      BY <1>1, <3>1, <3>2, <3>3
    <3>. QED
      BY <2>1, <3>4 DEF RowMark
  <2>2. CASE SortBy(f) # "relevance"
    BY <2>2, SortKeyIs DEF RowMark, KeyLen
  <2>. QED
    BY <2>1, <2>2
<1>4. RowLen(f) = 1 + n
  BY DEF RowLen
<1>5. RowKey(score, f, text, p) = a \o b
  BY DEF RowKey
<1>. HIDE DEF a, n
<1>6. /\ a \o b \in Seq(Int) /\ Len(a \o b) = 1 + n
      /\ \A i \in 1..(1 + n) : (a \o b)[i] = IF i <= 1 THEN a[i] ELSE b[i - 1]
  <2>. HIDE DEF b
  <2>1. /\ a \o b \in Seq(Int)
        /\ Len(a \o b) = Len(a) + Len(b)
        /\ \A i \in 1..(Len(a) + Len(b)) : (a \o b)[i] = IF i <= Len(a) THEN a[i] ELSE b[i - Len(a)]
    BY <1>2, <1>3, ConcatProperties, Zenon
  <2>. QED
    BY <1>2, <1>3, <2>1
<1>7. (a \o b)[1] = a[1] /\ \A i \in 1..n : (a \o b)[1 + i] = b[i]
  <2>. HIDE DEF b
  <2>1. (a \o b)[1] = a[1]
    BY <1>3, <1>6
  <2>2. ASSUME NEW i \in 1..n PROVE (a \o b)[1 + i] = b[i]
    <3>1. 1 + i \in 1..(1 + n) /\ ~(1 + i <= 1) /\ (1 + i) - 1 = i
      BY <1>3
    <3>. QED
      BY <1>6, <3>1
  <2>. QED
    BY <2>1, <2>2
<1>8. (a \o b)[1 + n] = b[n]
  <2>1. n \in 1..n
    BY <1>3
  <2>. QED
    BY <1>7, <2>1
<1>9. SortBy(f) # "relevance" => n = KeyLen(SortBy(f)) /\ b = SortKey(SortBy(f), p)
  BY DEF n
<1>. HIDE DEF b
<1>. QED
  BY <1>2, <1>3, <1>4, <1>5, <1>6, <1>7, <1>8, <1>9

LEMMA RowsKeyed ==
    ASSUME ShopType, NEW score, DOMAIN score \subseteq Products,
           \A p \in DOMAIN score : score[p] \in Int, NEW f, NEW text
    PROVE  Keyed(RowKeys(score, f, text)) /\ DOMAIN RowKeys(score, f, text) = DOMAIN score
<1>. DEFINE key == RowKeys(score, f, text)
<1>1. IsFiniteSet(DOMAIN score) /\ DOMAIN key = DOMAIN score
  BY ProductsAre, FS_Subset DEF RowKeys
<1>2. ASSUME NEW p \in DOMAIN score
      PROVE  /\ key[p] \in Seq(Int) /\ Len(key[p]) = RowLen(f) /\ key[p][RowLen(f)] = RowMark(f, p)
  BY RowKeyIs DEF RowKeys
<1>3. ASSUME NEW p \in DOMAIN score, NEW q \in DOMAIN score, RowMark(f, p) = RowMark(f, q)
      PROVE  p = q
  <2>1. p \in Products /\ q \in Products /\ p \in Nat /\ q \in Nat
    BY ProductsAre
  <2>. QED
    BY <1>3, <2>1, MarkIs DEF RowMark
<1>4. RowLen(f) >= 1
  BY DEF RowLen, KeyLen
<1>. HIDE DEF key
<1>5. Keyed(key)
  BY <1>1, <1>2, <1>3, <1>4 DEF Keyed
<1>. QED
  BY <1>1, <1>5 DEF key

TextType == asked.text \in Seq(DOMAIN Chars)
LEMMA HitsType == ASSUME TextType, NEW leg, NEW p PROVE Hits(leg, p, asked.text) \in Nat
<1>. DEFINE I == {i \in DOMAIN asked.text : p \in Brings[leg][asked.text[i]]}
<1>1. IsFiniteSet(1..Len(asked.text)) /\ DOMAIN asked.text = 1..Len(asked.text)
  BY FS_Interval DEF TextType
<1>2. IsFiniteSet(I)
  BY <1>1, FS_Subset
<1>. QED
  BY <1>2, FS_CardinalityType DEF Hits

OnSale == {p \in Products : StoreMatches(p)}
StoreKeys == [p \in OnSale |-> StoreKey(p)]
StoreMark(p) == IF StoreSort = "relevance" THEN -p
                ELSE IF StoreSort \in {"price_desc", "rating"} /\ ~asked.tool THEN p
                ELSE Mark(StoreSort, p)
LEMMA StoreKeyIs ==
    ASSUME ShopType, TextType, NEW p \in Products
    PROVE  /\ StoreKey(p) \in Seq(Int)
           /\ Len(StoreKey(p)) = KeyLen(StoreSort)
           /\ StoreKey(p)[KeyLen(StoreSort)] = StoreMark(p)
           /\ StoreSort \in {"price_asc", "price_desc"} => StoreKey(p)[1] = SortKey(StoreSort, p)[1]
<1>. DEFINE sort == StoreSort
<1>1. p \in Nat /\ shop[p].price \in Nat /\ Detail[p].rating \in Nat /\ Detail[p].reviews \in Nat
  BY ProductsAre, CatalogAssumption DEF ShopType
<1>2. Hits("catalog", p, asked.text) \in Nat
  BY HitsType
<1>3. StoreKey(p) = CASE sort = "relevance" -> <<Hits("catalog", p, asked.text), -p>>
                      [] sort = "price_desc" /\ ~asked.tool -> <<shop[p].price, p>>
                      [] sort = "rating" /\ ~asked.tool -> <<Detail[p].rating, Detail[p].reviews, p>>
                      [] OTHER -> SortKey(sort, p)
  BY DEF StoreKey
<1>4. StoreMark(p) = IF sort = "relevance" THEN -p
                     ELSE IF sort \in {"price_desc", "rating"} /\ ~asked.tool THEN p ELSE Mark(sort, p)
  BY DEF StoreMark
<1>. HIDE DEF sort
<1>5. CASE sort = "relevance"
  <2>1. StoreKey(p) = <<Hits("catalog", p, asked.text), -p>> /\ StoreMark(p) = -p /\ KeyLen(sort) = 2
    BY <1>3, <1>4, <1>5 DEF KeyLen
  <2>. QED
    BY <1>1, <1>2, <1>5, <2>1 DEF sort
<1>6. CASE sort = "price_desc" /\ ~asked.tool
  <2>1. StoreKey(p) = <<shop[p].price, p>> /\ StoreMark(p) = p /\ KeyLen(sort) = 2
    BY <1>3, <1>4, <1>6 DEF KeyLen
  <2>2. SortKey(sort, p)[1] = shop[p].price
    BY <1>6 DEF SortKey
  <2>. QED
    BY <1>1, <2>1, <2>2 DEF sort
<1>7. CASE sort = "rating" /\ ~asked.tool
  <2>1. StoreKey(p) = <<Detail[p].rating, Detail[p].reviews, p>> /\ StoreMark(p) = p /\ KeyLen(sort) = 3
    BY <1>3, <1>4, <1>7 DEF KeyLen
  <2>. QED
    BY <1>1, <1>7, <2>1 DEF sort
<1>8. CASE sort # "relevance" /\ ~(sort \in {"price_desc", "rating"} /\ ~asked.tool)
  <2>1. StoreKey(p) = SortKey(sort, p) /\ StoreMark(p) = Mark(sort, p)
    BY <1>3, <1>4, <1>8
  <2>. QED
    BY <2>1, SortKeyIs DEF sort
<1>. QED
  BY <1>5, <1>6, <1>7, <1>8

LEMMA StoreKeyed == ASSUME ShopType, TextType PROVE Keyed(StoreKeys) /\ DOMAIN StoreKeys = OnSale
<1>1. OnSale \subseteq Products /\ IsFiniteSet(OnSale) /\ DOMAIN StoreKeys = OnSale
  BY ProductsAre, FS_Subset DEF OnSale, StoreKeys
<1>2. ASSUME NEW p \in OnSale
      PROVE  /\ StoreKeys[p] \in Seq(Int) /\ Len(StoreKeys[p]) = KeyLen(StoreSort)
             /\ StoreKeys[p][KeyLen(StoreSort)] = StoreMark(p)
  BY <1>1, StoreKeyIs DEF StoreKeys
<1>3. ASSUME NEW p \in OnSale, NEW q \in OnSale, StoreMark(p) = StoreMark(q) PROVE p = q
  <2>1. p \in Products /\ q \in Products /\ p \in Nat /\ q \in Nat
    BY <1>1, ProductsAre
  <2>. QED
    BY <1>3, <2>1, MarkIs DEF StoreMark
<1>4. KeyLen(StoreSort) >= 1
  BY DEF KeyLen
<1>. QED
  BY <1>1, <1>2, <1>3, <1>4 DEF Keyed

(* A list in order of keys. *)
LEMMA OrderedSeq ==
    ASSUME NEW key, Keyed(key)
    PROVE  /\ Ordered(key) \in Seq(DOMAIN key)
           /\ Len(Ordered(key)) = Cardinality(DOMAIN key) /\ Cardinality(DOMAIN key) \in Nat
           /\ Once(Ordered(key))
           /\ \A i, j \in 1..Len(Ordered(key)) :
                  i < j => Above(key[Ordered(key)[i]], key[Ordered(key)[j]])
<1>. DEFINE r == Ordered(key)
            n == Cardinality(DOMAIN key)
<1>1. n \in Nat /\ r \in [1..n -> DOMAIN key]
  BY OrderedIs
<1>2. /\ \A i, j \in 1..n : i < j => Above(key[r[i]], key[r[j]])
      /\ \A i, j \in 1..n : r[i] = r[j] => i = j
  BY OrderedIs
<1>. HIDE DEF r, n
<1>3. r \in Seq(DOMAIN key) /\ Len(r) = n
  BY <1>1
<1>. QED
  BY <1>1, <1>2, <1>3 DEF r, n, Once

LEMMA AboveFirst ==
    ASSUME NEW a \in Seq(Int), NEW b \in Seq(Int), Len(a) >= 1, Len(a) = Len(b), Above(a, b)
    PROVE  a[1] >= b[1]
<1>1. PICK i \in DOMAIN a : a[i] > b[i] /\ \A j \in 1..(i - 1) : a[j] = b[j]
  BY DEF Above
<1>2. a[1] \in Int /\ b[1] \in Int /\ i \in Nat /\ i >= 1 /\ DOMAIN a = 1..Len(a)
  OBVIOUS
<1>3. CASE i = 1
  BY <1>1, <1>2, <1>3
<1>4. CASE i > 1
  <2>1. 1 \in 1..(i - 1)
    BY <1>2, <1>4
  <2>. QED
    BY <1>1, <1>2, <2>1
<1>. QED
  BY <1>2, <1>3, <1>4

LEMMA AboveSecond ==
    ASSUME NEW a \in Seq(Int), NEW b \in Seq(Int), Len(a) >= 2, Len(a) = Len(b), Above(a, b), a[1] = b[1]
    PROVE  a[2] >= b[2]
<1>1. PICK i \in DOMAIN a : a[i] > b[i] /\ \A j \in 1..(i - 1) : a[j] = b[j]
  BY DEF Above
<1>2. /\ a[1] \in Int /\ b[1] \in Int /\ a[2] \in Int /\ b[2] \in Int
      /\ i \in Nat /\ i >= 1 /\ DOMAIN a = 1..Len(a)
  OBVIOUS
<1>3. CASE i = 1
  BY <1>1, <1>2, <1>3
<1>4. CASE i = 2
  BY <1>1, <1>2, <1>4
<1>5. CASE i > 2
  <2>1. 2 \in 1..(i - 1)
    BY <1>2, <1>5
  <2>. QED
    BY <1>1, <1>2, <2>1
<1>. QED
  BY <1>2, <1>3, <1>4, <1>5

(* The products after another in a list that is in order of price, the      *)
(* products of that very name apart.                                        *)
Apart(p) == Detail[p].name = asked.text
PriceOrder(L, sort) ==
    \A i, j \in 1..Len(L) : i < j /\ ~Apart(L[i]) /\ ~Apart(L[j]) =>
        /\ sort = "price_asc" => shop[L[i]].price <= shop[L[j]].price
        /\ sort = "price_desc" => shop[L[i]].price >= shop[L[j]].price
ListOf(L, sort, S) ==
    L \in Seq(S) /\ Len(L) = Cardinality(S) /\ Once(L) /\ PriceOrder(L, sort)

LEMMA PriceFirst ==
    ASSUME ShopType, NEW sort, NEW p \in Products, NEW q \in Products,
           SortKey(sort, p)[1] >= SortKey(sort, q)[1]
    PROVE  /\ sort = "price_asc" => shop[p].price <= shop[q].price
           /\ sort = "price_desc" => shop[p].price >= shop[q].price
<1>1. shop[p].price \in Nat /\ shop[q].price \in Nat
  BY DEF ShopType
<1>2. CASE sort = "price_asc"
  <2>1. SortKey(sort, p)[1] = -shop[p].price /\ SortKey(sort, q)[1] = -shop[q].price
    BY <1>2 DEF SortKey
  <2>. QED
    BY <1>1, <1>2, <2>1
<1>3. CASE sort = "price_desc"
  <2>1. SortKey(sort, p)[1] = shop[p].price /\ SortKey(sort, q)[1] = shop[q].price
    BY <1>3 DEF SortKey
  <2>. QED
    BY <1>1, <1>3, <2>1
<1>. QED
  BY <1>2, <1>3

LEMMA BrowseRowsAre == ASSUME ShopType, NEW f PROVE ListOf(BrowseRows(f), SortBy(f), Filtered(f))
<1>. DEFINE L == BrowseRows(f)
            key == BrowseKeys(f)
<1>1. L = Ordered(key)
  BY DEF BrowseRows, BrowseKeys
<1>2. Keyed(key) /\ DOMAIN key = Filtered(f)
  BY BrowseKeyed
<1>. HIDE DEF L, key
<1>3. /\ L \in Seq(Filtered(f)) /\ Len(L) = Cardinality(Filtered(f)) /\ Once(L)
      /\ \A i, j \in 1..Len(L) : i < j => Above(key[L[i]], key[L[j]])
  BY <1>1, <1>2, OrderedSeq
<1>4. ASSUME NEW i \in 1..Len(L), NEW j \in 1..Len(L), i < j
      PROVE  /\ SortBy(f) = "price_asc" => shop[L[i]].price <= shop[L[j]].price
             /\ SortBy(f) = "price_desc" => shop[L[i]].price >= shop[L[j]].price
  <2>1. L[i] \in Filtered(f) /\ L[j] \in Filtered(f)
    BY <1>3
  <2>2. L[i] \in Products /\ L[j] \in Products
    BY <2>1 DEF Filtered, Active
  <2>3. key[L[i]] = SortKey(SortBy(f), L[i]) /\ key[L[j]] = SortKey(SortBy(f), L[j])
    BY <2>1 DEF key, BrowseKeys
  <2>4. Above(SortKey(SortBy(f), L[i]), SortKey(SortBy(f), L[j]))
    BY <1>3, <1>4, <2>3
  <2>5. SortKey(SortBy(f), L[i])[1] >= SortKey(SortBy(f), L[j])[1]
    BY <2>2, <2>4, SortKeyIs, AboveFirst DEF KeyLen
  <2>. QED
    BY <2>2, <2>5, PriceFirst
<1>5. PriceOrder(L, SortBy(f))
  BY <1>4 DEF PriceOrder
<1>6. ListOf(L, SortBy(f), Filtered(f))
  BY <1>3, <1>5 DEF ListOf
<1>. QED
  BY <1>6 DEF L

LEMMA FusedRowsAre ==
    ASSUME ShopType, NEW use, NEW f, NEW s
    PROVE  ListOf(FusedRows(use, f, asked.text, s), SortBy(f), DOMAIN Fused(use, f, s))
<1>. DEFINE score == Fused(use, f, s)
            S == DOMAIN score
            key == RowKeys(score, f, asked.text)
            L == FusedRows(use, f, asked.text, s)
<1>1. L = Ordered(key)
  BY DEF FusedRows, RowsOf, RowKeys, RowKey
<1>2. S \subseteq Products /\ \A p \in S : score[p] \in Int
  BY FusedIs DEF Filtered, Active
<1>. HIDE DEF score, L
<1>3. Keyed(key) /\ DOMAIN key = S
  BY <1>2, RowsKeyed
<1>4. \A p \in S : key[p] = RowKey(score, f, asked.text, p)
  BY DEF RowKeys
<1>. HIDE DEF key, S
<1>5. /\ L \in Seq(S) /\ Len(L) = Cardinality(S) /\ Once(L)
      /\ \A i, j \in 1..Len(L) : i < j => Above(key[L[i]], key[L[j]])
  BY <1>1, <1>3, OrderedSeq
<1>6. ASSUME NEW i \in 1..Len(L), NEW j \in 1..Len(L), i < j, ~Apart(L[i]), ~Apart(L[j]),
             SortBy(f) # "relevance"
      PROVE  /\ SortBy(f) = "price_asc" => shop[L[i]].price <= shop[L[j]].price
             /\ SortBy(f) = "price_desc" => shop[L[i]].price >= shop[L[j]].price
  <2>. DEFINE p == L[i]
              q == L[j]
              a == RowKey(score, f, asked.text, p)
              b == RowKey(score, f, asked.text, q)
  <2>1. p \in S /\ q \in S
    BY <1>5
  <2>2. p \in Products /\ q \in Products /\ score[p] \in Int /\ score[q] \in Int
    BY <1>2, <2>1
  <2>3. Above(a, b)
    BY <1>4, <1>5, <1>6, <2>1
  <2>. HIDE DEF p, q
  <2>4. /\ a \in Seq(Int) /\ Len(a) = RowLen(f) /\ a[1] = One(Detail[p].name = asked.text)
        /\ a[1 + 1] = SortKey(SortBy(f), p)[1]
    <3>1. 1 \in 1..KeyLen(SortBy(f))
      BY DEF KeyLen
    <3>. QED
      BY <1>6, <2>2, <3>1, RowKeyIs
  <2>5. /\ b \in Seq(Int) /\ Len(b) = RowLen(f) /\ b[1] = One(Detail[q].name = asked.text)
        /\ b[1 + 1] = SortKey(SortBy(f), q)[1]
    <3>1. 1 \in 1..KeyLen(SortBy(f))
      BY DEF KeyLen
    <3>. QED
      BY <1>6, <2>2, <3>1, RowKeyIs
  <2>. HIDE DEF a, b
  <2>6. RowLen(f) >= 2 /\ a[1] = b[1]
    BY <1>6, <2>4, <2>5 DEF RowLen, KeyLen, One, Apart, p, q
  <2>7. a[2] >= b[2]
    BY <2>3, <2>4, <2>5, <2>6, AboveSecond
  <2>8. SortKey(SortBy(f), p)[1] >= SortKey(SortBy(f), q)[1]
    BY <2>4, <2>5, <2>7
  <2>9. /\ SortBy(f) = "price_asc" => shop[p].price <= shop[q].price
        /\ SortBy(f) = "price_desc" => shop[p].price >= shop[q].price
    BY <2>2, <2>8, PriceFirst
  <2>. QED
    BY <2>9 DEF p, q
<1>7. PriceOrder(L, SortBy(f))
  BY <1>6 DEF PriceOrder
<1>8. ListOf(L, SortBy(f), S)
  BY <1>5, <1>7 DEF ListOf
<1>. QED
  BY <1>8 DEF L, S, score

LEMMA StoreRowsAre == ASSUME ShopType, TextType PROVE ListOf(StoreRows, StoreSort, OnSale)
<1>. DEFINE L == StoreRows
            key == StoreKeys
<1>1. L = Ordered(key)
  BY DEF StoreRows, StoreKeys, OnSale
<1>2. Keyed(key) /\ DOMAIN key = OnSale
  BY StoreKeyed
<1>. HIDE DEF L, key
<1>3. /\ L \in Seq(OnSale) /\ Len(L) = Cardinality(OnSale) /\ Once(L)
      /\ \A i, j \in 1..Len(L) : i < j => Above(key[L[i]], key[L[j]])
  BY <1>1, <1>2, OrderedSeq
<1>4. ASSUME NEW i \in 1..Len(L), NEW j \in 1..Len(L), i < j, StoreSort \in {"price_asc", "price_desc"}
      PROVE  /\ StoreSort = "price_asc" => shop[L[i]].price <= shop[L[j]].price
             /\ StoreSort = "price_desc" => shop[L[i]].price >= shop[L[j]].price
  <2>1. L[i] \in OnSale /\ L[j] \in OnSale
    BY <1>3
  <2>2. L[i] \in Products /\ L[j] \in Products
    BY <2>1 DEF OnSale
  <2>3. key[L[i]] = StoreKey(L[i]) /\ key[L[j]] = StoreKey(L[j])
    BY <2>1 DEF key, StoreKeys
  <2>4. Above(StoreKey(L[i]), StoreKey(L[j]))
    BY <1>3, <1>4, <2>3
  <2>5. StoreKey(L[i])[1] >= StoreKey(L[j])[1]
    BY <2>2, <2>4, StoreKeyIs, AboveFirst DEF KeyLen
  <2>6. SortKey(StoreSort, L[i])[1] >= SortKey(StoreSort, L[j])[1]
    BY <1>4, <2>2, <2>5, StoreKeyIs
  <2>. QED
    BY <2>2, <2>6, PriceFirst
<1>5. PriceOrder(L, StoreSort)
  BY <1>4 DEF PriceOrder
<1>6. ListOf(L, StoreSort, OnSale)
  BY <1>3, <1>5 DEF ListOf
<1>. QED
  BY <1>6 DEF L

-----------------------------------------------------------------------------
(* What a request lists, page by page.                                      *)

(* What the text and the choices come to; every page of a search agrees.    *)
Read == Parse(asked.text)
Wanted == Resolve(Read, asked.explicit, asked.ignored)

(* The list that a source pages through, as the catalog now stands.         *)
Empty == <<>>
AiRows(use) ==
    IF Read.semantic = <<>> THEN BrowseRows(Wanted)
    ELSE IF DOMAIN Fused(use, Wanted, Read.semantic) # {}
         THEN FusedRows(use, Wanted, Read.text, Read.semantic)
         ELSE IF HasFilters(Wanted) THEN BrowseRows(Wanted) ELSE Empty
Listing(src) == IF src[1] = "store" THEN StoreRows ELSE AiRows(src[2])
Legs == [semantic : BOOLEAN, documents : BOOLEAN]
Sources == {"store", "ai"} \X Legs

(* Where the page begins and ends, and how much of a list it is the end of. *)
Start == (asked.page - 1) * asked.size
Stop == asked.page * asked.size
Least(a, b) == IF a <= b THEN a ELSE b

(* Different rows of L, all from behind place lo up to place hi.            *)
Among(a, L, lo, hi) ==
    /\ Once(a)
    /\ \A i \in 1..Len(a) : \E j \in 1..Len(L) : lo < j /\ j <= hi /\ a[i] = L[j]

(* The pages so far are whole, when a page is on its way and when it is told. *)
Turned(src) ==
    /\ Len(seen.ids) = Start /\ (Start > 0 => Start <= Len(Listing(src)))
    /\ Among(seen.ids, Listing(src), 0, Start)
Told(src) ==
    /\ Among(seen.ids, Listing(src), 0, Stop)
    /\ answer.dropped = 0 => /\ answer.total = Len(Listing(src))
                             /\ Len(seen.ids) = Least(Stop, Len(Listing(src)))
    /\ answer.dropped > 0 => answer.total < Stop

(* What the AI service is about to answer, given what it found.             *)
RankedFrom(L) ==
    /\ ranked.ids \in Seq(Active) /\ Among(ranked.ids, L, Start, Stop) /\ PriceOrder(ranked.ids, SortBy(Wanted))
    /\ ranked.dropped = 0 => /\ ranked.total = Len(L)
                             /\ Len(ranked.ids) = Len(PageOf(L))
    /\ ranked.dropped > 0 => ranked.total < Stop

(* The types, as far as the proofs need them. *)
Fields == {"text", "blank", "explicit", "size", "tool", "ignored", "page"}
Shape(q) == [f \in Fields |-> q[f]]
AnswerFields == {"ids", "total", "mode", "reason", "reported", "dropped"}
AnswerShape(a) == [f \in AnswerFields |-> a[f]]
AskedType ==
    /\ asked = Shape(asked) /\ TextType /\ asked.size \in Nat \ {0} /\ asked.page \in Nat \ {0}
    /\ asked.ignored \subseteq Names
    /\ \A n \in Names : \A v, w \in asked.explicit[n] : v = w
SeenType ==
    /\ seen \in [ids : Seq(Products), steady : BOOLEAN, sources : SUBSET Sources]
    /\ IsFiniteSet(seen.sources)
FoundType ==
    /\ found = [ids |-> found.ids, total |-> found.total] /\ found.total \in Nat
    /\ found.ids \in Seq(Products) /\ Once(found.ids)
AnswerType(a) ==
    a = AnswerShape(a) /\ {a.dropped, a.total} \subseteq Nat /\ a.ids \in Seq(Products)
Types ==
    /\ ShopType /\ AskedType /\ SeenType /\ FoundType
    /\ legs \in Legs /\ coverage \in Legs
    /\ AnswerType(ranked) /\ AnswerType(answer)

(* What holds whatever happens to the catalog meanwhile. *)
Understood == pc \in {"embed", "count", "page", "browse", "browse_page", "rank", "hydrate"} =>
    intent = Read /\ filters = Wanted /\ (pc \in {"count", "page"} => Read.semantic # <<>>)
Compared ==
    /\ legs.semantic => vector = "there"
    /\ pc \in {"parse", "embed", "count"} => ~legs.semantic
Named == pc = "hydrate" =>
    /\ ranked.mode \in {"hybrid", "hybrid_reranked"} => legs.semantic
    /\ ranked.mode = "lexical" => ranked.reason # "none"
    /\ ranked.mode \notin {"rejected", "failed"}
    /\ ranked.reported = Wanted.reported
Owned == pc \in {"lexical", "lexical_page"} /\ vector # "unreachable" /\ asked.text # <<>> => ~Routing

(* What holds while nothing has changed since the first page. *)
OnTheWay ==
    /\ pc = "page" => found.total = Cardinality(DOMAIN Fused(legs, Wanted, Read.semantic)) /\ found.total > 0
    /\ pc \in {"browse", "browse_page"} => AiRows(legs) = BrowseRows(Wanted)
    /\ pc = "browse_page" => found.total = Cardinality(Filtered(Wanted))
    /\ pc = "rank" => found = [ids |-> PageOf(AiRows(legs)), total |-> Len(AiRows(legs))]
    /\ pc = "hydrate" => RankedFrom(AiRows(legs))
    /\ pc = "lexical_page" => found.total = Len(StoreRows)
History == \A src \in Sources : seen.sources \subseteq {src} =>
    IF pc # "shown" THEN Turned(src)
    ELSE IF answer.mode \in {"rejected", "failed"} THEN answer.total = 0 ELSE Told(src)

PagesInv == Types /\ Understood /\ Compared /\ Named /\ Owned /\ (seen.steady => OnTheWay /\ History)

-----------------------------------------------------------------------------
(* Pages.                                                                   *)
LEMMA MinIs == ASSUME NEW S, S \subseteq Nat, S # {} PROVE Min(S) \in S /\ \A y \in S : Min(S) <= y
BY LeastIs DEF Min

LEMMA MinOfTwo == ASSUME NEW a \in Nat, NEW b \in Nat PROVE Min({a, b}) = Least(a, b)
<1>1. Min({a, b}) \in {a, b} /\ Min({a, b}) <= a /\ Min({a, b}) <= b
  <2>1. {a, b} \subseteq Nat /\ {a, b} # {}
    OBVIOUS
  <2>2. Min({a, b}) \in {a, b} /\ \A y \in {a, b} : Min({a, b}) <= y
    BY <2>1, MinIs
  <2>. QED
    BY <2>2
<1>. QED
  BY <1>1 DEF Least

LEMMA StartStop == ASSUME AskedType PROVE Start \in Nat /\ Stop \in Nat /\ Stop = Start + asked.size /\ Start < Stop
<1>. DEFINE n == asked.page
            s == asked.size
<1>1. n \in Nat \ {0} /\ s \in Nat \ {0}
  BY DEF AskedType
<1>2. Start = (n - 1) * s /\ Stop = n * s
  BY DEF Start, Stop
<1>. HIDE DEF n, s
<1>3. (n - 1) * s \in Nat /\ n * s \in Nat /\ n * s = (n - 1) * s + s
  BY <1>1
<1>4. (n - 1) * s < n * s
  <2>. DEFINE m == (n - 1) * s
              k == n * s
  <2>. HIDE DEF m, k
  <2>1. m \in Nat /\ k = m + s
    BY <1>3 DEF m, k
  <2>2. m < k
    BY <1>1, <2>1
  <2>. QED
    BY <2>2 DEF m, k
<1>. QED
  BY <1>2, <1>3, <1>4 DEF s

LEMMA PageIs ==
    ASSUME AskedType, NEW T, NEW L \in Seq(T), Once(L)
    PROVE  /\ PageOf(L) \in Seq(T) /\ Follows(PageOf(L), L)
           /\ Len(PageOf(L)) = IF Start < Len(L) THEN Least(Stop, Len(L)) - Start ELSE 0
           /\ Among(PageOf(L), L, Start, Stop)
<1>. DEFINE m == Start
            k == Stop
            e == Least(k, Len(L))
            b == PageOf(L)
<1>1. m \in Nat /\ k \in Nat /\ m < k /\ Len(L) \in Nat
  BY StartStop
<1>2. b = SubSeq(L, m + 1, e)
  BY <1>1, MinOfTwo DEF PageOf, Start, Stop
<1>3. e \in Nat /\ e <= Len(L) /\ e <= k
  BY <1>1 DEF Least
<1>4. (m < e) <=> (m < Len(L))
  BY <1>1 DEF Least
<1>. HIDE DEF m, k, e, b
<1>5. m + 1 \in Nat \ {0} /\ e \in Int
  BY <1>1, <1>3
<1>6. /\ b \in Seq(T)
      /\ Len(b) = IF m + 1 <= e THEN e - (m + 1) + 1 ELSE 0
      /\ \A i \in 1..Len(b) : b[i] = L[(m + 1) + i - 1]
      /\ Follows(b, L)
  BY <1>2, <1>3, <1>5, PartFollows
<1>7. Len(b) = IF m < Len(L) THEN e - m ELSE 0
  BY <1>1, <1>3, <1>4, <1>6
<1>8. ASSUME NEW i \in 1..Len(b)
      PROVE  \E j \in 1..Len(L) : m < j /\ j <= k /\ b[i] = L[j]
  <2>1. m + i \in 1..Len(L) /\ m < m + i /\ m + i <= k
    BY <1>1, <1>3, <1>7
  <2>2. b[i] = L[m + i]
    BY <1>1, <1>6
  <2>. QED
    BY <2>1, <2>2
<1>9. Among(b, L, m, k)
  <2>1. Once(b)
    BY <1>6, FollowsOnce
  <2>. QED
    BY <1>8, <2>1 DEF Among
<1>. QED
  BY <1>6, <1>7, <1>9 DEF m, k, e, b

LEMMA AmongJoins ==
    ASSUME NEW T, NEW L \in Seq(T), Once(L), NEW a \in Seq(T), NEW b \in Seq(T),
           NEW m \in Nat, NEW k \in Nat, m <= k, Among(a, L, 0, m), Among(b, L, m, k)
    PROVE  /\ Among(a \o b, L, 0, k) /\ a \o b \in Seq(T) /\ Len(a \o b) = Len(a) + Len(b)
<1>. DEFINE c == a \o b
<1>1. /\ c \in Seq(T) /\ Len(c) = Len(a) + Len(b)
      /\ \A i \in 1..(Len(a) + Len(b)) : c[i] = IF i <= Len(a) THEN a[i] ELSE b[i - Len(a)]
  BY ConcatProperties, Zenon
<1>2. Len(a) \in Nat /\ Len(b) \in Nat
  OBVIOUS
<1>. HIDE DEF c
<1>3. ASSUME NEW i \in 1..Len(c), i <= Len(a)
      PROVE  \E j \in 1..Len(L) : 0 < j /\ j <= m /\ c[i] = L[j]
  <2>1. i \in 1..Len(a) /\ c[i] = a[i]
    BY <1>1, <1>2, <1>3
  <2>. QED
    BY <2>1 DEF Among
<1>4. ASSUME NEW i \in 1..Len(c), ~(i <= Len(a))
      PROVE  \E j \in 1..Len(L) : m < j /\ j <= k /\ c[i] = L[j]
  <2>1. i - Len(a) \in 1..Len(b) /\ c[i] = b[i - Len(a)]
    BY <1>1, <1>2, <1>4
  <2>. QED
    BY <2>1 DEF Among
<1>5. ASSUME NEW i \in 1..Len(c) PROVE \E j \in 1..Len(L) : 0 < j /\ j <= k /\ c[i] = L[j]
  <2>1. CASE i <= Len(a)
    <3>1. PICK j \in 1..Len(L) : 0 < j /\ j <= m /\ c[i] = L[j]
      BY <1>3, <2>1
    <3>2. j <= k
      BY <3>1
    <3>. QED
      BY <3>1, <3>2
  <2>2. CASE ~(i <= Len(a))
    <3>1. PICK j \in 1..Len(L) : m < j /\ j <= k /\ c[i] = L[j]
      BY <1>4, <2>2
    <3>2. 0 < j
      BY <3>1
    <3>. QED
      BY <3>1, <3>2
  <2>. QED
    BY <2>1, <2>2
<1>6. ASSUME NEW i \in 1..Len(c), NEW j \in 1..Len(c), c[i] = c[j] PROVE i = j
  <2>1. CASE i <= Len(a) /\ j <= Len(a)
    <3>1. i \in 1..Len(a) /\ j \in 1..Len(a) /\ c[i] = a[i] /\ c[j] = a[j]
      BY <1>1, <1>2, <2>1
    <3>2. Once(a) /\ a[i] = a[j]
      BY <1>6, <3>1 DEF Among
    <3>. QED
      BY <3>1, <3>2 DEF Once
  <2>2. CASE ~(i <= Len(a)) /\ ~(j <= Len(a))
    <3>1. /\ i - Len(a) \in 1..Len(b) /\ j - Len(a) \in 1..Len(b)
          /\ c[i] = b[i - Len(a)] /\ c[j] = b[j - Len(a)]
      BY <1>1, <1>2, <2>2
    <3>2. i - Len(a) = j - Len(a)
      BY <1>6, <3>1 DEF Among, Once
    <3>. QED
      BY <1>2, <3>2
  <2>3. CASE i <= Len(a) /\ ~(j <= Len(a))
    <3>1. PICK x \in 1..Len(L) : 0 < x /\ x <= m /\ c[i] = L[x]
      BY <1>3, <2>3
    <3>2. PICK y \in 1..Len(L) : m < y /\ y <= k /\ c[j] = L[y]
      BY <1>4, <2>3
    <3>3. x = y
      BY <1>6, <3>1, <3>2 DEF Once
    <3>. QED
      BY <3>1, <3>2, <3>3
  <2>4. CASE ~(i <= Len(a)) /\ j <= Len(a)
    <3>1. PICK x \in 1..Len(L) : 0 < x /\ x <= m /\ c[j] = L[x]
      BY <1>3, <2>4
    <3>2. PICK y \in 1..Len(L) : m < y /\ y <= k /\ c[i] = L[y]
      BY <1>4, <2>4
    <3>3. x = y
      BY <1>6, <3>1, <3>2 DEF Once
    <3>. QED
      BY <3>1, <3>2, <3>3
  <2>. QED
    BY <2>1, <2>2, <2>3, <2>4
<1>7. Among(c, L, 0, k)
  <2>1. Once(c)
    BY <1>6 DEF Once
  <2>. QED
    BY <1>5, <2>1 DEF Among
<1>. QED
  BY <1>1, <1>7 DEF c

(* The rows of a list that are among those of another are where those are. *)
LEMMA AmongPart ==
    ASSUME NEW a, NEW b, NEW L, NEW m, NEW k, Among(b, L, m, k), Once(a),
           \A i \in 1..Len(a) : \E j \in 1..Len(b) : a[i] = b[j]
    PROVE  Among(a, L, m, k)
<1>1. ASSUME NEW i \in 1..Len(a) PROVE \E j \in 1..Len(L) : m < j /\ j <= k /\ a[i] = L[j]
  <2>1. PICK j \in 1..Len(b) : a[i] = b[j]
    OBVIOUS
  <2>. QED
    BY <2>1 DEF Among
<1>. QED
  BY <1>1 DEF Among

LEMMA PriceFollows ==
    ASSUME NEW a, NEW L, NEW sort, Follows(a, L), PriceOrder(L, sort) PROVE PriceOrder(a, sort)
<1>1. ASSUME NEW i \in 1..Len(a), NEW j \in 1..Len(a), i < j, ~Apart(a[i]), ~Apart(a[j])
      PROVE  /\ sort = "price_asc" => shop[a[i]].price <= shop[a[j]].price
             /\ sort = "price_desc" => shop[a[i]].price >= shop[a[j]].price
  <2>1. PICK k \in 1..Len(L), m \in 1..Len(L) : k < m /\ a[i] = L[k] /\ a[j] = L[m]
    BY <1>1 DEF Follows
  <2>2. ~Apart(L[k]) /\ ~Apart(L[m])
    BY <1>1, <2>1
  <2>3. /\ sort = "price_asc" => shop[L[k]].price <= shop[L[m]].price
        /\ sort = "price_desc" => shop[L[k]].price >= shop[L[m]].price
    BY <2>1, <2>2 DEF PriceOrder
  <2>. QED
    BY <2>1, <2>3
<1>. QED
  BY <1>1 DEF PriceOrder

-----------------------------------------------------------------------------
(* The reranker and the cutoff: a permutation, and the beginning of it.     *)
Permutes(a, b) ==
    /\ Len(a) = Len(b) /\ Once(a)
    /\ \A i \in 1..Len(a) : \E j \in 1..Len(b) : a[i] = b[j]
    /\ \A j \in 1..Len(b) : \E i \in 1..Len(a) : b[j] = a[i]

LEMMA TurnsAre ==
    ASSUME NEW h \in Nat, NEW scores \in [1..h -> Nat]
    PROVE  /\ Turns(scores) \in [1..h -> 1..h]
           /\ \A i, j \in 1..h : Turns(scores)[i] = Turns(scores)[j] => i = j
           /\ \A j \in 1..h : \E i \in 1..h : Turns(scores)[i] = j
<1>. DEFINE key == [i \in 1..h |-> <<scores[i], -i>>]
<1>1. IsFiniteSet(1..h) /\ Cardinality(1..h) = h /\ DOMAIN key = 1..h
  BY FS_Interval
<1>2. ASSUME NEW i \in 1..h PROVE key[i] \in Seq(Int) /\ Len(key[i]) = 2 /\ key[i][2] = -i
  <2>1. key[i] = <<scores[i], -i>> /\ scores[i] \in Int /\ -i \in Int
    OBVIOUS
  <2>. HIDE DEF key
  <2>. QED
    BY <2>1
<1>3. Turns(scores) = Ordered(key)
  BY DEF Turns
<1>. HIDE DEF key
<1>4. Keyed(key)
  <2>1. ASSUME NEW i \in 1..h, NEW j \in 1..h, key[i][2] = key[j][2] PROVE i = j
    <3>1. -i = -j /\ i \in Nat /\ j \in Nat
      BY <1>2, <2>1
    <3>. QED
      BY <3>1
  <2>2. \A i, j \in 1..h : key[i][Len(key[i])] = key[j][Len(key[i])] => i = j
    BY <1>2, <2>1
  <2>3. \A i \in 1..h : key[i] \in Seq(Int) /\ Len(key[i]) >= 1
    BY <1>2
  <2>4. \A i, j \in 1..h : Len(key[i]) = Len(key[j])
    BY <1>2
  <2>. QED
    BY <1>1, <2>2, <2>3, <2>4, Zenon DEF Keyed
<1>5. /\ Ordered(key) \in [1..Cardinality(DOMAIN key) -> DOMAIN key]
      /\ \A p \in DOMAIN key : \E i \in 1..Cardinality(DOMAIN key) : Ordered(key)[i] = p
      /\ \A i, j \in 1..Cardinality(DOMAIN key) : Ordered(key)[i] = Ordered(key)[j] => i = j
  BY <1>4, OrderedIs
<1>6. Cardinality(DOMAIN key) = h
  BY <1>1
<1>. QED
  BY <1>1, <1>3, <1>5, <1>6, Zenon

LEMMA HeadIs ==
    ASSUME NEW T, NEW ids \in Seq(T)
    PROVE  \E h \in Nat : h <= Len(ids) /\ DOMAIN HeadOf(ids) = 1..h /\ Len(HeadOf(ids)) = h
<1>. DEFINE h == Least(TopK, Len(ids))
            b == HeadOf(ids)
<1>1. TopK \in Nat \ {0} /\ Len(ids) \in Nat
  BY CatalogAssumption
<1>2. h \in Nat /\ h <= Len(ids)
  BY <1>1 DEF Least
<1>3. b = SubSeq(ids, 1, h)
  BY <1>1, MinOfTwo DEF HeadOf
<1>. HIDE DEF h, b
<1>4. b \in Seq(T) /\ Len(b) = IF 1 <= h THEN h - 1 + 1 ELSE 0
  BY <1>2, <1>3, PartFollows
<1>5. Len(b) = h
  BY <1>2, <1>4
<1>6. DOMAIN b = 1..h
  BY <1>4, <1>5
<1>. QED
  BY <1>2, <1>5, <1>6 DEF b

LEMMA ByScoreIs ==
    ASSUME NEW T, NEW ids \in Seq(T), Once(ids), NEW scores \in [DOMAIN HeadOf(ids) -> Scores]
    PROVE  ByScore(ids, scores) \in Seq(T) /\ Permutes(ByScore(ids, scores), ids)
<1>1. PICK h \in Nat : h <= Len(ids) /\ DOMAIN HeadOf(ids) = 1..h
  BY HeadIs
<1>. DEFINE turn == Turns(scores)
            n == Len(ids)
            place == [i \in 1..n |-> IF i \in 1..h THEN turn[i] ELSE i]
            b == ByScore(ids, scores)
<1>2. scores \in [1..h -> Nat]
  BY <1>1, CatalogAssumption
<1>3. /\ turn \in [1..h -> 1..h]
      /\ \A i, j \in 1..h : turn[i] = turn[j] => i = j
      /\ \A j \in 1..h : \E i \in 1..h : turn[i] = j
  BY <1>2, TurnsAre
<1>4. n \in Nat /\ h <= n /\ DOMAIN ids = 1..n /\ \A i \in 1..n : ids[i] \in T
  BY <1>1
<1>5. b = [i \in 1..n |-> ids[place[i]]]
  <2>1. b = [i \in 1..n |-> IF i \in 1..h THEN ids[turn[i]] ELSE ids[i]]
    BY <1>3, <1>4 DEF ByScore
  <2>2. ASSUME NEW i \in 1..n PROVE (IF i \in 1..h THEN ids[turn[i]] ELSE ids[i]) = ids[place[i]]
    OBVIOUS
  <2>. HIDE DEF place, b, turn
  <2>. QED
    BY <2>1, <2>2, Zenon
<1>. HIDE DEF turn, b
<1>6. ASSUME NEW i \in 1..n PROVE place[i] \in 1..n /\ (place[i] \in 1..h <=> i \in 1..h)
  BY <1>3, <1>4
<1>7. ASSUME NEW i \in 1..n, NEW j \in 1..n, place[i] = place[j] PROVE i = j
  BY <1>3, <1>6, <1>7
<1>8. ASSUME NEW j \in 1..n PROVE \E i \in 1..n : place[i] = j
  <2>1. CASE j \in 1..h
    <3>1. PICK i \in 1..h : turn[i] = j
      BY <1>3, <2>1
    <3>2. i \in 1..n
      BY <1>4
    <3>. QED
      BY <3>1, <3>2
  <2>2. CASE j \notin 1..h
    BY <2>2
  <2>. QED
    BY <2>1, <2>2
<1>. HIDE DEF place, n
<1>9. b \in Seq(T) /\ Len(b) = n /\ \A i \in 1..n : b[i] = ids[place[i]]
  <2>1. \A i \in 1..n : ids[place[i]] \in T
    BY <1>4, <1>6
  <2>. QED
    BY <1>4, <1>5, <2>1
<1>10. ASSUME NEW i \in 1..n, NEW j \in 1..n, b[i] = b[j] PROVE i = j
  <2>1. ids[place[i]] = ids[place[j]]
    BY <1>9, <1>10
  <2>2. place[i] = place[j]
    BY <1>6, <2>1 DEF Once, n
  <2>. QED
    BY <1>7, <2>2
<1>11. ASSUME NEW j \in 1..n PROVE \E i \in 1..n : ids[j] = b[i]
  <2>1. PICK i \in 1..n : place[i] = j
    BY <1>8
  <2>2. b[i] = ids[j]
    BY <1>9, <2>1
  <2>. QED
    BY <2>2
<1>12. Permutes(b, ids)
  BY <1>6, <1>9, <1>10, <1>11 DEF Permutes, Once, n
<1>. QED
  BY <1>9, <1>12 DEF b

LEMMA CutIs ==
    ASSUME NEW T, NEW ids \in Seq(T), NEW scores
    PROVE  /\ Cut(ids, scores) \in Seq(T) /\ Follows(Cut(ids, scores), ids)
           /\ Len(Cut(ids, scores)) <= Len(ids)
           /\ Len(Cut(ids, scores)) = Len(ids) => Cut(ids, scores) = ids
<1>. DEFINE b == Cut(ids, scores)
            floor == MinScore[intent.language]
            Short(i) == \/ scores[i] = Unscored \/ scores[i] < floor
                        \/ i > 1 /\ 100 * scores[i] < scores[i - 1] * Gap
            shorts == {i \in DOMAIN ids : Short(i)}
<1>1. b = IF shorts = {} \/ (floor = 0 /\ Gap = 0) THEN ids ELSE SubSeq(ids, 1, Min(shorts) - 1)
  BY DEF Cut
<1>2. shorts \subseteq 1..Len(ids) /\ shorts \subseteq Nat /\ Len(ids) \in Nat
  OBVIOUS
<1>. HIDE DEF b, floor, shorts
<1>3. CASE b = ids
  <2>1. Follows(ids, ids)
    BY DEF Follows
  <2>. QED
    BY <1>2, <1>3, <2>1 DEF b
<1>4. CASE b # ids
  <2>. DEFINE m == Min(shorts)
  <2>1. shorts # {} /\ b = SubSeq(ids, 1, m - 1)
    BY <1>1, <1>4
  <2>2. m \in shorts
    BY <1>2, <2>1, MinIs
  <2>. HIDE DEF m
  <2>3. m \in Nat /\ m - 1 \in Int /\ m >= 1 /\ m <= Len(ids) /\ m - 1 <= Len(ids)
    BY <1>2, <2>2
  <2>4. b \in Seq(T) /\ Follows(b, ids) /\ Len(b) = IF 1 <= m - 1 THEN (m - 1) - 1 + 1 ELSE 0
    BY <2>1, <2>3, PartFollows
  <2>5. Len(b) < Len(ids) /\ Len(b) <= Len(ids) /\ Len(b) # Len(ids)
    BY <1>2, <2>3, <2>4
  <2>. QED
    BY <2>4, <2>5 DEF b
<1>. QED
  BY <1>3, <1>4

(* The answer to a page: different rows of it; all of them where nothing is *)
(* cut off; and in the page's order where an order was asked for.           *)
Answers(a, T) ==
    /\ a = AnswerShape(a) /\ a.reported = filters.reported
    /\ a.ids \in Seq(T) /\ Once(a.ids)
    /\ \A i \in 1..Len(a.ids) : \E j \in 1..Len(found.ids) : a.ids[i] = found.ids[j]
    /\ a.dropped \in Nat
    /\ a.dropped = 0 => a.total = found.total /\ Len(a.ids) = Len(found.ids)
    /\ a.dropped > 0 => \E k \in Nat : k < Len(found.ids) /\ a.total = Start + k
    /\ SortBy(filters) # "relevance" => Follows(a.ids, found.ids)
    /\ a.mode \in {"hybrid", "hybrid_reranked"} => legs.semantic
    /\ a.mode = "lexical" => a.reason # "none"
    /\ a.mode \notin {"rejected", "failed"}

LEMMA ModeIs ==
    ASSUME legs.semantic \in BOOLEAN, NEW outcome, NEW reranked
    PROVE  /\ Mode(reranked) \in {"hybrid", "hybrid_reranked"} => legs.semantic
           /\ Mode(reranked) = "lexical" => Reason(Mode(reranked), outcome) # "none"
           /\ Mode(reranked) \notin {"rejected", "failed"}
<1>1. \/ Mode(reranked) \in {"browse", "filters_only", "lexical"}
      \/ legs.semantic /\ Mode(reranked) \in {"hybrid", "hybrid_reranked"}
  BY DEF Mode
<1>2. Reason("lexical", outcome) # "none"
  BY DEF Reason
<1>3. CASE Mode(reranked) = "lexical"
  BY <1>2, <1>3
<1>4. CASE Mode(reranked) # "lexical"
  BY <1>1, <1>4
<1>. QED
  BY <1>3, <1>4

LEMMA AnsweredIs ==
    ASSUME legs.semantic \in BOOLEAN, NEW T, found.ids \in Seq(T), Once(found.ids),
           NEW ids \in Seq(T), Permutes(ids, found.ids), NEW outcome, NEW scores
    PROVE  Answers(Answered(outcome, ids, scores), T)
<1>. DEFINE kept == IF scores = <<>> THEN ids ELSE Cut(ids, scores)
            byRelevance == SortBy(filters) = "relevance"
            rows == found.ids
            order == IF byRelevance THEN kept ELSE Only(rows, Range(kept))
            dropped == Len(ids) - Len(kept)
            mode == Mode(outcome = "applied" /\ byRelevance)
            a == Answered(outcome, ids, scores)
<1>1. a = [ids |-> order, mode |-> mode, reason |-> Reason(mode, outcome), reported |-> filters.reported,
           total |-> IF dropped > 0 THEN Start + Len(kept) ELSE found.total,
           dropped |-> dropped]
  BY Zenon DEF Answered, Start
<1>2. /\ kept \in Seq(T) /\ Len(kept) <= Len(ids) /\ Follows(kept, ids)
      /\ Len(kept) = Len(ids) => kept = ids
  <2>1. Follows(ids, ids)
    BY DEF Follows
  <2>. QED
    BY <2>1, CutIs
<1>3. /\ mode \in {"hybrid", "hybrid_reranked"} => legs.semantic
      /\ mode = "lexical" => Reason(mode, outcome) # "none"
      /\ mode \notin {"rejected", "failed"}
  BY ModeIs
<1>. HIDE DEF kept, mode, a
<1>4. Len(kept) \in Nat /\ Len(ids) \in Nat /\ Len(ids) = Len(rows) /\ rows \in Seq(T) /\ Once(rows) /\ Once(ids)
  BY <1>2 DEF Permutes
<1>5. Once(kept)
  BY <1>2, <1>4, FollowsOnce
<1>6. \A i \in 1..Len(kept) : \E j \in 1..Len(rows) : kept[i] = rows[j]
  <2>1. ASSUME NEW i \in 1..Len(kept) PROVE \E j \in 1..Len(rows) : kept[i] = rows[j]
    <3>1. PICK k \in 1..Len(ids) : kept[i] = ids[k]
      BY <1>2 DEF Follows
    <3>. QED
      BY <3>1 DEF Permutes
  <2>. QED
    BY <2>1
<1>7. /\ Only(rows, Range(kept)) \in Seq(T) /\ Follows(Only(rows, Range(kept)), rows)
      /\ (\A i \in 1..Len(rows) : rows[i] \in Range(kept)) => Only(rows, Range(kept)) = rows
  BY <1>4, OnlyIs
<1>8. ASSUME Len(kept) = Len(ids) PROVE Only(rows, Range(kept)) = rows
  <2>1. kept = ids
    BY <1>2, <1>8
  <2>2. ASSUME NEW j \in 1..Len(rows) PROVE rows[j] \in Range(kept)
    <3>1. PICK i \in 1..Len(ids) : rows[j] = ids[i]
      BY DEF Permutes
    <3>2. i \in DOMAIN kept /\ kept[i] = rows[j]
      BY <2>1, <3>1
    <3>. QED
      BY <3>2 DEF Range
  <2>. QED
    BY <1>7, <2>2
<1>9. /\ order \in Seq(T) /\ Once(order)
      /\ \A i \in 1..Len(order) : \E j \in 1..Len(rows) : order[i] = rows[j]
  <2>1. CASE byRelevance
    BY <1>2, <1>5, <1>6, <2>1
  <2>2. CASE ~byRelevance
    <3>. DEFINE b == Only(rows, Range(kept))
    <3>1. order = b
      BY <2>2
    <3>. HIDE DEF order
    <3>2. b \in Seq(T) /\ Follows(b, rows)
      BY <1>7
    <3>. HIDE DEF b, rows
    <3>3. Once(b)
      BY <1>4, <3>2, FollowsOnce
    <3>. QED
      BY <3>1, <3>2, <3>3 DEF Follows
  <2>. QED
    BY <2>1, <2>2
<1>10. dropped \in Nat /\ (dropped = 0 => Len(kept) = Len(ids)) /\ (dropped > 0 => Len(kept) < Len(rows))
  BY <1>2, <1>4
<1>11. dropped = 0 => Len(order) = Len(rows)
  BY <1>4, <1>8, <1>10
<1>12. ~byRelevance => Follows(order, rows)
  BY <1>7
<1>13. /\ a = AnswerShape(a) /\ a.ids = order /\ a.mode = mode /\ a.reason = Reason(mode, outcome)
       /\ a.reported = filters.reported /\ a.dropped = dropped
       /\ a.total = IF dropped > 0 THEN Start + Len(kept) ELSE found.total
  <2>. HIDE DEF order, dropped, byRelevance
  <2>. QED
    BY <1>1 DEF AnswerShape, AnswerFields
<1>. HIDE DEF order, dropped
<1>14. /\ a.dropped = 0 => a.total = found.total /\ Len(a.ids) = Len(rows)
       /\ a.dropped > 0 => \E k \in Nat : k < Len(rows) /\ a.total = Start + k
  <2>1. ASSUME dropped = 0 PROVE a.total = found.total /\ Len(a.ids) = Len(rows)
    <3>1. ~(dropped > 0)
      BY <2>1
    <3>. QED
      BY <1>11, <1>13, <2>1, <3>1
  <2>2. ASSUME dropped > 0 PROVE \E k \in Nat : k < Len(rows) /\ a.total = Start + k
    BY <1>4, <1>10, <1>13, <2>2
  <2>. QED
    BY <1>13, <2>1, <2>2
<1>15. Answers(a, T)
  BY <1>3, <1>9, <1>10, <1>12, <1>13, <1>14 DEF Answers
<1>. QED
  BY <1>15 DEF a

-----------------------------------------------------------------------------
(* The list that is paged through.                                          *)
LEMMA ReadText == Read.text = asked.text
BY DEF Read, Parse, WithStock, WithSort, WithRest, Intent

LEMMA ListSeq ==
    ASSUME NEW L, NEW sort, NEW S, ListOf(L, sort, S), NEW T, S \subseteq T
    PROVE  L \in Seq(T) /\ Len(L) \in Nat /\ Once(L) /\ PriceOrder(L, sort) /\ Len(L) = Cardinality(S)
BY DEF ListOf

LEMMA AiRowsAre ==
    ASSUME ShopType, NEW use
    PROVE  /\ AiRows(use) \in Seq(Active) /\ Len(AiRows(use)) \in Nat
           /\ Once(AiRows(use)) /\ PriceOrder(AiRows(use), SortBy(Wanted))
<1>. DEFINE fused == DOMAIN Fused(use, Wanted, Read.semantic)
            some == FusedRows(use, Wanted, Read.text, Read.semantic)
            all == BrowseRows(Wanted)
            sort == SortBy(Wanted)
<1>1. Filtered(Wanted) \subseteq Active
  BY DEF Filtered
<1>2. ListOf(all, sort, Filtered(Wanted))
  BY BrowseRowsAre
<1>3. ListOf(some, sort, fused) /\ fused \subseteq Filtered(Wanted)
  BY FusedRowsAre, FusedIs, ReadText
<1>4. AiRows(use) \in {all, some, Empty}
  BY DEF AiRows
<1>. HIDE DEF all, some, fused, sort
<1>5. /\ all \in Seq(Active) /\ Len(all) \in Nat /\ Once(all) /\ PriceOrder(all, sort)
  BY <1>1, <1>2, ListSeq
<1>6. /\ some \in Seq(Active) /\ Len(some) \in Nat /\ Once(some) /\ PriceOrder(some, sort)
  <2>1. fused \subseteq Active
    BY <1>1, <1>3
  <2>. QED
    BY <1>3, <2>1, ListSeq
<1>7. /\ Empty \in Seq(Active) /\ Len(Empty) \in Nat /\ Once(Empty) /\ PriceOrder(Empty, sort)
  BY DEF Empty, Once, PriceOrder
<1>. QED
  BY <1>4, <1>5, <1>6, <1>7 DEF sort

LEMMA StoreRowsList ==
    ASSUME ShopType, TextType
    PROVE  /\ StoreRows \in Seq(Active) /\ Len(StoreRows) \in Nat
           /\ Once(StoreRows) /\ PriceOrder(StoreRows, StoreSort)
           /\ Len(StoreRows) = Cardinality(OnSale)
<1>1. OnSale \subseteq Active
  BY DEF OnSale, StoreMatches
<1>. QED
  BY <1>1, StoreRowsAre, ListSeq

LEMMA ActiveSeq == ASSUME NEW L \in Seq(Active) PROVE L \in Seq(Products)
<1>1. Active \subseteq Products
  BY DEF Active
<1>. HIDE DEF Active
<1>. QED
  BY <1>1

LEMMA ListingIs ==
    ASSUME ShopType, TextType, NEW src
    PROVE  Listing(src) \in Seq(Active) /\ Len(Listing(src)) \in Nat /\ Once(Listing(src))
BY AiRowsAre, StoreRowsList DEF Listing

(* There is one order at most, and where there is one it is that of the list. *)
LEMMA OneSort ==
    ASSUME AskedType, NEW k \in Chosen(asked.explicit, Wanted.reported)["sort"]
    PROVE  SortBy(Wanted) = k
<1>. DEFINE taken == [n \in Names |-> Applied(Read, asked.ignored, n)]
            effective == Chosen(asked.explicit, taken)
            chosen == asked.explicit["sort"]
            sorts == effective["sort"]
<1>1. Wanted = Filters(Read, taken, effective, asked.ignored)
  BY DEF Wanted, Resolve, Merge
<1>2. Wanted.reported = taken /\ "sort" \in Names
  BY <1>1 DEF Filters, Names
<1>3. k \in sorts
  BY <1>2
<1>4. sorts = IF chosen # {} THEN chosen ELSE taken["sort"]
  BY <1>2 DEF Chosen
<1>5. taken["sort"] = {} \/ taken["sort"] = Read.inferred["sort"]
  BY <1>2 DEF Applied
<1>6. \A v, w \in Read.inferred["sort"] : v = w
  <2>1. \E t, u : Read.inferred["sort"] = SortOf(t, u).key
    BY <1>2 DEF Read, Parse, WithStock, WithSort, WithRest, Intent
  <2>2. ASSUME NEW t, NEW u PROVE \A v, w \in SortOf(t, u).key : v = w
    BY DEF SortOf
  <2>. QED
    BY <2>1, <2>2, Zenon
<1>7. \A v, w \in chosen : v = w
  BY <1>2 DEF AskedType
<1>8. \A v, w \in sorts : v = w
  BY <1>4, <1>5, <1>6, <1>7
<1>9. Wanted.by["sort"] = sorts
  <2>1. DOMAIN effective = Names
    BY DEF Chosen
  <2>2. Wanted.by = [effective EXCEPT
                !["in_stock_only"] = IF @ = {} THEN {FALSE} ELSE @,
                !["sort"] = CASE @ # {} -> @
                              [] @ = {} /\ Read.text # <<>> -> {"relevance"}
                              [] @ = {} /\ Read.text = <<>> -> {"newest"}]
    BY <1>1 DEF Filters
  <2>3. sorts # {}
    BY <1>3
  <2>. HIDE DEF effective
  <2>4. Wanted.by["sort"] = CASE sorts # {} -> sorts
                              [] sorts = {} /\ Read.text # <<>> -> {"relevance"}
                              [] sorts = {} /\ Read.text = <<>> -> {"newest"}
    BY <1>2, <2>1, <2>2
  <2>. HIDE DEF sorts
  <2>. QED
    BY <2>3, <2>4
<1>. HIDE DEF sorts
<1>10. SortBy(Wanted) \in sorts
  BY <1>3, <1>9 DEF SortBy
<1>. QED
  BY <1>3, <1>8, <1>10

-----------------------------------------------------------------------------
(* While the catalog and the search stay, the lists do.                     *)
Stays ==
    /\ shop' = shop /\ documents' = documents /\ embedded' = embedded
    /\ asked'.text = asked.text /\ asked'.blank = asked.blank /\ asked'.explicit = asked.explicit
    /\ asked'.tool = asked.tool /\ asked'.ignored = asked.ignored

LEMMA FilteredStays == ASSUME Stays PROVE Active' = Active /\ \A f : Filtered(f)' = Filtered(f)
<1>1. Active' = Active
  BY DEF Stays, Active
<1>2. ASSUME NEW f PROVE Filtered(f)' = Filtered(f)
  <2>1. \A p, n, v : Meets(p, n, v)' = Meets(p, n, v)
    BY DEF Stays, Meets
  <2>. QED
    BY <1>1, <2>1 DEF Filtered
<1>. QED
  BY <1>1, <1>2

LEMMA LegStays == ASSUME Stays PROVE \A name, use, f, s : Leg(name, use, f, s)' = Leg(name, use, f, s)
<1>1. \A name, use, f : Pool(name, use, f)' = Pool(name, use, f)
  BY FilteredStays DEF Stays, Pool
<1>2. \A name, use, f, s, p : Match(name, use, f, s, p)' = Match(name, use, f, s, p)
  BY DEF Match, Hits, Fuzzy
<1>3. ASSUME NEW name, NEW use, NEW f, NEW s PROVE Leg(name, use, f, s)' = Leg(name, use, f, s)
  BY <1>1, <1>2 DEF Leg, Top
<1>. QED
  BY <1>3

LEMMA FusedStays == ASSUME Stays PROVE \A use, f, s : Fused(use, f, s)' = Fused(use, f, s)
<1>1. ASSUME NEW use, NEW f, NEW s PROVE Fused(use, f, s)' = Fused(use, f, s)
  <2>1. \A name : Leg(name, use, f, s)' = Leg(name, use, f, s)
    BY LegStays
  <2>. DEFINE of == [name \in LegNames |-> Leg(name, use, f, s)]
  <2>2. of' = of
    BY <2>1
  <2>3. Fused(use, f, s) = [p \in {p \in DOMAIN Fuse(of) : Fuse(of)[p] >= Floor} |-> Fuse(of)[p]]
    BY DEF Fused, RestrictValues, Restrict, LegNames
  <2>4. Fused(use, f, s)' = [p \in {p \in DOMAIN Fuse(of') : Fuse(of')[p] >= Floor} |-> Fuse(of')[p]]
    BY DEF Fused, RestrictValues, Restrict, LegNames
  <2>. HIDE DEF of
  <2>. QED
    BY <2>2, <2>3, <2>4
<1>. QED
  BY <1>1

LEMMA KeysStay ==
    ASSUME Stays
    PROVE  /\ \A sort, p : SortKey(sort, p)' = SortKey(sort, p)
           /\ \A text, score, p : Relevance(text, score, p)' = Relevance(text, score, p)
<1>1. ASSUME NEW sort, NEW p PROVE SortKey(sort, p)' = SortKey(sort, p)
  BY DEF Stays, SortKey
<1>2. ASSUME NEW text, NEW score, NEW p PROVE Relevance(text, score, p)' = Relevance(text, score, p)
  BY DEF Stays, Relevance
<1>. QED
  BY <1>1, <1>2

LEMMA BrowseStays == ASSUME Stays PROVE \A f : BrowseRows(f)' = BrowseRows(f)
BY FilteredStays, KeysStay DEF BrowseRows

LEMMA RowsStay == ASSUME Stays PROVE \A score, f, text : RowsOf(score, f, text)' = RowsOf(score, f, text)
BY KeysStay DEF RowsOf

LEMMA FusedRowsStay == ASSUME Stays PROVE \A use, f, text, s : FusedRows(use, f, text, s)' = FusedRows(use, f, text, s)
BY FusedStays, RowsStay DEF FusedRows

LEMMA WantedStays == ASSUME Stays PROVE Read' = Read /\ Wanted' = Wanted
BY DEF Stays, Read, Wanted

LEMMA AiRowsStay == ASSUME Stays PROVE \A use : AiRows(use)' = AiRows(use)
<1>1. ASSUME NEW use PROVE AiRows(use)' = AiRows(use)
  <2>1. Read' = Read /\ Wanted' = Wanted
    BY WantedStays
  <2>2. Fused(use, Wanted, Read.semantic)' = Fused(use, Wanted, Read.semantic)
    BY <2>1, FusedStays
  <2>3. FusedRows(use, Wanted, Read.text, Read.semantic)' = FusedRows(use, Wanted, Read.text, Read.semantic)
    BY <2>1, FusedRowsStay
  <2>4. BrowseRows(Wanted)' = BrowseRows(Wanted)
    BY <2>1, BrowseStays
  <2>. QED
    BY <2>1, <2>2, <2>3, <2>4 DEF AiRows
<1>. QED
  BY <1>1

LEMMA StoreStays == ASSUME Stays PROVE StoreRows' = StoreRows /\ StoreSort' = StoreSort /\ OnSale' = OnSale
<1>1. Content' = Content /\ StoreSort' = StoreSort
  BY DEF Stays, Content, StoreSort
<1>2. \A p, n, v : Meets(p, n, v)' = Meets(p, n, v)
  BY DEF Stays, Meets
<1>3. ASSUME NEW p PROVE StoreMatches(p)' = StoreMatches(p)
  BY <1>1, <1>2, FilteredStays DEF StoreMatches, Stays
<1>4. ASSUME NEW p PROVE StoreKey(p)' = StoreKey(p)
  BY <1>1, KeysStay DEF StoreKey, Stays
<1>5. StoreRows' = StoreRows
  BY <1>3, <1>4 DEF StoreRows
<1>6. OnSale' = OnSale
  BY <1>3 DEF OnSale
<1>. QED
  BY <1>1, <1>5, <1>6

LEMMA ListingStays ==
    ASSUME Stays
    PROVE  /\ \A src : Listing(src)' = Listing(src)
           /\ \A L, sort : PriceOrder(L, sort)' <=> PriceOrder(L, sort)
<1>1. \A src : Listing(src)' = Listing(src)
  BY AiRowsStay, StoreStays DEF Listing
<1>2. \A L, sort : PriceOrder(L, sort)' <=> PriceOrder(L, sort)
  BY DEF PriceOrder, Apart, Stays
<1>. QED
  BY <1>1, <1>2

-----------------------------------------------------------------------------
(* The history, where no page is told, where one is, and where one is asked *)
(* for.                                                                     *)
Waiting == Stays /\ asked' = asked /\ seen' = seen /\ pc # "shown" /\ pc' # "shown"
LEMMA HistoryWaits == ASSUME Waiting, History PROVE History'
<1>. SUFFICES ASSUME NEW src \in Sources, (seen.sources \subseteq {src})'
              PROVE  Turned(src)'
  BY DEF Waiting, History
<1>1. Turned(src)
  BY DEF Waiting, History
<1>2. Listing(src)' = Listing(src) /\ Start' = Start
  BY ListingStays DEF Waiting, Start
<1>. QED
  BY <1>1, <1>2 DEF Turned, Waiting

LEMMA HistoryFresh == ASSUME seen' = Fresh, asked'.page = 1, AskedType', pc' # "shown" PROVE History'
<1>. SUFFICES ASSUME NEW src \in Sources PROVE Turned(src)'
  BY DEF History
<1>1. Start' = 0
  <2>1. (asked.size)' \in Nat
    BY DEF AskedType
  <2>. QED
    BY <2>1 DEF Start
<1>2. Among(<<>>, Listing(src)', 0, 0)
  BY DEF Among, Once
<1>. QED
  BY <1>1, <1>2 DEF Turned, Fresh

Turning ==
    /\ Stays /\ seen' = seen /\ asked'.page = asked.page + 1 /\ asked'.size = asked.size
    /\ pc = "shown" /\ pc' # "shown" /\ Stop < answer.total
LEMMA HistoryTurns == ASSUME Turning, AskedType, ShopType, answer.dropped \in Nat, answer.total \in Nat, History PROVE History'
<1>. SUFFICES ASSUME NEW src \in Sources, (seen.sources \subseteq {src})'
              PROVE  Turned(src)'
  BY DEF Turning, History
<1>. DEFINE L == Listing(src)
<1>1. Stop \in Nat /\ Stop > 0 /\ Start' = Stop
  <2>1. Stop \in Nat /\ Stop > 0
    BY StartStop
  <2>2. asked.page \in Nat /\ asked'.page - 1 = asked.page
    BY DEF AskedType, Turning
  <2>. QED
    BY <2>1, <2>2 DEF Start, Stop, Turning
<1>2. L' = L /\ Len(L) \in Nat
  BY ListingStays, ListingIs DEF Turning, AskedType
<1>3. ~(answer.mode \in {"rejected", "failed"} /\ answer.total = 0)
  BY <1>1 DEF Turning
<1>4. Told(src)
  BY <1>3 DEF Turning, History
<1>. HIDE DEF L
<1>5. answer.dropped = 0
  <2>1. ~(answer.total < Stop)
    <3>1. Stop < answer.total
      BY DEF Turning
    <3>. QED
      BY <1>1, <3>1, <1>4 DEF Told
  <2>. QED
    BY <1>4, <2>1 DEF Told
<1>6. Len(seen.ids) = Least(Stop, Len(L)) /\ Among(seen.ids, L, 0, Stop) /\ answer.total = Len(L)
  BY <1>4, <1>5 DEF Told, L
<1>7. Stop <= Len(L)
  BY <1>1, <1>2, <1>6 DEF Turning
<1>8. Len(seen.ids) = Stop
  BY <1>6, <1>7 DEF Least
<1>. QED
  BY <1>1, <1>2, <1>6, <1>7, <1>8 DEF Turned, Turning, L

Telling(src, a) ==
    /\ Stays /\ asked' = asked /\ pc # "shown" /\ pc' = "shown" /\ answer' = a
    /\ seen' = [seen EXCEPT !.ids = @ \o a.ids, !.sources = @ \cup {src}]
Apology(a) == a.mode \in {"rejected", "failed"} /\ a.total = 0
PageIn(a, L) ==
    /\ a.ids \in Seq(Products) /\ Among(a.ids, L, Start, Stop)
    /\ a.dropped = 0 => a.total = Len(L) /\ Len(a.ids) = Len(PageOf(L))
    /\ a.dropped > 0 => a.total < Stop
LEMMA HistoryTold ==
    ASSUME NEW src \in Sources, NEW a, Telling(src, a), AskedType, SeenType, ShopType, History,
           Apology(a) \/ (a.mode \notin {"rejected", "failed"} /\ PageIn(a, Listing(src)))
    PROVE  History'
<1>1. /\ seen'.ids = seen.ids \o a.ids /\ seen'.sources = seen.sources \cup {src}
      /\ seen.ids \in Seq(Products)
  BY DEF Telling, SeenType
<1>. SUFFICES ASSUME NEW other \in Sources, (seen.sources \subseteq {other})', ~Apology(a)
              PROVE  Told(other)'
  BY DEF Telling, History, Apology
<1>2. other = src /\ seen.sources \subseteq {src}
  BY <1>1
<1>3. Turned(src)
  BY <1>2 DEF History, Telling
<1>. DEFINE L == Listing(src)
            m == Start
            k == Stop
            page == PageOf(L)
<1>4. PageIn(a, L)
  OBVIOUS
<1>5. L \in Seq(Products) /\ Len(L) \in Nat /\ Once(L)
  BY ListingIs, ActiveSeq DEF AskedType
<1>6. L' = L /\ m' = m /\ k' = k
  BY ListingStays DEF Telling, Start, Stop
<1>7. m \in Nat /\ k \in Nat /\ m < k
  BY StartStop
<1>8. Len(page) = IF m < Len(L) THEN Least(k, Len(L)) - m ELSE 0
  BY <1>5, PageIs
<1>9. Len(seen.ids) = m /\ (m > 0 => m <= Len(L)) /\ Among(seen.ids, L, 0, m)
  BY <1>3 DEF Turned
<1>10. /\ a.ids \in Seq(Products) /\ Among(a.ids, L, m, k)
       /\ a.dropped = 0 => a.total = Len(L) /\ Len(a.ids) = Len(page)
       /\ a.dropped > 0 => a.total < k
  BY <1>4 DEF PageIn
<1>11. Told(src)' <=> /\ Among(seen'.ids, L', 0, k')
                      /\ a.dropped = 0 => a.total = Len(L') /\ Len(seen'.ids) = Least(k', Len(L'))
                      /\ a.dropped > 0 => a.total < k'
  BY DEF Told, Telling
<1>. HIDE DEF L, m, k, page
<1>12. /\ Among(seen.ids \o a.ids, L, 0, k)
       /\ Len(seen.ids \o a.ids) = Len(seen.ids) + Len(a.ids)
  <2>1. m <= k
    BY <1>7
  <2>2. Among(seen.ids, L, 0, m) /\ Among(a.ids, L, m, k) /\ a.ids \in Seq(Products)
    BY <1>9, <1>10
  <2>3. \A x \in Seq(Products), y \in Seq(Products) :
            Among(x, L, 0, m) /\ Among(y, L, m, k) =>
                Among(x \o y, L, 0, k) /\ Len(x \o y) = Len(x) + Len(y)
    BY <1>5, <1>7, <2>1, AmongJoins
  <2>. QED
    BY <1>1, <2>2, <2>3, Zenon
<1>13. ASSUME a.dropped = 0 PROVE Len(seen.ids \o a.ids) = Least(k, Len(L))
  <2>1. Len(seen.ids \o a.ids) = m + Len(page)
    BY <1>9, <1>10, <1>12, <1>13
  <2>2. m + Len(page) = Least(k, Len(L))
    BY <1>5, <1>7, <1>8, <1>9 DEF Least
  <2>. QED
    BY <2>1, <2>2
<1>. QED
  BY <1>1, <1>2, <1>6, <1>10, <1>11, <1>12, <1>13

-----------------------------------------------------------------------------
(* The invariant, action by action.                                         *)

LEMMA Totals ==
    /\ \A f : Cardinality(Filtered(f)) \in Nat
    /\ \A use, f, s : Cardinality(DOMAIN Fused(use, f, s)) \in Nat
    /\ Cardinality(OnSale) \in Nat
<1>1. ASSUME NEW S, S \subseteq Products PROVE Cardinality(S) \in Nat
  BY <1>1, ProductsAre, FS_Subset, FS_CardinalityType
<1>2. OnSale \subseteq Products /\ \A f : Filtered(f) \subseteq Products
  BY DEF OnSale, Filtered, Active
<1>3. \A use, f, s : DOMAIN Fused(use, f, s) \subseteq Products
  BY <1>2, FusedIs
<1>. QED
  BY <1>1, <1>2, <1>3

LEMMA SameWanted == ASSUME asked' = asked PROVE Read' = Read /\ Wanted' = Wanted
BY DEF Read, Wanted

(* What holds whatever happens, at a step that leaves the request alone. *)
LEMMA RequestStays ==
    ASSUME UNCHANGED request, Understood, Compared, Named, Owned
    PROVE  Understood' /\ Compared' /\ Named' /\ Owned'
<1>1. Read' = Read /\ Wanted' = Wanted
  BY SameWanted DEF request
<1>2. UNCHANGED <<pc, asked, intent, filters, vector, legs, found, ranked, answer>>
  BY DEF request
<1>3. Understood' /\ Compared'
  BY <1>1, <1>2 DEF Understood, Compared
<1>4. Named' /\ Owned'
  BY <1>1, <1>2 DEF Named, Owned
<1>. QED
  BY <1>3, <1>4

Disturbs ==
    ShopType' /\ coverage' \in Legs /\ UNCHANGED request /\ seen' = [seen EXCEPT !.steady = FALSE]
LEMMA Disturbed == ASSUME PagesInv, Disturbs PROVE PagesInv'
<1>1. UNCHANGED <<pc, asked, intent, filters, vector, legs, found, ranked, answer>>
  BY DEF Disturbs, request
<1>2. SeenType' /\ ~(seen.steady)'
  BY DEF Disturbs, PagesInv, Types, SeenType
<1>3. AskedType'
  BY <1>1 DEF PagesInv, Types, AskedType, TextType, Shape
<1>4. Types'
  BY <1>1, <1>2, <1>3 DEF PagesInv, Types, Disturbs, FoundType, AnswerType, AnswerShape, Once
<1>5. Understood' /\ Compared' /\ Named' /\ Owned'
  BY RequestStays DEF PagesInv, Disturbs
<1>. QED
  BY <1>2, <1>4, <1>5 DEF PagesInv

LEMMA RefreshKeeps == ASSUME PagesInv, Refresh PROVE PagesInv'
<1>1. coverage' \in Legs
  BY DEF Refresh, Legs
<1>2. ShopType'
  BY DEF Refresh, PagesInv, Types, ShopType
<1>. QED
  BY <1>1, <1>2, Disturbed DEF Refresh, Disturbs

LEMMA IndexKeeps == ASSUME PagesInv, Index PROVE PagesInv'
<1>1. coverage' \in Legs /\ ShopType'
  BY DEF Index, PagesInv, Types, ShopType
<1>. QED
  BY <1>1, Disturbed DEF Index, Disturbs

LEMMA EditKeeps == ASSUME PagesInv, Edit PROVE PagesInv'
<1>. SUFFICES ASSUME NEW p \in Products, NEW row, Change(p, row),
                     row \in [price : Nat, stock : {0, 1}, archived : BOOLEAN]
              PROVE  PagesInv'
  <2>1. PICK p \in Products : \/ Change(p, [shop[p] EXCEPT !.archived = ~@])
                              \/ Change(p, [shop[p] EXCEPT !.stock = 1 - @])
                              \/ Change(p, [shop[p] EXCEPT !.price = 2 * @])
    BY DEF Edit
  <2>2. shop[p] \in [price : Nat, stock : {0, 1}, archived : BOOLEAN]
    BY DEF PagesInv, Types, ShopType
  <2>3. [shop[p] EXCEPT !.archived = ~@] \in [price : Nat, stock : {0, 1}, archived : BOOLEAN]
    BY <2>2
  <2>4. [shop[p] EXCEPT !.stock = 1 - @] \in [price : Nat, stock : {0, 1}, archived : BOOLEAN]
    BY <2>2
  <2>5. [shop[p] EXCEPT !.price = 2 * @] \in [price : Nat, stock : {0, 1}, archived : BOOLEAN]
    BY <2>2
  <2>. QED
    BY <2>1, <2>3, <2>4, <2>5, Zenon
<1>1. ShopType' /\ coverage' \in Legs
  BY DEF Change, index, PagesInv, Types, ShopType
<1>. QED
  BY <1>1, Disturbed DEF Change, Disturbs

LEMMA NothingAnswered ==
    /\ AnswerType(NoAnswer) /\ NoAnswer.ids = <<>> /\ NoAnswer.total = 0
    /\ NoAnswer.mode = "none" /\ NoAnswer.reason = "none" /\ NoAnswer.dropped = 0
    /\ NoAnswer.reported = Nothing
<1>1. NoAnswer = AnswerShape(NoAnswer)
  BY DEF NoAnswer, AnswerShape, AnswerFields
<1>2. /\ NoAnswer.ids = <<>> /\ NoAnswer.total = 0
      /\ NoAnswer.mode = "none" /\ NoAnswer.reason = "none" /\ NoAnswer.dropped = 0
      /\ NoAnswer.reported = Nothing
  BY DEF NoAnswer
<1>. QED
  BY <1>1, <1>2 DEF AnswerType

(* A page is asked for. *)
LEMMA RouteKeeps ==
    ASSUME PagesInv, NEW q, Route(q), AskedType', SeenType', (seen.steady)' => History'
    PROVE  PagesInv'
<1>1. /\ asked' = q /\ pc' \in {"parse", "lexical"} /\ shop' = shop /\ coverage' = coverage
      /\ vector' = "none" /\ legs' = NoLegs /\ found' = NoFound /\ ranked' = NoAnswer /\ answer' = NoAnswer
  BY DEF Route, Goto, Local, index
<1>2. Types'
  <2>1. ShopType'
    BY <1>1 DEF PagesInv, Types, ShopType
  <2>2. legs' \in Legs /\ coverage' \in Legs
    BY <1>1 DEF PagesInv, Types, NoLegs, Legs
  <2>3. FoundType'
    BY <1>1 DEF FoundType, NoFound, Once
  <2>4. AnswerType(NoAnswer)
    BY NothingAnswered
  <2>. QED
    BY <1>1, <2>1, <2>2, <2>3, <2>4 DEF Types
<1>3. Understood' /\ Compared' /\ Named'
  BY <1>1 DEF Understood, Compared, Named, NoLegs
<1>4. Owned'
  BY <1>1 DEF Owned, Route, Goto
<1>5. OnTheWay'
  BY <1>1 DEF OnTheWay
<1>. QED
  BY <1>2, <1>3, <1>4, <1>5 DEF PagesInv

LEMMA FreshType == ASSUME seen' = Fresh PROVE SeenType'
<1>1. Fresh \in [ids : Seq(Products), steady : BOOLEAN, sources : SUBSET Sources] /\ IsFiniteSet(Fresh.sources)
  BY FS_EmptySet DEF Fresh
<1>. QED
  BY <1>1 DEF SeenType

LEMMA AskKeeps == ASSUME PagesInv, Ask PROVE PagesInv'
<1>1. PICK q \in Queries :
          Route([NoQuery EXCEPT !.text = q.text, !.blank = q.blank, !.explicit = q.explicit,
                                !.size = q.size, !.tool = q.tool])
  BY DEF Ask
<1>. DEFINE a == [NoQuery EXCEPT !.text = q.text, !.blank = q.blank, !.explicit = q.explicit,
                                 !.size = q.size, !.tool = q.tool]
<1>2. asked' = a /\ pc' # "shown" /\ seen' = Fresh
  BY <1>1 DEF Ask, Route, Goto
<1>3. /\ a = Shape(a) /\ a.text = q.text /\ a.size = q.size /\ a.explicit = q.explicit /\ a.page = 1
      /\ a.ignored = {}
  <2>1. NoQuery = Shape(NoQuery) /\ NoQuery.page = 1 /\ NoQuery.ignored = {}
    BY DEF NoQuery, Shape, Fields
  <2>2. a = Shape(a)
    BY <2>1 DEF Shape, Fields
  <2>3. /\ a.text = q.text /\ a.size = q.size /\ a.explicit = q.explicit /\ a.page = NoQuery.page
        /\ a.ignored = NoQuery.ignored
    BY <2>1 DEF Shape, Fields
  <2>. QED
    BY <2>1, <2>2, <2>3
<1>4. AskedType'
  <2>1. /\ q.text \in Seq(DOMAIN Chars) /\ q.size \in Nat \ {0}
        /\ \A n \in Names : \A v, w \in q.explicit[n] : v = w
    BY CatalogAssumption
  <2>. HIDE DEF a
  <2>. QED
    BY <1>2, <1>3, <2>1 DEF AskedType, TextType, Shape
<1>5. History'
  BY <1>2, <1>3, <1>4, HistoryFresh
<1>. QED
  BY <1>1, <1>2, <1>4, <1>5, FreshType, RouteKeeps

LEMMA DismissKeeps == ASSUME PagesInv, Dismiss PROVE PagesInv'
<1>1. PICK n \in Names : Route([asked EXCEPT !.ignored = @ \cup {n}, !.page = 1])
  BY DEF Dismiss
<1>. DEFINE a == [asked EXCEPT !.ignored = @ \cup {n}, !.page = 1]
<1>2. asked' = a /\ pc' # "shown" /\ seen' = Fresh
  BY <1>1 DEF Dismiss, Route, Goto
<1>3. /\ a = Shape(a) /\ a.text = asked.text /\ a.size = asked.size /\ a.explicit = asked.explicit /\ a.page = 1
      /\ a.ignored = asked.ignored \cup {n}
  BY DEF PagesInv, Types, AskedType, Shape, Fields
<1>4. AskedType'
  <2>1. /\ asked.text \in Seq(DOMAIN Chars) /\ asked.size \in Nat \ {0}
        /\ asked.ignored \cup {n} \subseteq Names
        /\ \A k \in Names : \A v, w \in asked.explicit[k] : v = w
    BY <1>1 DEF PagesInv, Types, AskedType, TextType
  <2>. HIDE DEF a
  <2>. QED
    BY <1>2, <1>3, <2>1 DEF AskedType, TextType, Shape
<1>5. History'
  BY <1>2, <1>3, <1>4, HistoryFresh
<1>. QED
  BY <1>1, <1>2, <1>4, <1>5, FreshType, RouteKeeps

LEMMA NextPageKeeps == ASSUME PagesInv, NextPage PROVE PagesInv'
<1>. DEFINE a == [asked EXCEPT !.page = @ + 1]
<1>1. Route(a) /\ seen' = seen
  BY DEF NextPage
<1>2. /\ asked' = a /\ pc' # "shown" /\ shop' = shop /\ documents' = documents /\ embedded' = embedded
  BY <1>1 DEF Route, Goto, Local, index
<1>3. /\ a = Shape(a) /\ a.text = asked.text /\ a.blank = asked.blank /\ a.size = asked.size
      /\ a.explicit = asked.explicit /\ a.tool = asked.tool /\ a.ignored = asked.ignored
      /\ a.page = asked.page + 1
  BY DEF PagesInv, Types, AskedType, Shape, Fields
<1>4. AskedType'
  <2>1. /\ asked.text \in Seq(DOMAIN Chars) /\ asked.size \in Nat \ {0} /\ asked.page + 1 \in Nat \ {0}
        /\ asked.ignored \subseteq Names
        /\ \A k \in Names : \A v, w \in asked.explicit[k] : v = w
    BY DEF PagesInv, Types, AskedType, TextType
  <2>. HIDE DEF a
  <2>. QED
    BY <1>2, <1>3, <2>1 DEF AskedType, TextType, Shape
<1>5. SeenType'
  BY <1>1 DEF PagesInv, Types, SeenType
<1>. HIDE DEF a
<1>6. Turning
  BY <1>1, <1>2, <1>3 DEF Turning, Stays, NextPage, Stop
<1>7. ASSUME seen.steady PROVE History'
  <2>1. answer.dropped \in Nat /\ answer.total \in Nat /\ AskedType /\ ShopType /\ History
    BY <1>7 DEF PagesInv, Types, AnswerType
  <2>. QED
    BY <1>6, <2>1, HistoryTurns
<1>. QED
  BY <1>1, <1>4, <1>5, <1>7, RouteKeeps

(* A step of the request, and the step that tells the page. *)
Moving == asked' = asked /\ seen' = seen /\ pc # "shown" /\ pc' # "shown" /\ Local
LEMMA MovingKeeps ==
    ASSUME PagesInv, Moving
    PROVE  /\ Stays /\ ShopType' /\ AskedType' /\ SeenType' /\ coverage' \in Legs
           /\ Read' = Read /\ Wanted' = Wanted /\ seen' = seen
           /\ seen.steady => History'
<1>1. shop' = shop /\ documents' = documents /\ embedded' = embedded /\ coverage' = coverage
  BY DEF Moving, Local, index
<1>2. Stays
  BY <1>1 DEF Stays, Moving
<1>3. ShopType' /\ SeenType' /\ coverage' \in Legs
  BY <1>1 DEF PagesInv, Types, ShopType, SeenType, Moving
<1>4. AskedType'
  BY DEF PagesInv, Types, AskedType, TextType, Shape, Moving
<1>5. Read' = Read /\ Wanted' = Wanted
  BY SameWanted DEF Moving
<1>6. ASSUME seen.steady PROVE History'
  BY <1>2, <1>6, HistoryWaits DEF PagesInv, Moving, Waiting
<1>. QED
  BY <1>2, <1>3, <1>4, <1>5, <1>6 DEF Moving

Page(source, a) ==
    /\ source \in {"store", "ai"} /\ AnswerType(a)
    /\ pc # "shown" /\ asked' = asked /\ Tell(source, a) /\ Local
    /\ seen.steady => \/ Apology(a)
                      \/ a.mode \notin {"rejected", "failed"} /\ PageIn(a, Listing(<<source, legs>>))
LEMMA TellingKeeps ==
    ASSUME PagesInv, NEW source, NEW a, Page(source, a),
           legs' \in Legs, FoundType', AnswerType(ranked)', Compared'
    PROVE  PagesInv'
<1>1. /\ shop' = shop /\ documents' = documents /\ embedded' = embedded /\ coverage' = coverage
      /\ asked' = asked /\ pc' = "shown" /\ answer' = a
      /\ seen' = [seen EXCEPT !.ids = @ \o a.ids, !.sources = @ \cup {<<source, legs>>}]
  BY DEF Page, Tell, Goto, Local, index
<1>2. Stays
  BY <1>1 DEF Stays
<1>3. <<source, legs>> \in Sources
  BY DEF Page, PagesInv, Types, Sources
<1>4. SeenType'
  <2>1. seen \in [ids : Seq(Products), steady : BOOLEAN, sources : SUBSET Sources] /\ IsFiniteSet(seen.sources)
    BY DEF PagesInv, Types, SeenType
  <2>2. seen.ids \o a.ids \in Seq(Products)
    BY <2>1, ConcatProperties DEF Page, AnswerType
  <2>3. IsFiniteSet(seen.sources \cup {<<source, legs>>})
    BY <2>1, FS_AddElement
  <2>4. seen' \in [ids : Seq(Products), steady : BOOLEAN, sources : SUBSET Sources]
    BY <1>1, <1>3, <2>1, <2>2
  <2>5. (seen.sources)' = seen.sources \cup {<<source, legs>>}
    BY <1>1, <2>1
  <2>. QED
    BY <2>3, <2>4, <2>5 DEF SeenType
<1>5. ShopType' /\ AskedType' /\ AnswerType(answer)'
  BY <1>1 DEF PagesInv, Types, ShopType, AskedType, TextType, Shape, Page, AnswerType, AnswerShape
<1>6. Types'
  BY <1>1, <1>4, <1>5 DEF Types, PagesInv
<1>7. Understood' /\ Named' /\ Owned' /\ OnTheWay'
  BY <1>1 DEF Understood, Named, Owned, OnTheWay
<1>8. (seen.steady)' = seen.steady
  BY <1>1 DEF PagesInv, Types, SeenType
<1>9. ASSUME seen.steady PROVE History'
  <2>1. Telling(<<source, legs>>, a)
    BY <1>1, <1>2 DEF Telling, Page
  <2>2. Apology(a) \/ (a.mode \notin {"rejected", "failed"} /\ PageIn(a, Listing(<<source, legs>>)))
    BY <1>9 DEF Page
  <2>3. AskedType /\ SeenType /\ ShopType /\ History
    BY <1>9 DEF PagesInv, Types
  <2>. QED
    BY <1>3, <2>1, <2>2, <2>3, HistoryTold
<1>. QED
  BY <1>6, <1>7, <1>8, <1>9 DEF PagesInv

LEMMA ApologyIs ==
    ASSUME NEW m \in {"rejected", "failed"}
    PROVE  AnswerType([NoAnswer EXCEPT !.mode = m]) /\ Apology([NoAnswer EXCEPT !.mode = m])
<1>. DEFINE a == [NoAnswer EXCEPT !.mode = m]
<1>1. NoAnswer = AnswerShape(NoAnswer) /\ NoAnswer.ids = <<>> /\ NoAnswer.total = 0 /\ NoAnswer.dropped = 0
  BY NothingAnswered DEF AnswerType
<1>2. a = AnswerShape(a) /\ a.ids = <<>> /\ a.total = 0 /\ a.dropped = 0 /\ a.mode = m
  BY <1>1 DEF AnswerShape, AnswerFields
<1>. HIDE DEF a
<1>3. AnswerType(a) /\ Apology(a)
  BY <1>2 DEF AnswerType, Apology
<1>. QED
  BY <1>3 DEF a

LEMMA UnderstandKeeps == ASSUME PagesInv, Understand PROVE PagesInv'
<1>1. /\ pc = "parse" /\ Settle(Read, Wanted) /\ Local
      /\ UNCHANGED <<asked, vector, legs, found, ranked>>
  BY DEF Understand, Heard, Read, Wanted
<1>2. intent' = Read /\ filters' = Wanted
  BY <1>1 DEF Settle
<1>3. legs' \in Legs /\ FoundType' /\ AnswerType(ranked)' /\ (pc' \in {"embed", "shown"} => Compared')
  BY <1>1 DEF PagesInv, Types, FoundType, Once, AnswerType, AnswerShape, Compared
<1>4. CASE Read.rejected \/ Wanted.rejected
  <2>. DEFINE a == [NoAnswer EXCEPT !.mode = "rejected"]
  <2>1. Tell("ai", a)
    BY <1>1, <1>4 DEF Settle
  <2>2. AnswerType(a) /\ Apology(a)
    BY ApologyIs
  <2>. HIDE DEF a
  <2>3. Page("ai", a) /\ pc' = "shown"
    BY <1>1, <2>1, <2>2 DEF Page, Tell, Goto
  <2>. QED
    BY <1>3, <2>3, TellingKeeps
<1>5. CASE ~(Read.rejected \/ Wanted.rejected)
  <2>1. pc' = "embed" /\ answer' = answer /\ seen' = seen
    BY <1>1, <1>5 DEF Settle, Goto
  <2>2. Moving
    BY <1>1, <2>1 DEF Moving
  <2>3. Types'
    BY <1>3, <2>1, <2>2, MovingKeeps DEF PagesInv, Types, AnswerType, AnswerShape
  <2>4. Understood' /\ Named' /\ Owned' /\ OnTheWay'
    BY <1>2, <2>1, <2>2, MovingKeeps DEF Understood, Named, Owned, OnTheWay
  <2>. QED
    BY <1>3, <2>1, <2>2, <2>3, <2>4, MovingKeeps DEF PagesInv
<1>. QED
  BY <1>4, <1>5

(* What a step of the retrieval leaves to show. *)
LEMMA RetrievalKeeps ==
    ASSUME PagesInv, Moving, intent' = intent, filters' = filters, answer' = answer,
           pc \in {"embed", "count", "page", "browse", "browse_page", "rank"},
           pc' \in {"count", "page", "browse", "browse_page", "rank", "hydrate"},
           legs' \in Legs, FoundType', AnswerType(ranked)', Compared', Named',
           pc' \in {"count", "page"} => Read.semantic # <<>>,
           seen.steady => OnTheWay'
    PROVE  PagesInv'
<1>1. Types'
  BY MovingKeeps DEF PagesInv, Types, AnswerType, AnswerShape
<1>2. Understood'
  BY MovingKeeps DEF PagesInv, Understood
<1>3. Owned'
  BY DEF Owned
<1>4. (seen.steady)' = seen.steady
  BY DEF Moving
<1>. QED
  BY <1>1, <1>2, <1>3, <1>4, MovingKeeps DEF PagesInv

LEMMA EmbedKeeps == ASSUME PagesInv, Embed PROVE PagesInv'
<1>1. /\ pc = "embed" /\ pc' \in {"browse", "count"} /\ Local
      /\ pc' = (IF intent.semantic = <<>> THEN "browse" ELSE "count")
      /\ UNCHANGED <<asked, intent, filters, legs, found, ranked, answer, seen>>
  BY DEF Embed, Goto
<1>2. Moving
  BY <1>1 DEF Moving
<1>3. legs' \in Legs /\ FoundType' /\ AnswerType(ranked)' /\ Compared' /\ Named'
  BY <1>1 DEF PagesInv, Types, FoundType, Once, AnswerType, AnswerShape, Compared, Named
<1>4. OnTheWay'
  <2>1. CASE pc' = "count"
    BY <2>1 DEF OnTheWay
  <2>2. CASE pc' = "browse"
    <3>1. Read.semantic = <<>>
      BY <1>1, <2>2 DEF PagesInv, Understood
    <3>2. Read' = Read
      BY <1>2, MovingKeeps
    <3>3. AiRows(legs)' = BrowseRows(Wanted)'
      BY <3>1, <3>2 DEF AiRows
    <3>. QED
      BY <2>2, <3>3 DEF OnTheWay
  <2>. QED
    BY <1>1, <2>1, <2>2
<1>5. pc' \in {"count", "page"} => Read.semantic # <<>>
  BY <1>1 DEF PagesInv, Understood
<1>. QED
  BY <1>1, <1>2, <1>3, <1>4, <1>5, RetrievalKeeps

LEMMA EmptyPage == ASSUME AskedType PROVE PageOf(Empty) = <<>> /\ Len(Empty) = 0
<1>1. Empty \in Seq(Nat) /\ Len(Empty) = 0 /\ Once(Empty)
  BY DEF Empty, Once
<1>2. /\ PageOf(Empty) \in Seq(Nat)
      /\ Len(PageOf(Empty)) = IF Start < Len(Empty) THEN Least(Stop, Len(Empty)) - Start ELSE 0
  BY <1>1, PageIs
<1>3. ~(Start < Len(Empty))
  BY <1>1, StartStop
<1>4. Len(PageOf(Empty)) = 0
  BY <1>2, <1>3
<1>. QED
  BY <1>1, <1>2, <1>4

LEMMA CountKeeps == ASSUME PagesInv, Count PROVE PagesInv'
<1>. DEFINE use == legs'
            fused == Fused(use, Wanted, Read.semantic)
            n == Cardinality(DOMAIN fused)
<1>1. /\ pc = "count" /\ Local /\ UNCHANGED <<asked, intent, filters, vector, ranked, answer, seen>>
      /\ legs' = [semantic |-> vector = "there" /\ coverage.semantic, documents |-> coverage.documents]
      /\ Counted(Cardinality(DOMAIN Fused(legs', filters, intent.semantic)))
  BY DEF Count
<1>2. intent = Read /\ filters = Wanted /\ Read.semantic # <<>>
  BY <1>1 DEF PagesInv, Understood
<1>3. /\ found' = [ids |-> <<>>, total |-> n]
      /\ pc' = CASE n > 0 -> "page"
                 [] n = 0 /\ HasFilters(Wanted) -> "browse"
                 [] n = 0 /\ ~HasFilters(Wanted) -> "rank"
  <2>1. Counted(n)
    BY <1>1, <1>2
  <2>. QED
    BY <2>1 DEF Counted, Goto
<1>4. n \in Nat /\ (n = 0 <=> DOMAIN fused = {})
  <2>1. DOMAIN fused \subseteq Products
    BY FusedIs DEF Filtered, Active
  <2>2. IsFiniteSet(DOMAIN fused)
    BY <2>1, ProductsAre, FS_Subset
  <2>. QED
    BY <2>2, FS_CardinalityType, FS_EmptySet
<1>. HIDE DEF use, fused, n
<1>5. pc' \in {"page", "browse", "rank"}
  BY <1>3, <1>4
<1>6. Moving
  BY <1>1, <1>5 DEF Moving
<1>7. legs' \in Legs /\ FoundType' /\ AnswerType(ranked)' /\ Compared' /\ Named'
  <2>1. legs' \in Legs /\ (legs'.semantic => vector = "there")
    BY <1>1 DEF PagesInv, Types, Legs
  <2>2. FoundType'
    BY <1>3, <1>4 DEF FoundType, Once
  <2>. QED
    BY <1>1, <1>5, <2>1, <2>2 DEF PagesInv, Types, AnswerType, AnswerShape, Compared, Named
<1>8. OnTheWay'
  <2>1. /\ Stays /\ Read' = Read /\ Wanted' = Wanted
    BY <1>6, MovingKeeps
  <2>2. AiRows(legs)' = AiRows(use)
    BY <2>1, AiRowsStay DEF use
  <2>3. Fused(legs, Wanted, Read.semantic)' = fused
    BY <2>1, FusedStays DEF use, fused
  <2>4. CASE n > 0
    <3>1. pc' = "page" /\ (found.total)' = n
      BY <1>3, <1>4, <2>4
    <3>. QED
      BY <2>3, <2>4, <3>1 DEF OnTheWay, n
  <2>5. CASE n = 0 /\ HasFilters(Wanted)
    <3>1. pc' = "browse"
      BY <1>3, <1>4, <2>5
    <3>2. AiRows(use) = BrowseRows(Wanted)
      BY <1>2, <1>4, <2>5 DEF AiRows, fused
    <3>3. BrowseRows(Wanted)' = BrowseRows(Wanted)
      BY <2>1, BrowseStays
    <3>. QED
      BY <2>2, <3>1, <3>2, <3>3 DEF OnTheWay
  <2>6. CASE n = 0 /\ ~HasFilters(Wanted)
    <3>1. pc' = "rank" /\ found' = [ids |-> <<>>, total |-> 0]
      BY <1>3, <1>4, <2>6
    <3>2. AiRows(use) = Empty
      BY <1>2, <1>4, <2>6 DEF AiRows, fused
    <3>3. PageOf(Empty)' = PageOf(Empty)
      BY <1>1 DEF PageOf
    <3>4. PageOf(AiRows(legs))' = <<>> /\ Len(AiRows(legs))' = 0
      BY <2>2, <3>2, <3>3, EmptyPage DEF PagesInv, Types
    <3>. QED
      BY <3>1, <3>4 DEF OnTheWay
  <2>. QED
    BY <1>4, <2>4, <2>5, <2>6
<1>9. pc' \in {"count", "page"} => Read.semantic # <<>>
  BY <1>2
<1>. QED
  BY <1>1, <1>5, <1>6, <1>7, <1>8, <1>9, RetrievalKeeps

LEMMA PageRows ==
    ASSUME AskedType, NEW L, NEW sort, NEW S, ListOf(L, sort, S), S \subseteq Products
    PROVE  PageOf(L) \in Seq(Products) /\ Once(PageOf(L))
<1>1. L \in Seq(Products) /\ Once(L)
  BY ListSeq
<1>. QED
  BY <1>1, PageIs DEF Among

LEMMA ListKeeps == ASSUME PagesInv, List PROVE PagesInv'
<1>. DEFINE rows == FusedRows(legs, Wanted, Read.text, Read.semantic)
            fused == DOMAIN Fused(legs, Wanted, Read.semantic)
<1>1. /\ pc = "page" /\ pc' = "rank" /\ Local
      /\ UNCHANGED <<asked, intent, filters, vector, legs, ranked, answer, seen>>
      /\ found' = [found EXCEPT !.ids = PageOf(FusedRows(legs, filters, intent.text, intent.semantic))]
  BY DEF List, Goto
<1>2. intent = Read /\ filters = Wanted /\ Read.semantic # <<>>
  BY <1>1 DEF PagesInv, Understood
<1>3. ShopType /\ AskedType /\ found = [ids |-> found.ids, total |-> found.total] /\ found.total \in Nat
  BY DEF PagesInv, Types, FoundType
<1>4. ListOf(rows, SortBy(Wanted), fused) /\ fused \subseteq Products
  BY <1>3, FusedRowsAre, FusedIs, ReadText DEF Filtered, Active
<1>5. found' = [ids |-> PageOf(rows), total |-> found.total]
  <2>1. found' = [found EXCEPT !.ids = PageOf(rows)]
    BY <1>1, <1>2
  <2>. HIDE DEF rows
  <2>. QED
    BY <1>3, <2>1
<1>6. PageOf(rows) \in Seq(Products) /\ Once(PageOf(rows))
  BY <1>3, <1>4, PageRows
<1>. HIDE DEF rows, fused
<1>7. Moving
  BY <1>1 DEF Moving
<1>8. legs' \in Legs /\ FoundType' /\ AnswerType(ranked)' /\ Compared' /\ Named'
  <2>1. FoundType'
    BY <1>3, <1>5, <1>6 DEF FoundType, Once
  <2>. QED
    BY <1>1, <2>1 DEF PagesInv, Types, AnswerType, AnswerShape, Compared, Named
<1>9. ASSUME seen.steady PROVE OnTheWay'
  <2>1. found.total = Cardinality(fused) /\ found.total > 0
    BY <1>1, <1>9 DEF PagesInv, OnTheWay, fused
  <2>2. fused # {}
    BY <2>1, FS_EmptySet
  <2>3. AiRows(legs) = rows
    BY <1>2, <2>2 DEF AiRows, rows, fused
  <2>4. Len(rows) = found.total
    BY <1>4, <2>1 DEF ListOf
  <2>5. AiRows(legs)' = AiRows(legs)
    BY <1>1, <1>7, MovingKeeps, AiRowsStay
  <2>6. PageOf(AiRows(legs))' = PageOf(AiRows(legs))
    BY <1>1, <2>5 DEF PageOf
  <2>. QED
    BY <1>1, <1>5, <2>3, <2>4, <2>5, <2>6 DEF OnTheWay
<1>. QED
  BY <1>1, <1>7, <1>8, <1>9, RetrievalKeeps

LEMMA BrowseKeeps == ASSUME PagesInv, Browse PROVE PagesInv'
<1>1. /\ pc = "browse" /\ pc' = "browse_page" /\ Local
      /\ UNCHANGED <<asked, intent, filters, vector, legs, ranked, answer, seen>>
      /\ found' = [found EXCEPT !.total = Cardinality(Filtered(filters))]
  BY DEF Browse, Goto
<1>2. filters = Wanted
  BY <1>1 DEF PagesInv, Understood
<1>3. FoundType
  BY DEF PagesInv, Types
<1>4. found' = [ids |-> found.ids, total |-> Cardinality(Filtered(Wanted))]
  BY <1>1, <1>2, <1>3 DEF FoundType
<1>5. Moving
  BY <1>1 DEF Moving
<1>6. legs' \in Legs /\ FoundType' /\ AnswerType(ranked)' /\ Compared' /\ Named'
  <2>1. FoundType'
    BY <1>3, <1>4, Totals DEF FoundType, Once
  <2>. QED
    BY <1>1, <2>1 DEF PagesInv, Types, AnswerType, AnswerShape, Compared, Named
<1>7. ASSUME seen.steady PROVE OnTheWay'
  <2>1. AiRows(legs) = BrowseRows(Wanted)
    BY <1>1, <1>7 DEF PagesInv, OnTheWay
  <2>2. Stays /\ Wanted' = Wanted
    BY <1>5, MovingKeeps
  <2>3. AiRows(legs)' = AiRows(legs) /\ BrowseRows(Wanted)' = BrowseRows(Wanted)
        /\ Filtered(Wanted)' = Filtered(Wanted)
    BY <1>1, <2>2, AiRowsStay, BrowseStays, FilteredStays
  <2>. QED
    BY <1>1, <1>4, <2>1, <2>3 DEF OnTheWay
<1>. QED
  BY <1>1, <1>5, <1>6, <1>7, RetrievalKeeps

LEMMA BrowsePageKeeps == ASSUME PagesInv, BrowsePage PROVE PagesInv'
<1>. DEFINE rows == BrowseRows(Wanted)
<1>1. /\ pc = "browse_page" /\ pc' = "rank" /\ Local
      /\ UNCHANGED <<asked, intent, filters, vector, legs, ranked, answer, seen>>
      /\ found' = [found EXCEPT !.ids = PageOf(BrowseRows(filters))]
  BY DEF BrowsePage, Goto
<1>2. filters = Wanted
  BY <1>1 DEF PagesInv, Understood
<1>3. ShopType /\ AskedType /\ found = [ids |-> found.ids, total |-> found.total] /\ found.total \in Nat
  BY DEF PagesInv, Types, FoundType
<1>4. ListOf(rows, SortBy(Wanted), Filtered(Wanted)) /\ Filtered(Wanted) \subseteq Products
  BY <1>3, BrowseRowsAre DEF Filtered, Active
<1>5. found' = [ids |-> PageOf(rows), total |-> found.total]
  <2>1. found' = [found EXCEPT !.ids = PageOf(rows)]
    BY <1>1, <1>2
  <2>. HIDE DEF rows
  <2>. QED
    BY <1>3, <2>1
<1>6. PageOf(rows) \in Seq(Products) /\ Once(PageOf(rows))
  BY <1>3, <1>4, PageRows
<1>. HIDE DEF rows
<1>7. Moving
  BY <1>1 DEF Moving
<1>8. legs' \in Legs /\ FoundType' /\ AnswerType(ranked)' /\ Compared' /\ Named'
  <2>1. FoundType'
    BY <1>3, <1>5, <1>6 DEF FoundType, Once
  <2>. QED
    BY <1>1, <2>1 DEF PagesInv, Types, AnswerType, AnswerShape, Compared, Named
<1>9. ASSUME seen.steady PROVE OnTheWay'
  <2>1. AiRows(legs) = rows /\ found.total = Cardinality(Filtered(Wanted))
    BY <1>1, <1>9 DEF PagesInv, OnTheWay, rows
  <2>2. Len(rows) = found.total
    BY <1>4, <2>1 DEF ListOf
  <2>3. AiRows(legs)' = AiRows(legs)
    BY <1>1, <1>7, MovingKeeps, AiRowsStay
  <2>4. PageOf(AiRows(legs))' = PageOf(AiRows(legs))
    BY <1>1, <2>3 DEF PageOf
  <2>. QED
    BY <1>1, <1>5, <2>1, <2>2, <2>3, <2>4 DEF OnTheWay
<1>. QED
  BY <1>1, <1>7, <1>8, <1>9, RetrievalKeeps

LEMMA RankAnswers ==
    ASSUME Rank, legs.semantic \in BOOLEAN, NEW T, found.ids \in Seq(T), Once(found.ids)
    PROVE  Answers(ranked', T)
<1>1. Permutes(found.ids, found.ids)
  BY DEF Permutes
<1>2. ASSUME NEW outcome, ranked' = Answered(outcome, found.ids, <<>>) PROVE Answers(ranked', T)
  BY <1>1, <1>2, AnsweredIs
<1>3. ASSUME NEW scores \in [DOMAIN HeadOf(found.ids) -> Scores],
             ranked' = Answered("applied", ByScore(found.ids, scores), ScoresInOrder(found.ids, scores))
      PROVE  Answers(ranked', T)
  <2>1. ByScore(found.ids, scores) \in Seq(T) /\ Permutes(ByScore(found.ids, scores), found.ids)
    BY ByScoreIs
  <2>. QED
    BY <1>3, <2>1, AnsweredIs
<1>. QED
  BY <1>2, <1>3 DEF Rank

LEMMA PageLength ==
    ASSUME AskedType, NEW T, NEW L \in Seq(T), Once(L), NEW k \in Nat, k < Len(PageOf(L))
    PROVE  Start + k < Stop
<1>. DEFINE m == Start
            e == Stop
<1>1. m \in Nat /\ e \in Nat /\ m < e
  BY StartStop
<1>2. Len(PageOf(L)) = IF m < Len(L) THEN Least(e, Len(L)) - m ELSE 0
  BY PageIs
<1>3. Len(L) \in Nat
  OBVIOUS
<1>. HIDE DEF m, e
<1>4. m + k < e
  BY <1>1, <1>2, <1>3 DEF Least
<1>. QED
  BY <1>4 DEF m, e

LEMMA RankKeeps == ASSUME PagesInv, Rank PROVE PagesInv'
<1>1. /\ pc = "rank" /\ pc' = "hydrate" /\ Local
      /\ UNCHANGED <<asked, intent, filters, vector, legs, found, answer, seen>>
  BY DEF Rank, Goto
<1>2. filters = Wanted
  BY <1>1 DEF PagesInv, Understood
<1>3. AskedType /\ ShopType /\ legs \in Legs /\ legs.semantic \in BOOLEAN /\ FoundType
  BY DEF PagesInv, Types, Legs
<1>4. Answers(ranked', Products)
  BY <1>3, RankAnswers DEF FoundType
<1>5. Moving
  BY <1>1 DEF Moving
<1>6. AnswerType(ranked)'
  <2>1. ranked'.total \in Nat
    <3>1. CASE ranked'.dropped = 0
      BY <1>3, <1>4, <3>1 DEF Answers, FoundType
    <3>2. CASE ranked'.dropped > 0
      <4>1. PICK k \in Nat : ranked'.total = Start + k
        BY <1>4, <3>2 DEF Answers
      <4>. QED
        BY <1>3, <4>1, StartStop
    <3>. QED
      BY <1>4, <3>1, <3>2 DEF Answers
  <2>. QED
    BY <1>4, <2>1 DEF Answers, AnswerType, AnswerShape
<1>7. legs' \in Legs /\ FoundType' /\ Compared' /\ Named'
  <2>1. Named'
    BY <1>1, <1>2, <1>4, <1>5, MovingKeeps DEF Named, Answers
  <2>. QED
    BY <1>1, <2>1 DEF PagesInv, Types, FoundType, Once, Compared
<1>8. ASSUME seen.steady PROVE OnTheWay'
  <2>. DEFINE L == AiRows(legs)
              sort == SortBy(Wanted)
              m == Start
              e == Stop
              a == ranked'
              rows == found.ids
  <2>1. rows = PageOf(L) /\ found.total = Len(L)
    BY <1>1, <1>8 DEF PagesInv, OnTheWay
  <2>2. L \in Seq(Active) /\ Once(L) /\ PriceOrder(L, sort)
    BY <1>3, AiRowsAre
  <2>3. rows \in Seq(Active) /\ Follows(rows, L) /\ Among(rows, L, m, e)
    BY <1>3, <2>1, <2>2, PageIs
  <2>4. Answers(a, Active)
    BY <1>3, <2>3, RankAnswers DEF Among
  <2>5. /\ L' = L /\ sort' = sort /\ m' = m /\ e' = e /\ Active' = Active /\ PageOf(L)' = PageOf(L)
    <3>1. Stays /\ Wanted' = Wanted /\ L' = L
      BY <1>1, <1>5, MovingKeeps, AiRowsStay
    <3>. QED
      BY <1>1, <3>1, FilteredStays DEF PageOf, Start, Stop, SortBy
  <2>6. PriceOrder(rows, sort)
    BY <2>2, <2>3, PriceFollows
  <2>. HIDE DEF L, sort, m, e, rows
  <2>7. PriceOrder(a.ids, sort)
    <3>1. CASE sort = "relevance"
      BY <3>1 DEF PriceOrder
    <3>2. CASE sort # "relevance"
      <4>1. Follows(a.ids, rows)
        BY <1>2, <2>4, <3>2 DEF Answers, sort, rows
      <4>. QED
        BY <2>6, <4>1, PriceFollows
    <3>. QED
      BY <3>1, <3>2
  <2>8. a.ids \in Seq(Active) /\ Among(a.ids, L, m, e)
    <3>1. /\ a.ids \in Seq(Active) /\ Once(a.ids)
          /\ \A i \in 1..Len(a.ids) : \E j \in 1..Len(rows) : a.ids[i] = rows[j]
      BY <2>4 DEF Answers, rows
    <3>. QED
      BY <2>3, <3>1, AmongPart
  <2>9. a.dropped = 0 => a.total = Len(L) /\ Len(a.ids) = Len(PageOf(L))
    BY <2>1, <2>4 DEF Answers, rows
  <2>10. ASSUME a.dropped > 0 PROVE a.total < e
    <3>1. PICK k \in Nat : k < Len(PageOf(L)) /\ a.total = Start + k
      BY <2>1, <2>4, <2>10 DEF Answers, rows
    <3>. QED
      BY <1>3, <2>2, <3>1, PageLength DEF e
  <2>11. PriceOrder(ranked.ids, SortBy(Wanted))'
    <3>1. Stays
      BY <1>5, MovingKeeps
    <3>2. \A x, s : PriceOrder(x, s)' <=> PriceOrder(x, s)
      BY <3>1, ListingStays
    <3>3. SortBy(Wanted)' = SortBy(Wanted)
      BY <2>5 DEF sort
    <3>. QED
      BY <2>7, <3>2, <3>3 DEF sort
  <2>12. RankedFrom(AiRows(legs))'
    BY <2>5, <2>8, <2>9, <2>10, <2>11 DEF RankedFrom, L, sort, m, e
  <2>. QED
    BY <1>1, <2>12 DEF OnTheWay
<1>. QED
  BY <1>1, <1>5, <1>6, <1>7, <1>8, RetrievalKeeps

LEMMA HydrateKeeps == ASSUME PagesInv, Hydrate PROVE PagesInv'
<1>. DEFINE a == [ranked EXCEPT !.ids = Hydrated(@)]
<1>1. /\ pc = "hydrate" /\ Tell("ai", a) /\ Local /\ pc' = "shown"
      /\ UNCHANGED <<asked, intent, filters, vector, legs, found, ranked>>
  BY DEF Hydrate, Tell, Goto
<1>2. AnswerType(ranked) /\ AskedType /\ ShopType
  BY DEF PagesInv, Types
<1>3. /\ a = AnswerShape(a) /\ a.ids = Only(ranked.ids, Active) /\ a.total = ranked.total
      /\ a.mode = ranked.mode /\ a.dropped = ranked.dropped
  BY <1>2 DEF AnswerType, AnswerShape, AnswerFields, Hydrated
<1>. HIDE DEF a
<1>4. AnswerType(a)
  <2>1. Only(ranked.ids, Active) \in Seq(Products)
    BY <1>2, OnlyIs DEF AnswerType
  <2>. QED
    BY <1>2, <1>3, <2>1 DEF AnswerType
<1>5. ASSUME seen.steady PROVE a.mode \notin {"rejected", "failed"} /\ PageIn(a, Listing(<<"ai", legs>>))
  <2>. DEFINE L == AiRows(legs)
  <2>1. RankedFrom(L)
    BY <1>1, <1>5 DEF PagesInv, OnTheWay
  <2>2. Listing(<<"ai", legs>>) = L
    BY DEF Listing
  <2>. HIDE DEF L
  <2>3. Only(ranked.ids, Active) = ranked.ids
    <3>1. ranked.ids \in Seq(Active)
      BY <2>1 DEF RankedFrom
    <3>2. \A i \in 1..Len(ranked.ids) : ranked.ids[i] \in Active
      BY <3>1
    <3>. QED
      BY <3>1, <3>2, OnlyIs
  <2>4. PageIn(a, L)
    BY <1>2, <1>3, <2>1, <2>3 DEF RankedFrom, PageIn, AnswerType
  <2>5. a.mode \notin {"rejected", "failed"}
    BY <1>1, <1>3 DEF PagesInv, Named
  <2>. QED
    BY <2>2, <2>4, <2>5
<1>6. Page("ai", a)
  BY <1>1, <1>4, <1>5 DEF Page
<1>7. legs' \in Legs /\ FoundType' /\ AnswerType(ranked)' /\ Compared'
  BY <1>1 DEF PagesInv, Types, FoundType, Once, AnswerType, AnswerShape, Compared
<1>. QED
  BY <1>6, <1>7, TellingKeeps

LEMMA UnreachableKeeps == ASSUME PagesInv, Unreachable PROVE PagesInv'
<1>1. /\ pc \in {"parse", "embed", "count", "page", "browse", "browse_page", "rank"} /\ Local
      /\ vector' = "unreachable" /\ found' = NoFound /\ legs' = NoLegs
      /\ UNCHANGED <<asked, intent, filters, ranked>>
  BY DEF Unreachable
<1>2. legs' \in Legs /\ FoundType' /\ AnswerType(ranked)' /\ Compared'
  BY <1>1 DEF PagesInv, Types, FoundType, NoFound, NoLegs, Legs, Once, AnswerType, AnswerShape, Compared
<1>3. CASE asked.tool
  <2>. DEFINE a == [NoAnswer EXCEPT !.mode = "failed"]
  <2>1. Tell("ai", a)
    BY <1>3 DEF Unreachable
  <2>2. AnswerType(a) /\ Apology(a)
    BY ApologyIs
  <2>. HIDE DEF a
  <2>3. Page("ai", a)
    BY <1>1, <2>1, <2>2 DEF Page
  <2>. QED
    BY <1>2, <2>3, TellingKeeps
<1>4. CASE ~asked.tool
  <2>1. pc' = "lexical" /\ answer' = answer /\ seen' = seen
    BY <1>4 DEF Unreachable, Goto
  <2>2. Moving
    BY <1>1, <2>1 DEF Moving
  <2>3. Types'
    BY <1>2, <2>1, <2>2, MovingKeeps DEF PagesInv, Types, AnswerType, AnswerShape
  <2>4. Understood' /\ Named' /\ Owned' /\ OnTheWay'
    BY <1>1, <2>1 DEF Understood, Named, Owned, OnTheWay
  <2>. QED
    BY <1>2, <2>1, <2>2, <2>3, <2>4, MovingKeeps DEF PagesInv
<1>. QED
  BY <1>3, <1>4

LEMMA StoreCountsKeeps == ASSUME PagesInv, StoreCounts PROVE PagesInv'
<1>1. /\ pc = "lexical" /\ pc' = "lexical_page" /\ Local
      /\ found' = [ids |-> <<>>, total |-> Cardinality(OnSale)]
      /\ UNCHANGED <<asked, intent, filters, vector, legs, ranked, answer, seen>>
  BY DEF StoreCounts, Goto, OnSale
<1>2. Moving
  BY <1>1 DEF Moving
<1>3. FoundType'
  BY <1>1, Totals DEF FoundType, Once
<1>4. Types'
  BY <1>1, <1>2, <1>3, MovingKeeps DEF PagesInv, Types, AnswerType, AnswerShape
<1>5. Understood' /\ Compared' /\ Named' /\ Owned'
  BY <1>1 DEF PagesInv, Understood, Compared, Named, Owned
<1>6. OnTheWay'
  <2>1. Stays
    BY <1>2, MovingKeeps
  <2>2. Len(StoreRows) = Cardinality(OnSale) /\ StoreRows' = StoreRows
    BY <2>1, StoreRowsList, StoreStays DEF PagesInv, Types, AskedType
  <2>. QED
    BY <1>1, <2>2 DEF OnTheWay
<1>. QED
  BY <1>1, <1>2, <1>4, <1>5, <1>6, MovingKeeps DEF PagesInv

LEMMA StoreListsKeeps == ASSUME PagesInv, StoreLists PROVE PagesInv'
<1>. DEFINE mode == IF asked.text = <<>> THEN "browse" ELSE "lexical"
            a == [NoAnswer EXCEPT
                     !.ids = PageOf(StoreRows),
                     !.total = found.total,
                     !.mode = mode,
                     !.reason = IF vector = "unreachable" THEN "search_unavailable" ELSE "none"]
            page == PageOf(StoreRows)
<1>1. /\ pc = "lexical_page" /\ Tell("store", a) /\ Local
      /\ UNCHANGED <<asked, intent, filters, vector, legs, found, ranked>>
  BY DEF StoreLists
<1>2. FoundType /\ AskedType /\ TextType /\ ShopType
  BY DEF PagesInv, Types, AskedType
<1>3. a = AnswerShape(a) /\ a.ids = page /\ a.total = found.total /\ a.mode = mode /\ a.dropped = 0
  <2>1. NoAnswer = AnswerShape(NoAnswer) /\ NoAnswer.dropped = 0
    BY NothingAnswered DEF AnswerType
  <2>. HIDE DEF mode
  <2>. QED
    BY <2>1 DEF AnswerShape, AnswerFields
<1>4. StoreRows \in Seq(Products) /\ StoreRows \in Seq(Active) /\ Once(StoreRows)
  BY <1>2, StoreRowsList, ActiveSeq
<1>5. page \in Seq(Products) /\ Among(page, StoreRows, Start, Stop)
  BY <1>2, <1>4, PageIs
<1>6. mode \notin {"rejected", "failed"}
  OBVIOUS
<1>. HIDE DEF a, mode
<1>7. AnswerType(a)
  BY <1>2, <1>3, <1>5 DEF AnswerType, FoundType
<1>8. ASSUME seen.steady PROVE a.mode \notin {"rejected", "failed"} /\ PageIn(a, Listing(<<"store", legs>>))
  <2>1. found.total = Len(StoreRows)
    BY <1>1, <1>8 DEF PagesInv, OnTheWay
  <2>2. Listing(<<"store", legs>>) = StoreRows
    BY DEF Listing
  <2>. HIDE DEF page
  <2>3. PageIn(a, StoreRows)
    BY <1>3, <1>5, <2>1 DEF PageIn, page
  <2>. QED
    BY <1>3, <1>6, <2>2, <2>3
<1>9. Page("store", a)
  BY <1>1, <1>7, <1>8 DEF Page
<1>10. legs' \in Legs /\ FoundType' /\ AnswerType(ranked)' /\ Compared'
  <2>1. pc' = "shown"
    BY <1>1 DEF Tell, Goto
  <2>. QED
    BY <1>1, <2>1 DEF PagesInv, Types, FoundType, Once, AnswerType, AnswerShape, Compared
<1>. QED
  BY <1>9, <1>10, TellingKeeps

LEMMA InitPages == Init => PagesInv
<1>. SUFFICES ASSUME Init PROVE PagesInv
  OBVIOUS
<1>1. /\ pc = "idle" /\ asked = NoQuery /\ coverage = NoLegs /\ legs = NoLegs /\ found = NoFound
      /\ ranked = NoAnswer /\ answer = NoAnswer /\ seen = Fresh
  BY DEF Init
<1>2. ShopType
  BY CatalogAssumption DEF Init, ShopType
<1>3. AskedType
  <2>1. NoQuery = Shape(NoQuery)
    BY DEF NoQuery, Shape, Fields
  <2>2. /\ NoQuery.text = <<>> /\ NoQuery.size = 1 /\ NoQuery.page = 1 /\ NoQuery.explicit = Nothing
        /\ NoQuery.ignored = {}
    BY DEF NoQuery
  <2>3. \A n \in Names : Nothing[n] = {}
    BY DEF Nothing
  <2>. QED
    BY <1>1, <2>1, <2>2, <2>3 DEF AskedType, TextType
<1>4. SeenType
  <2>1. Fresh \in [ids : Seq(Products), steady : BOOLEAN, sources : SUBSET Sources] /\ IsFiniteSet(Fresh.sources)
    BY FS_EmptySet DEF Fresh
  <2>. QED
    BY <1>1, <2>1 DEF SeenType
<1>5. FoundType
  BY <1>1 DEF FoundType, NoFound, Once
<1>6. NoLegs \in Legs
  BY DEF NoLegs, Legs
<1>7. Types
  BY <1>1, <1>2, <1>3, <1>4, <1>5, <1>6, NothingAnswered DEF Types
<1>8. Understood /\ Compared /\ Named /\ Owned /\ OnTheWay
  BY <1>1 DEF Understood, Compared, Named, Owned, OnTheWay, NoLegs
<1>9. History
  <2>1. Start = 0
    BY <1>1 DEF Start, NoQuery
  <2>2. \A src : Among(<<>>, Listing(src), 0, 0)
    BY DEF Among, Once
  <2>3. seen.ids = <<>> /\ pc # "shown"
    BY <1>1 DEF Fresh
  <2>. QED
    BY <2>1, <2>2, <2>3 DEF History, Turned
<1>. QED
  BY <1>7, <1>8, <1>9 DEF PagesInv

LEMMA PagesStep == PagesInv /\ [Next]_vars => PagesInv'
<1>. SUFFICES ASSUME PagesInv, [Next]_vars PROVE PagesInv'
  OBVIOUS
<1>1. CASE Ask
  BY <1>1, AskKeeps
<1>2. CASE NextPage
  BY <1>2, NextPageKeeps
<1>3. CASE Dismiss
  BY <1>3, DismissKeeps
<1>4. CASE Understand
  BY <1>4, UnderstandKeeps
<1>5. CASE Embed
  BY <1>5, EmbedKeeps
<1>6. CASE Count
  BY <1>6, CountKeeps
<1>7. CASE List
  BY <1>7, ListKeeps
<1>8. CASE Browse
  BY <1>8, BrowseKeeps
<1>9. CASE BrowsePage
  BY <1>9, BrowsePageKeeps
<1>10. CASE Rank
  BY <1>10, RankKeeps
<1>11. CASE Hydrate
  BY <1>11, HydrateKeeps
<1>12. CASE Unreachable
  BY <1>12, UnreachableKeeps
<1>13. CASE StoreCounts
  BY <1>13, StoreCountsKeeps
<1>14. CASE StoreLists
  BY <1>14, StoreListsKeeps
<1>15. CASE Refresh
  BY <1>15, RefreshKeeps
<1>16. CASE Index
  BY <1>16, IndexKeeps
<1>17. CASE Edit
  BY <1>17, EditKeeps
<1>18. CASE UNCHANGED vars
  <2>1. /\ UNCHANGED request /\ shop' = shop /\ documents' = documents /\ embedded' = embedded
        /\ coverage' = coverage /\ seen' = seen
    BY <1>18 DEF vars, index
  <2>2. UNCHANGED <<pc, asked, intent, filters, vector, legs, found, ranked, answer>>
    BY <2>1 DEF request
  <2>3. Types'
    BY <2>1, <2>2 DEF PagesInv, Types, ShopType, AskedType, TextType, Shape, SeenType, FoundType, Once,
                      AnswerType, AnswerShape
  <2>4. Understood' /\ Compared' /\ Named' /\ Owned'
    BY <2>1, RequestStays DEF PagesInv
  <2>5. Stays
    BY <2>1, <2>2 DEF Stays
  <2>6. /\ Wanted' = Wanted /\ Read' = Read /\ Start' = Start /\ Stop' = Stop
        /\ \A src : Listing(src)' = Listing(src)
        /\ \A L, sort : PriceOrder(L, sort)' <=> PriceOrder(L, sort)
    BY <2>2, <2>5, WantedStays, ListingStays DEF Start, Stop
  <2>7. History' <=> History
    BY <2>1, <2>2, <2>6 DEF History, Turned, Told
  <2>8. OnTheWay => OnTheWay'
    <3>1. /\ AiRows(legs)' = AiRows(legs) /\ BrowseRows(Wanted)' = BrowseRows(Wanted)
          /\ Filtered(Wanted)' = Filtered(Wanted) /\ StoreRows' = StoreRows /\ Active' = Active
      BY <2>2, <2>5, <2>6, AiRowsStay, BrowseStays, FilteredStays, StoreStays
    <3>2. Fused(legs, Wanted, Read.semantic)' = Fused(legs, Wanted, Read.semantic)
      BY <2>2, <2>5, <2>6, FusedStays
    <3>3. PageOf(AiRows(legs))' = PageOf(AiRows(legs))
      BY <2>2, <3>1 DEF PageOf
    <3>4. RankedFrom(AiRows(legs))' <=> RankedFrom(AiRows(legs))
      <4>1. SortBy(Wanted)' = SortBy(Wanted)
        BY <2>6 DEF SortBy
      <4>. QED
        BY <2>2, <2>6, <3>1, <3>3, <4>1 DEF RankedFrom
    <3>. QED
      BY <2>2, <3>1, <3>2, <3>3, <3>4 DEF OnTheWay
  <2>. QED
    BY <2>1, <2>3, <2>4, <2>7, <2>8 DEF PagesInv
<1>. QED
  BY <1>1, <1>2, <1>3, <1>4, <1>5, <1>6, <1>7, <1>8, <1>9, <1>10, <1>11, <1>12, <1>13, <1>14,
     <1>15, <1>16, <1>17, <1>18 DEF Next

LEMMA AlwaysPages == Spec => []PagesInv
BY InitPages, PagesStep, PTL DEF Spec

LEMMA PagesInvTells == PagesInv => PagesOnce
<1>. SUFFICES ASSUME PagesInv, pc = "shown", answer.mode \notin {"rejected", "failed"}, seen.steady,
                     Cardinality(seen.sources) = 1
              PROVE  /\ IsInjective(seen.ids)
                     /\ asked.page * asked.size >= answer.total /\ answer.dropped = 0 =>
                            Len(seen.ids) = answer.total
  BY DEF PagesOnce
<1>1. AskedType /\ SeenType /\ ShopType /\ AnswerType(answer)
  BY DEF PagesInv, Types
<1>2. PICK src : seen.sources = {src}
  BY <1>1, FS_Singleton DEF SeenType
<1>3. src \in Sources
  BY <1>1, <1>2 DEF SeenType
<1>4. Told(src)
  BY <1>2, <1>3 DEF PagesInv, History
<1>. DEFINE L == Listing(src)
            a == seen.ids
            k == Stop
<1>5. Len(L) \in Nat /\ k \in Nat
  BY <1>1, ListingIs, StartStop DEF AskedType
<1>6. /\ Once(a) /\ a \in Seq(Products)
      /\ answer.dropped = 0 => answer.total = Len(L) /\ Len(a) = Least(k, Len(L))
  BY <1>1, <1>4 DEF Told, Among, SeenType
<1>7. IsInjective(a)
  <2>. HIDE DEF a
  <2>1. DOMAIN a = 1..Len(a)
    BY <1>6
  <2>. QED
    BY <1>6, <2>1 DEF Once, IsInjective
<1>8. ASSUME k >= answer.total, answer.dropped = 0 PROVE Len(a) = answer.total
  BY <1>5, <1>6, <1>8 DEF Least
<1>. QED
  BY <1>7, <1>8 DEF Stop

\* Turning pages shows no product twice and misses none that was counted, while nothing
\* changes and one source answers, for any catalog, vocabulary, queries, page size, legs,
\* scores and cutoff (LIMIT and OFFSET of both services, apply_cutoff).
THEOREM PagesComplete == Spec => []PagesOnce
BY AlwaysPages, PagesInvTells, PTL

-----------------------------------------------------------------------------
(* What is shown is what it says.                                           *)
LEMMA RowsInOrder ==
    ASSUME ShopType, NEW ids \in Seq(Products), NEW sort, PriceOrder(ids, sort),
           NEW i \in DOMAIN Only(ids, {p \in Products : Detail[p].name # asked.text}),
           NEW j \in DOMAIN Only(ids, {p \in Products : Detail[p].name # asked.text}), i < j
    PROVE  LET rows == Only(ids, {p \in Products : Detail[p].name # asked.text})
           IN /\ sort = "price_asc" => shop[rows[i]].price <= shop[rows[j]].price
              /\ sort = "price_desc" => shop[rows[i]].price >= shop[rows[j]].price
<1>. DEFINE S == {p \in Products : Detail[p].name # asked.text}
            rows == Only(ids, S)
<1>1. /\ rows \in Seq(Products) /\ Follows(rows, ids)
      /\ \A k \in 1..Len(rows) : rows[k] \in S
  BY OnlyIs
<1>2. PriceOrder(rows, sort)
  BY <1>1, PriceFollows
<1>3. i \in 1..Len(rows) /\ j \in 1..Len(rows)
  <2>. HIDE DEF rows
  <2>1. DOMAIN rows = 1..Len(rows)
    BY <1>1
  <2>. QED
    BY <2>1 DEF rows
<1>4. ~Apart(rows[i]) /\ ~Apart(rows[j])
  BY <1>1, <1>3 DEF Apart
<1>. HIDE DEF rows, S
<1>5. /\ sort = "price_asc" => shop[rows[i]].price <= shop[rows[j]].price
      /\ sort = "price_desc" => shop[rows[i]].price >= shop[rows[j]].price
  BY <1>2, <1>3, <1>4 DEF PriceOrder
<1>. QED
  BY <1>5 DEF rows, S

(* An answer that is fit to be shown. *)
Fit(a, sort) ==
    /\ a.ids \in Seq(Products) /\ Range(a.ids) \subseteq Active
    /\ a.mode \in {"hybrid", "hybrid_reranked"} => vector = "there" /\ legs.semantic
    /\ a.mode = "lexical" /\ a.reason = "none" => ~Routing
    /\ \A k \in Chosen(asked.explicit, a.reported)["sort"] : k = sort
    /\ seen.steady => PriceOrder(a.ids, sort)
LEMMA FitIsShown == ASSUME ShopType, NEW sort, Fit(answer', sort) PROVE Shown
<1>. SUFFICES ASSUME seen.steady,
                     NEW i \in DOMAIN Only(answer'.ids, {p \in Products : Detail[p].name # asked.text}),
                     NEW j \in DOMAIN Only(answer'.ids, {p \in Products : Detail[p].name # asked.text}), i < j
              PROVE  LET chosen == Chosen(asked.explicit, answer'.reported)["sort"]
                         rows == Only(answer'.ids, {p \in Products : Detail[p].name # asked.text})
                     IN /\ "price_asc" \in chosen => shop[rows[i]].price <= shop[rows[j]].price
                        /\ "price_desc" \in chosen => shop[rows[i]].price >= shop[rows[j]].price
  BY DEF Shown, Fit
<1>. DEFINE chosen == Chosen(asked.explicit, answer'.reported)["sort"]
            ids == answer'.ids
<1>1. ids \in Seq(Products) /\ PriceOrder(ids, sort) /\ \A k \in chosen : k = sort
  BY DEF Fit
<1>. QED
  BY <1>1, RowsInOrder

LEMMA RangeWithin ==
    ASSUME NEW T, NEW a \in Seq(T), NEW S, \A k \in 1..Len(a) : a[k] \in S PROVE Range(a) \subseteq S
<1>1. DOMAIN a = 1..Len(a)
  OBVIOUS
<1>. QED
  BY <1>1 DEF Range

LEMMA HydrateShown == ASSUME PagesInv, Hydrate PROVE Shown
<1>. DEFINE a == [ranked EXCEPT !.ids = Hydrated(@)]
            sort == SortBy(Wanted)
<1>1. pc = "hydrate" /\ answer' = a
  BY DEF Hydrate, Tell
<1>2. AnswerType(ranked) /\ AskedType /\ ShopType /\ Named /\ Compared
  BY DEF PagesInv, Types
<1>3. /\ a.ids = Only(ranked.ids, Active) /\ a.mode = ranked.mode
      /\ a.reason = ranked.reason /\ a.reported = ranked.reported
  BY <1>2 DEF AnswerType, AnswerShape, AnswerFields, Hydrated
<1>. HIDE DEF a, sort
<1>4. a.ids \in Seq(Products) /\ Range(a.ids) \subseteq Active
  <2>1. ranked.ids \in Seq(Products)
    BY <1>2 DEF AnswerType
  <2>2. a.ids \in Seq(Products) /\ \A k \in 1..Len(a.ids) : a.ids[k] \in Active
    BY <1>3, <2>1, OnlyIs
  <2>. QED
    BY <2>2, RangeWithin
<1>5. /\ a.mode \in {"hybrid", "hybrid_reranked"} => vector = "there" /\ legs.semantic
      /\ a.mode = "lexical" => a.reason # "none"
  BY <1>1, <1>2, <1>3 DEF Named, Compared
<1>6. \A k \in Chosen(asked.explicit, a.reported)["sort"] : k = sort
  <2>1. a.reported = Wanted.reported
    BY <1>1, <1>2, <1>3 DEF Named
  <2>. QED
    BY <1>2, <2>1, OneSort DEF sort
<1>7. ASSUME seen.steady PROVE PriceOrder(a.ids, sort)
  <2>1. ranked.ids \in Seq(Active) /\ PriceOrder(ranked.ids, sort)
    BY <1>1, <1>7 DEF PagesInv, OnTheWay, RankedFrom, sort
  <2>2. Follows(a.ids, ranked.ids)
    BY <1>3, <2>1, OnlyIs
  <2>. QED
    BY <2>1, <2>2, PriceFollows
<1>. QED
  BY <1>1, <1>2, <1>4, <1>5, <1>6, <1>7, FitIsShown DEF Fit

LEMMA StoreListsShown == ASSUME PagesInv, StoreLists PROVE Shown
<1>. DEFINE mode == IF asked.text = <<>> THEN "browse" ELSE "lexical"
            reason == IF vector = "unreachable" THEN "search_unavailable" ELSE "none"
            page == PageOf(StoreRows)
            a == [NoAnswer EXCEPT !.ids = page, !.total = found.total, !.mode = mode, !.reason = reason]
<1>1. pc = "lexical_page" /\ answer' = a
  BY DEF StoreLists, Tell
<1>2. AskedType /\ TextType /\ ShopType /\ Owned
  BY DEF PagesInv, Types, AskedType
<1>3. a.ids = page /\ a.mode = mode /\ a.reason = reason /\ a.reported = Nothing
  <2>1. NoAnswer = AnswerShape(NoAnswer) /\ NoAnswer.reported = Nothing
    BY NothingAnswered DEF AnswerType
  <2>. HIDE DEF mode, reason, page
  <2>. QED
    BY <2>1 DEF AnswerShape, AnswerFields
<1>4. /\ StoreRows \in Seq(Active) /\ Once(StoreRows) /\ PriceOrder(StoreRows, StoreSort)
  BY <1>2, StoreRowsList
<1>5. page \in Seq(Active) /\ Follows(page, StoreRows)
  BY <1>2, <1>4, PageIs
<1>6. mode = "lexical" /\ reason = "none" => ~Routing
  BY <1>1, <1>2 DEF Owned
<1>7. mode \notin {"hybrid", "hybrid_reranked"}
  OBVIOUS
<1>8. ASSUME NEW k \in Chosen(asked.explicit, Nothing)["sort"] PROVE k = StoreSort
  <2>. DEFINE chosen == asked.explicit["sort"]
  <2>1. "sort" \in Names /\ Nothing["sort"] = {}
    BY DEF Names, Nothing
  <2>2. k \in chosen
    BY <2>1 DEF Chosen
  <2>3. \A v, w \in chosen : v = w
    BY <1>2, <2>1 DEF AskedType
  <2>4. StoreSort = CHOOSE c \in chosen : TRUE
    BY <2>2 DEF StoreSort
  <2>. HIDE DEF chosen
  <2>5. StoreSort \in chosen
    BY <2>2, <2>4
  <2>. QED
    BY <2>2, <2>3, <2>5
<1>. HIDE DEF a, mode, reason, page
<1>9. page \in Seq(Products) /\ Range(page) \subseteq Active
  BY <1>5, ActiveSeq, RangeWithin
<1>10. PriceOrder(page, StoreSort)
  BY <1>4, <1>5, PriceFollows
<1>. QED
  BY <1>1, <1>2, <1>3, <1>6, <1>7, <1>8, <1>9, <1>10, FitIsShown DEF Fit

(* Every other step leaves what is shown, or says that nothing is.          *)
LEMMA QuietShown ==
    ASSUME NEW m \in {"rejected", "failed"}, answer' = [NoAnswer EXCEPT !.mode = m] PROVE Shown
<1>1. NoAnswer.mode = "none" /\ NoAnswer = AnswerShape(NoAnswer)
  BY NothingAnswered DEF AnswerType
<1>2. answer'.mode = m
  BY <1>1 DEF AnswerShape, AnswerFields
<1>. QED
  BY <1>2 DEF Shown

LEMMA ShownStep == PagesInv /\ [Next]_vars => [Shown]_vars
<1>. SUFFICES ASSUME PagesInv, Next, pc # "shown", pc' = "shown" PROVE Shown
  BY DEF Shown
<1>1. CASE Hydrate
  BY <1>1, HydrateShown
<1>2. CASE StoreLists
  BY <1>2, StoreListsShown
<1>3. CASE Understand
  <2>1. answer' = [NoAnswer EXCEPT !.mode = "rejected"]
    BY <1>3 DEF Understand, Heard, Settle, Tell, Goto
  <2>. QED
    BY <2>1, QuietShown
<1>4. CASE Unreachable
  <2>1. answer' = [NoAnswer EXCEPT !.mode = "failed"]
    BY <1>4 DEF Unreachable, Tell, Goto
  <2>. QED
    BY <2>1, QuietShown
<1>5. ASSUME Ask \/ NextPage \/ Dismiss PROVE FALSE
  BY <1>5 DEF Ask, NextPage, Dismiss, Route, Goto
<1>6. ASSUME Embed \/ Count \/ List \/ Browse \/ BrowsePage \/ Rank \/ StoreCounts PROVE FALSE
  <2>1. CASE Count
    <3>1. PICK n : Counted(n) /\ n \in Nat
      BY <2>1, Totals DEF Count
    <3>. QED
      BY <3>1 DEF Counted, Goto
  <2>2. CASE Embed \/ List \/ Browse \/ BrowsePage \/ Rank \/ StoreCounts
    BY <2>2 DEF Embed, List, Browse, BrowsePage, Rank, StoreCounts, Goto
  <2>. QED
    BY <1>6, <2>1, <2>2
<1>7. ASSUME Refresh \/ Index \/ Edit PROVE FALSE
  BY <1>7 DEF Refresh, Index, Edit, Change, request
<1>. QED
  BY <1>1, <1>2, <1>3, <1>4, <1>5, <1>6, <1>7 DEF Next

\* What is shown is what it says, whatever is edited or indexed meanwhile: nothing archived,
\* "hybrid" only where vectors were compared, plain word search not called normal where the
\* AI service is to be asked, and a chosen order of price kept through the reranker and the
\* hydration (catalog_search_service.search, _classify, list_by_ids).
THEOREM ShownTrue == Spec => AnswerTrue
BY AlwaysPages, ShownStep, PTL DEF AnswerTrue, Spec

-----------------------------------------------------------------------------
(* No filter acts in silence.                                               *)
LEMMA WantedIs ==
    ASSUME AskedType, filters = Wanted
    PROVE  /\ Filtered(filters) = Right
           /\ \A n \in asked.ignored : filters.reported[n] = {}
<1>. DEFINE taken == [n \in Names |-> Applied(Read, asked.ignored, n)]
            effective == Chosen(asked.explicit, taken)
            Said(n) == IF asked.explicit[n] # {} THEN asked.explicit[n] ELSE filters.reported[n]
            origins == UNION {OriginsFor(k) : k \in Said("origin")}
<1>1. Wanted = Filters(Read, taken, effective, asked.ignored)
  BY DEF Wanted, Resolve, Merge
<1>2. Wanted.by = [effective EXCEPT
             !["in_stock_only"] = IF @ = {} THEN {FALSE} ELSE @,
             !["sort"] = CASE @ # {} -> @
                           [] @ = {} /\ Read.text # <<>> -> {"relevance"}
                           [] @ = {} /\ Read.text = <<>> -> {"newest"}]
  BY <1>1 DEF Filters
<1>6. filters.reported = taken
  BY <1>1 DEF Filters
<1>3. \A n \in Names : effective[n] = Said(n)
  BY <1>6 DEF Chosen
<1>4. \A n \in asked.ignored : filters.reported[n] = {}
  BY <1>6 DEF Applied, AskedType
<1>5. DOMAIN effective = Names /\ {"category", "origin", "min_price", "max_price", "in_stock_only"} \subseteq Names
  BY DEF Chosen, Names
<1>. HIDE DEF effective, taken, Said, origins
<1>7. filters.origins = origins
  <2>1. effective["origin"] = Said("origin")
    BY <1>3, <1>5
  <2>2. filters.origins = UNION {OriginsFor(k) : k \in effective["origin"]}
    BY <1>1 DEF Filters
  <2>. QED
    BY <2>1, <2>2 DEF origins
<1>8. /\ filters.by["category"] = Said("category") /\ filters.by["min_price"] = Said("min_price")
      /\ filters.by["max_price"] = Said("max_price")
      /\ filters.by["in_stock_only"] = IF Said("in_stock_only") = {} THEN {FALSE} ELSE Said("in_stock_only")
  <2>. DEFINE by == filters.by
  <2>1. /\ by["category"] = effective["category"] /\ by["min_price"] = effective["min_price"]
        /\ by["max_price"] = effective["max_price"]
    BY <1>2, <1>5
  <2>2. by["in_stock_only"] = IF effective["in_stock_only"] = {} THEN {FALSE} ELSE effective["in_stock_only"]
    BY <1>2, <1>5
  <2>. QED
    BY <1>3, <1>5, <2>1, <2>2
<1>9. TRUE \in filters.by["in_stock_only"] <=> TRUE \in Said("in_stock_only")
  BY <1>8
<1>10. ASSUME NEW p
       PROVE  (\A n \in Names : Meets(p, n, filters.by[n])) <=>
                  /\ Said("category") = {} \/ Detail[p].category \in Said("category")
                  /\ \A v \in Said("min_price") : shop[p].price >= v
                  /\ \A v \in Said("max_price") : shop[p].price <= v
                  /\ TRUE \in Said("in_stock_only") => shop[p].stock > 0
  <2>1. (\A n \in Names : Meets(p, n, filters.by[n])) <=>
            /\ Meets(p, "category", filters.by["category"]) /\ Meets(p, "min_price", filters.by["min_price"])
            /\ Meets(p, "max_price", filters.by["max_price"])
            /\ Meets(p, "in_stock_only", filters.by["in_stock_only"])
    <3>1. Meets(p, "origin", filters.by["origin"]) /\ Meets(p, "sort", filters.by["sort"])
      BY DEF Meets
    <3>. QED
      BY <3>1, Zenon DEF Names
  <2>2. /\ Meets(p, "category", filters.by["category"]) <=>
               Said("category") = {} \/ Detail[p].category \in Said("category")
        /\ Meets(p, "min_price", filters.by["min_price"]) <=> \A v \in Said("min_price") : shop[p].price >= v
        /\ Meets(p, "max_price", filters.by["max_price"]) <=> \A v \in Said("max_price") : shop[p].price <= v
        /\ Meets(p, "in_stock_only", filters.by["in_stock_only"]) <=>
               (TRUE \in Said("in_stock_only") => shop[p].stock > 0)
    BY <1>8, <1>9 DEF Meets
  <2>. QED
    BY <2>1, <2>2
<1>11. ASSUME NEW p
       PROVE  Promised(p) <=>
                  /\ p \in Active
                  /\ Said("category") # {} => Detail[p].category \in Said("category")
                  /\ origins # {} => Detail[p].origin \in origins
                  /\ \A v \in Said("min_price") : shop[p].price >= v
                  /\ \A v \in Said("max_price") : shop[p].price <= v
                  /\ TRUE \in Said("in_stock_only") => shop[p].stock > 0
  BY Zenon DEF Promised, Said, origins
<1>. HIDE DEF origins
<1>12. ASSUME NEW p PROVE p \in Filtered(filters) <=> p \in Right
  <2>1. p \in Filtered(filters) <=> /\ p \in Active /\ \A n \in Names : Meets(p, n, filters.by[n])
                                    /\ filters.origins = {} \/ Detail[p].origin \in filters.origins
    BY DEF Filtered
  <2>2. p \in Right <=> Promised(p)
    BY <1>11 DEF Right, Active
  <2>. QED
    BY <1>7, <1>10, <1>11, <2>1, <2>2
<1>. QED
  BY <1>4, <1>12

LEMMA FilteredFinite == \A f : IsFiniteSet(Filtered(f))
<1>1. \A f : Filtered(f) \subseteq Products
  BY DEF Filtered, Active
<1>. QED
  BY <1>1, ProductsAre, FS_Subset

(* Until a page is listed there is none of an earlier search.               *)
Unlisted == pc \in {"parse", "embed", "count", "page", "browse", "browse_page"} => found.ids = <<>>
LEMMA UnlistedStep == PagesInv /\ Unlisted /\ [Next]_vars => Unlisted'
<1>. SUFFICES ASSUME PagesInv, Unlisted, [Next]_vars,
                     pc' \in {"parse", "embed", "count", "page", "browse", "browse_page"}
              PROVE  found'.ids = <<>>
  BY DEF Unlisted
<1>1. CASE Ask \/ NextPage \/ Dismiss
  <2>1. found' = NoFound
    BY <1>1 DEF Ask, NextPage, Dismiss, Route
  <2>. QED
    BY <2>1 DEF NoFound
<1>2. CASE Understand \/ Embed
  BY <1>2 DEF Understand, Embed, Unlisted
<1>3. CASE Count
  BY <1>3 DEF Count, Counted
<1>4. CASE Browse
  BY <1>4 DEF Browse, Unlisted, PagesInv, Types, FoundType
<1>5. CASE Unreachable
  BY <1>5 DEF Unreachable, NoFound
<1>8. CASE Refresh \/ Index \/ Edit \/ UNCHANGED vars
  <2>1. UNCHANGED request
    BY <1>8 DEF Refresh, Index, Edit, Change, vars
  <2>. QED
    BY <2>1 DEF request, Unlisted
<1>6. CASE List \/ BrowsePage \/ Rank
  BY <1>6 DEF List, BrowsePage, Rank, Goto
<1>7. CASE Hydrate \/ StoreCounts \/ StoreLists
  BY <1>7 DEF Hydrate, StoreCounts, StoreLists, Tell, Goto
<1>. QED
  BY <1>1, <1>2, <1>3, <1>4, <1>5, <1>6, <1>7, <1>8 DEF Next

LEMMA AlwaysUnlisted == Spec => []Unlisted
<1>1. Init => Unlisted
  BY DEF Init, Unlisted
<1>. QED
  BY <1>1, AlwaysPages, UnlistedStep, PTL DEF Spec

LEMMA OnlyPromisedStep == PagesInv /\ Unlisted /\ [Next]_vars => [OnlyPromised]_vars
<1>. SUFFICES ASSUME PagesInv, Unlisted, Next, Retrieving PROVE OnlyPromised
  BY DEF OnlyPromised
<1>1. filters = Wanted /\ intent = Read /\ AskedType /\ ShopType
  BY DEF PagesInv, Types, Understood, Retrieving
<1>2. /\ Filtered(filters) = Right
      /\ \A n \in asked.ignored : filters.reported[n] = {}
  BY <1>1, WantedIs
<1>3. IsFiniteSet(Right)
  BY <1>2, FilteredFinite
<1>4. \A T : \A L \in Seq(T) : T \subseteq Right /\ Once(L) => Range(PageOf(L)) \subseteq Right
  <2>1. ASSUME NEW T, NEW L \in Seq(T), T \subseteq Right, Once(L) PROVE Range(PageOf(L)) \subseteq Right
    <3>1. PageOf(L) \in Seq(T)
      BY <1>1, <2>1, PageIs
    <3>. QED
      BY <2>1, <3>1 DEF Range
  <2>. QED
    BY <2>1
<1>5. Range(<<>>) \subseteq Right
  BY DEF Range
<1>6. CASE Count
  <2>. DEFINE S == DOMAIN Fused(legs', filters, intent.semantic)
  <2>1. pc = "count" /\ found' = [ids |-> <<>>, total |-> Cardinality(S)]
    BY <1>6 DEF Count, Counted
  <2>2. S \subseteq Right
    BY <1>2, FusedIs
  <2>. HIDE DEF S
  <2>3. Cardinality(S) <= Cardinality(Right)
    BY <1>3, <2>2, FS_Subset
  <2>. QED
    BY <1>2, <1>5, <2>1, <2>3 DEF OnlyPromised
<1>7. CASE List
  <2>. DEFINE S == DOMAIN Fused(legs, filters, intent.semantic)
              L == FusedRows(legs, filters, intent.text, intent.semantic)
  <2>1. pc = "page" /\ found'.ids = PageOf(L)
    BY <1>7 DEF List, PagesInv, Types, FoundType
  <2>2. ListOf(L, SortBy(filters), S)
    BY <1>1, ReadText, FusedRowsAre
  <2>3. S \subseteq Right
    BY <1>2, FusedIs
  <2>. HIDE DEF L, S
  <2>4. Range(PageOf(L)) \subseteq Right
    BY <1>4, <2>2, <2>3 DEF ListOf
  <2>. QED
    BY <1>2, <2>1, <2>4 DEF OnlyPromised
<1>8. CASE Browse
  <2>1. pc = "browse" /\ found'.ids = <<>> /\ found'.total = Cardinality(Right)
    BY <1>2, <1>8 DEF Browse, PagesInv, Types, FoundType, Unlisted
  <2>. QED
    BY <1>2, <1>5, <2>1 DEF OnlyPromised
<1>9. CASE BrowsePage
  <2>. DEFINE L == BrowseRows(filters)
  <2>1. pc = "browse_page" /\ found'.ids = PageOf(L)
    BY <1>9 DEF BrowsePage, PagesInv, Types, FoundType
  <2>2. ListOf(L, SortBy(filters), Right)
    BY <1>1, <1>2, BrowseRowsAre
  <2>. HIDE DEF L
  <2>3. Range(PageOf(L)) \subseteq Right
    BY <1>4, <2>2 DEF ListOf
  <2>. QED
    BY <1>2, <2>1, <2>3 DEF OnlyPromised
<1>10. Count \/ List \/ Browse \/ BrowsePage
  <2>1. ~(Ask \/ NextPage \/ Dismiss \/ Understand \/ Embed \/ Rank \/ Hydrate \/ Unreachable)
    BY DEF Retrieving, Ask, NextPage, Dismiss, Understand, Embed, Rank, Hydrate, Unreachable
  <2>2. ~(StoreCounts \/ StoreLists \/ Refresh \/ Index \/ Edit)
    BY DEF Retrieving, StoreCounts, StoreLists, Refresh, Index, Edit, Change, request
  <2>. QED
    BY <2>1, <2>2 DEF Next
<1>. QED
  BY <1>6, <1>7, <1>8, <1>9, <1>10

\* No filter acts in silence: at every statement of a retrieval what is counted or listed is on
\* sale and meets what the shopper chose or the answer will report as read, browsing counts all
\* of that, and what was waved away is not reported (resolve_filters, filtered_products).
THEOREM FiltersKept == Spec => [][OnlyPromised]_vars
BY AlwaysPages, AlwaysUnlisted, OnlyPromisedStep, PTL DEF Spec
-----------------------------------------------------------------------------
(* Reading a text (Parser).  The folds over sequences go from the left: the *)
(* recursion they stand for takes the last place out of 1..n.               *)
LEMMA MaxIs == ASSUME NEW n \in Nat, NEW s \in SUBSET (1..n), s # {}
               PROVE  Max(s) \in s /\ \A x \in s : x <= Max(s)
<1>. DEFINE S == {n - x : x \in s}
<1>0. \A x \in s : x \in Nat /\ x \in Int /\ n - x \in Nat
  <2>1. \A x \in 1..n : x \in Nat /\ x \in Int /\ n - x \in Nat
    OBVIOUS
  <2>. QED
    BY <2>1
<1>1. S \subseteq Nat /\ S # {}
  BY <1>0
<1>. HIDE DEF S
<1>2. PICK i \in S : \A j \in S : i <= j
  BY <1>1, LeastIs
<1>3. PICK x \in s : i = n - x
  BY <1>2 DEF S
<1>4. ASSUME NEW y \in s PROVE x >= y
  <2>1. n - y \in S /\ x \in Nat /\ y \in Nat
    BY <1>0 DEF S
  <2>2. n - x <= n - y
    BY <1>2, <1>3, <2>1
  <2>. QED
    BY <2>1, <2>2
<1>5. Max(s) \in s /\ \A y \in s : Max(s) >= y
  <2>1. \E z \in s : \A y \in s : z >= y
    BY <1>4
  <2>. QED
    BY <2>1, Zenon DEF Max
<1>6. \A y \in s : y \in Int /\ Max(s) \in Int
  BY <1>0, <1>5
<1>. QED
  BY <1>5, <1>6

LEMMA LastOf == ASSUME NEW k \in Nat \ {0} PROVE Max(1..k) = k /\ (1..k) \ {k} = 1..(k - 1)
<1>1. 1..k \in SUBSET (1..k) /\ 1..k # {} /\ k \in 1..k
  OBVIOUS
<1>2. Max(1..k) \in 1..k /\ \A x \in 1..k : x <= Max(1..k)
  BY <1>1, MaxIs
<1>3. \A m \in 1..k : k <= m => m = k
  OBVIOUS
<1>. QED
  BY <1>1, <1>2, <1>3

(* Induction up to n. *)
LEMMA UpTo == ASSUME NEW n \in Nat, NEW G, 0 \in G, \A k \in 1..n : k - 1 \in G => k \in G
              PROVE  \A k \in 0..n : k \in G
<1>. DEFINE S == (0..n) \ G
<1>. SUFFICES ASSUME S # {} PROVE FALSE
  OBVIOUS
<1>1. S \subseteq Nat
  OBVIOUS
<1>. HIDE DEF S
<1>2. PICK i \in S : \A j \in S : i <= j
  BY <1>1, LeastIs
<1>. USE DEF S
<1>3. i \in 1..n /\ i - 1 \in 0..n /\ ~(i <= i - 1)
  OBVIOUS
<1>4. i - 1 \in G
  BY <1>2, <1>3
<1>. QED
  BY <1>3, <1>4

FoldsLeft(n, T, base, step, g) ==
    /\ g \in [SUBSET (1..n) -> T] /\ g[{}] = base
    /\ \A s \in SUBSET (1..n) : s # {} => g[s] = step[Max(s)][g[s \ {Max(s)}]]

LEMMA LeftFold ==
    ASSUME NEW n \in Nat, NEW T, NEW base \in T, NEW step \in [1..n -> [T -> T]]
    PROVE  \E g : FoldsLeft(n, T, base, step, g)
<1>. DEFINE S == 1..n
            last == [s \in SUBSET S |-> Max(s)]
<1>1. IsFiniteSet(S) /\ \A s \in SUBSET S : s # {} => last[s] \in s /\ last[s] = Max(s)
  <2>1. 1 \in Int /\ n \in Int
    OBVIOUS
  <2>2. IsFiniteSet(1..n)
    BY <2>1, FS_Interval
  <2>. QED
    BY <2>2, MaxIs
<1>. HIDE DEF last, S
<1>2. Picks(last, S)
  BY <1>1 DEF Picks
<1>3. PICK h : Folds(last, base, step, S, h)
  BY <1>1, <1>2, FoldsExists
<1>4. /\ h = [s \in SUBSET S |-> h[s]] /\ h[{}] = base
      /\ \A s \in SUBSET S : s # {} => h[s] = step[last[s]][h[s \ {last[s]}]]
  BY <1>3, Zenon DEF Folds
<1>5. \A s \in SUBSET S : s # {} => h[s] = step[Max(s)][h[s \ {Max(s)}]]
  BY <1>1, <1>4
<1>6. ASSUME NEW s \in SUBSET S PROVE h[s] \in T
  <2>1. IsFiniteSet(s)
    BY <1>1, FS_Subset
  <2>2. ASSUME NEW u \in SUBSET s, u # {}, h[u \ {last[u]}] \in T PROVE h[u] \in T
    <3>1. u \in SUBSET S /\ last[u] \in S
      BY <1>1, <2>2
    <3>2. step[last[u]] \in [T -> T]
      BY <3>1 DEF S
    <3>. QED
      BY <1>4, <2>2, <3>1, <3>2
  <2>3. \A u \in SUBSET s : u # {} => \E x \in u : h[u \ {x}] \in T => h[u] \in T
    BY <1>1, <2>2
  <2>. QED
    BY <1>4, <2>1, <2>3, FoldKeeps
<1>7. h \in [SUBSET S -> T]
  BY <1>4, <1>6
<1>. QED
  BY <1>4, <1>5, <1>7 DEF S, FoldsLeft

(* The words that are kept, one after the other. *)
LEMMA StripFold ==
    ASSUME NEW t \in Seq(DOMAIN Chars), NEW taken
    PROVE  \E kept \in [0..Len(t) -> Seq(DOMAIN Chars)] :
               /\ kept[0] = <<>> /\ Strip(t, taken) = kept[Len(t)]
               /\ \A k \in 1..Len(t) : kept[k] = IF Overlaps(Span(k, k + 1, 0), taken) THEN kept[k - 1]
                                                 ELSE Append(kept[k - 1], t[k])
<1>. DEFINE n == Len(t)
            T == Seq(DOMAIN Chars)
            After(kept, i) == IF Overlaps(Span(i, i + 1, 0), taken) THEN kept ELSE Append(kept, t[i])
            step == [i \in 1..n |-> [m \in T |-> After(m, i)]]
            places == Positions(t)
            Solves(h) == h = [s \in SUBSET DOMAIN places |->
                                 IF s = {} THEN <<>> ELSE After(h[s \ {Max(s)}], places[Max(s)])]
            h == CHOOSE h : Solves(h)
<1>1. n \in Nat /\ DOMAIN places = 1..n /\ \A i \in 1..n : places[i] = i
  BY DEF Positions
<1>2. ASSUME NEW i \in 1..n, NEW m \in T PROVE After(m, i) \in T
  <2>1. t[i] \in DOMAIN Chars
    OBVIOUS
  <2>2. Append(m, t[i]) \in Seq(DOMAIN Chars)
    BY <2>1, AppendProperties
  <2>. QED
    BY <2>2
<1>3. Strip(t, taken) = h[DOMAIN places]
  BY DEF Strip, FoldLeft, MapThenFoldSet
<1>. HIDE DEF After
<1>4. step \in [1..n -> [T -> T]] /\ <<>> \in T
  BY <1>2
<1>5. \A i \in 1..n, m \in T : step[i][m] = After(m, i)
  OBVIOUS
<1>. HIDE DEF step, T, n, places
<1>6. PICK g : FoldsLeft(n, T, <<>>, step, g)
  BY <1>1, <1>4, LeftFold
<1>7. Solves(g)
  <2>1. ASSUME NEW s \in SUBSET (1..n)
        PROVE  g[s] = IF s = {} THEN <<>> ELSE After(g[s \ {Max(s)}], places[Max(s)])
    <3>1. CASE s # {}
      <4>1. Max(s) \in 1..n /\ s \ {Max(s)} \in SUBSET (1..n)
        BY <1>1, <3>1, MaxIs
      <4>2. g[s \ {Max(s)}] \in T
        BY <1>6, <4>1 DEF FoldsLeft
      <4>. QED
        BY <1>1, <1>5, <1>6, <3>1, <4>1, <4>2 DEF FoldsLeft
    <3>. QED
      BY <1>6, <3>1 DEF FoldsLeft
  <2>2. g = [s \in SUBSET (1..n) |-> g[s]]
    BY <1>6 DEF FoldsLeft
  <2>. QED
    BY <1>1, <2>1, <2>2, Zenon
<1>8. Solves(h)
  BY <1>7, Zenon
<1>. HIDE DEF h
<1>9. /\ h[{}] = <<>>
      /\ \A k \in 1..n : h[1..k] = After(h[1..(k - 1)], k)
  <2>1. ASSUME NEW s \in SUBSET (1..n)
        PROVE  h[s] = IF s = {} THEN <<>> ELSE After(h[s \ {Max(s)}], places[Max(s)])
    BY <1>1, <1>8, Zenon
  <2>2. ASSUME NEW k \in 1..n PROVE h[1..k] = After(h[1..(k - 1)], k)
    <3>1. k \in Nat \ {0} /\ 1..k \in SUBSET (1..n) /\ 1..k # {}
      <4>1. k \in Nat \ {0} /\ k <= n
        BY <1>1
      <4>2. \A x \in 1..k : x \in 1..n
        BY <1>1, <4>1
      <4>3. 1 \in 1..k
        BY <4>1
      <4>. QED
        BY <4>1, <4>2, <4>3
    <3>2. Max(1..k) = k /\ (1..k) \ {k} = 1..(k - 1)
      BY <3>1, LastOf
    <3>. QED
      BY <1>1, <2>1, <3>1, <3>2
  <2>3. h[{}] = <<>>
    BY <2>1
  <2>. QED
    BY <2>2, <2>3
<1>. DEFINE kept == [k \in 0..n |-> h[1..k]]
            Typed == {k \in 0..n : kept[k] \in T}
<1>10. kept[0] = <<>> /\ \A k \in 1..n : kept[k] = After(kept[k - 1], k)
  <2>1. 1..0 = {} /\ 0 \in 0..n
    BY <1>1
  <2>2. \A k \in 1..n : k \in 0..n /\ k - 1 \in 0..n
    BY <1>1
  <2>. QED
    BY <1>9, <2>1, <2>2
<1>11. kept = [k \in 0..n |-> kept[k]] /\ n \in 0..n /\ kept[n] = h[1..n]
  BY <1>1
<1>. HIDE DEF kept
<1>12. \A k \in 0..n : k \in Typed
  <2>1. 0 \in Typed
    BY <1>1, <1>4, <1>10
  <2>2. ASSUME NEW k \in 1..n, k - 1 \in Typed PROVE k \in Typed
    <3>1. kept[k] \in T
      BY <1>2, <1>10, <2>2
    <3>. QED
      BY <1>1, <3>1
  <2>. HIDE DEF Typed
  <2>. QED
    BY <1>1, <2>1, <2>2, UpTo
<1>13. kept \in [0..n -> T]
  BY <1>11, <1>12
<1>. QED
  BY <1>1, <1>3, <1>10, <1>11, <1>13 DEF After, n, T

(* What is kept: the words that nothing has taken, in their order. *)
Left(t, taken) == {i \in DOMAIN t : ~Overlaps(Span(i, i + 1, 0), taken)}
LEMMA StripIs ==
    ASSUME NEW t \in Seq(DOMAIN Chars), NEW taken
    PROVE  /\ IsFiniteSet(Left(t, taken))
           /\ Strip(t, taken) \in Seq(DOMAIN Chars)
           /\ Len(Strip(t, taken)) = Cardinality(Left(t, taken))
           /\ \A i \in Left(t, taken) :
                  Strip(t, taken)[Cardinality({j \in Left(t, taken) : j <= i})] = t[i]
<1>. DEFINE n == Len(t)
            left == Left(t, taken)
            To(k) == {j \in left : j <= k}
            c(k) == Cardinality(To(k))
<1>1. PICK kept \in [0..n -> Seq(DOMAIN Chars)] :
          /\ kept[0] = <<>> /\ Strip(t, taken) = kept[n]
          /\ \A k \in 1..n : kept[k] = IF Overlaps(Span(k, k + 1, 0), taken) THEN kept[k - 1]
                                       ELSE Append(kept[k - 1], t[k])
  BY StripFold
<1>2. n \in Nat /\ left \subseteq 1..n /\ \A k \in 1..n : k \in left <=> ~Overlaps(Span(k, k + 1, 0), taken)
  BY DEF Left
<1>3. \A k \in 1..n : /\ kept[k] = IF k \in left THEN Append(kept[k - 1], t[k]) ELSE kept[k - 1]
                      /\ kept[k - 1] \in Seq(DOMAIN Chars) /\ kept[k] \in Seq(DOMAIN Chars)
  <2>1. \A k \in 1..n : k \in 0..n /\ k - 1 \in 0..n
    BY <1>2
  <2>. QED
    BY <1>1, <1>2, <2>1
<1>4. IsFiniteSet(left) /\ \A k \in 0..n : IsFiniteSet(To(k)) /\ c(k) \in Nat
  <2>1. 1 \in Int /\ n \in Int
    BY <1>2
  <2>2. IsFiniteSet(left)
    BY <1>2, <2>1, FS_Interval, FS_Subset
  <2>3. \A k : To(k) \subseteq left
    OBVIOUS
  <2>. HIDE DEF To, left
  <2>. QED
    BY <2>2, <2>3, FS_Subset, FS_CardinalityType
<1>5. To(0) = {} /\ To(n) = left
  <2>. HIDE DEF left
  <2>1. \A j \in 1..n : ~(j <= 0) /\ j <= n
    BY <1>2
  <2>. QED
    BY <1>2, <2>1
<1>6. ASSUME NEW k \in 1..n
      PROVE  /\ k \in left => c(k) = c(k - 1) + 1
             /\ k \notin left => To(k) = To(k - 1)
             /\ \A i \in To(k) : i \in To(k - 1) \/ i = k
             /\ k - 1 \in 0..n
  <2>. HIDE DEF left
  <2>1. \A j \in 1..n : (j <= k <=> j <= k - 1 \/ j = k) /\ ~(k <= k - 1)
    BY <1>2
  <2>2. /\ k \in left => To(k) = To(k - 1) \cup {k} /\ k \notin To(k - 1)
        /\ k \notin left => To(k) = To(k - 1)
        /\ \A i \in To(k) : i \in To(k - 1) \/ i = k
    BY <1>2, <2>1
  <2>. HIDE DEF To
  <2>3. k - 1 \in 0..n
    BY <1>2
  <2>. QED
    BY <1>4, <2>2, <2>3, FS_AddElement
<1>. HIDE DEF left, To, c
<1>. DEFINE G == {k \in 0..n : /\ Len(kept[k]) = c(k)
                               /\ \A i \in To(k) : c(i) \in 1..Len(kept[k]) /\ kept[k][c(i)] = t[i]}
<1>7. 0 \in G
  <2>1. c(0) = 0
    BY <1>5, FS_EmptySet DEF c
  <2>. QED
    BY <1>1, <1>2, <1>5, <2>1
<1>8. ASSUME NEW k \in 1..n, k - 1 \in G PROVE k \in G
  <2>1. /\ Len(kept[k - 1]) = c(k - 1) /\ c(k - 1) \in Nat
        /\ \A i \in To(k - 1) : c(i) \in 1..Len(kept[k - 1]) /\ kept[k - 1][c(i)] = t[i]
    BY <1>4, <1>6, <1>8
  <2>. HIDE DEF G
  <2>2. CASE k \in left
    <3>. DEFINE old == kept[k - 1]
    <3>1. kept[k] = Append(old, t[k]) /\ old \in Seq(DOMAIN Chars)
      BY <1>3, <2>2
    <3>2. /\ Len(kept[k]) = Len(old) + 1 /\ kept[k][Len(old) + 1] = t[k]
          /\ \A m \in 1..Len(old) : kept[k][m] = old[m]
      BY <3>1
    <3>3. c(k) = c(k - 1) + 1
      BY <1>6, <2>2
    <3>4. Len(kept[k]) = c(k) /\ c(k) \in 1..Len(kept[k]) /\ kept[k][c(k)] = t[k]
      BY <2>1, <3>2, <3>3
    <3>5. ASSUME NEW i \in To(k - 1) PROVE c(i) \in 1..Len(kept[k]) /\ kept[k][c(i)] = t[i]
      <4>1. c(i) \in 1..Len(old) /\ old[c(i)] = t[i]
        BY <2>1
      <4>2. \A m \in 1..Len(old) : m \in 1..(Len(old) + 1)
        BY <3>1
      <4>. QED
        BY <3>2, <4>1, <4>2
    <3>6. k \in 0..n
      BY <1>2
    <3>. QED
      BY <1>6, <3>4, <3>5, <3>6 DEF G
  <2>3. CASE k \notin left
    <3>1. kept[k] = kept[k - 1] /\ To(k) = To(k - 1) /\ k \in 0..n
      BY <1>2, <1>3, <1>6, <2>3
    <3>2. c(k) = c(k - 1)
      BY <3>1 DEF c
    <3>. QED
      BY <2>1, <3>1, <3>2 DEF G
  <2>. QED
    BY <2>2, <2>3
<1>9. n \in G
  <2>. HIDE DEF G
  <2>1. \A k \in 0..n : k \in G
    BY <1>2, <1>7, <1>8, UpTo
  <2>. QED
    BY <1>2, <2>1
<1>10. Strip(t, taken) \in Seq(DOMAIN Chars) /\ Strip(t, taken) = kept[n]
  BY <1>1, <1>2
<1>11. \A i \in left : c(i) = Cardinality({j \in left : j <= i})
  BY DEF c, To
<1>12. c(n) = Cardinality(left)
  BY <1>5 DEF c
<1>. QED
  BY <1>4, <1>5, <1>9, <1>10, <1>11, <1>12 DEF left

(* The letters of the words, added up one word after the other. *)
LEMMA LengthFold ==
    ASSUME NEW t \in Seq(DOMAIN Chars)
    PROVE  \E sum \in [0..Len(t) -> Nat] :
               /\ sum[0] = 0 /\ Length(t) = sum[Len(t)]
               /\ \A k \in 1..Len(t) : sum[k] = sum[k - 1] + Chars[t[k]] + 1
<1>. DEFINE n == Len(t)
            T == Nat
            After(sum, w) == sum + Chars[w] + 1
            step == [i \in 1..n |-> [m \in T |-> After(m, t[i])]]
            Solves(h) == h = [s \in SUBSET DOMAIN t |->
                                 IF s = {} THEN 0 ELSE After(h[s \ {Max(s)}], t[Max(s)])]
            h == CHOOSE h : Solves(h)
<1>1. n \in Nat /\ DOMAIN t = 1..n
  OBVIOUS
<1>2. ASSUME NEW i \in 1..n, NEW m \in T PROVE After(m, t[i]) \in T
  <2>1. Chars[t[i]] \in Nat
    BY ParserAssumption
  <2>. QED
    BY <2>1
<1>3. Length(t) = h[DOMAIN t]
  BY DEF Length, FoldLeft, MapThenFoldSet
<1>. HIDE DEF After
<1>4. step \in [1..n -> [T -> T]] /\ 0 \in T
  BY <1>2
<1>5. \A i \in 1..n, m \in T : step[i][m] = After(m, t[i])
  OBVIOUS
<1>. HIDE DEF step, T, n
<1>6. PICK g : FoldsLeft(n, T, 0, step, g)
  BY <1>1, <1>4, LeftFold
<1>7. Solves(g)
  <2>1. ASSUME NEW s \in SUBSET (1..n)
        PROVE  g[s] = IF s = {} THEN 0 ELSE After(g[s \ {Max(s)}], t[Max(s)])
    <3>1. CASE s # {}
      <4>1. Max(s) \in 1..n /\ s \ {Max(s)} \in SUBSET (1..n)
        BY <1>1, <3>1, MaxIs
      <4>2. g[s \ {Max(s)}] \in T
        BY <1>6, <4>1 DEF FoldsLeft
      <4>. QED
        BY <1>1, <1>5, <1>6, <3>1, <4>1, <4>2 DEF FoldsLeft
    <3>. QED
      BY <1>6, <3>1 DEF FoldsLeft
  <2>2. g = [s \in SUBSET (1..n) |-> g[s]]
    BY <1>6 DEF FoldsLeft
  <2>. QED
    BY <1>1, <2>1, <2>2, Zenon
<1>8. Solves(h)
  BY <1>7, Zenon
<1>. HIDE DEF h
<1>9. /\ h[{}] = 0
      /\ \A k \in 1..n : h[1..k] = After(h[1..(k - 1)], t[k])
  <2>1. ASSUME NEW s \in SUBSET (1..n)
        PROVE  h[s] = IF s = {} THEN 0 ELSE After(h[s \ {Max(s)}], t[Max(s)])
    BY <1>1, <1>8, Zenon
  <2>2. ASSUME NEW k \in 1..n PROVE h[1..k] = After(h[1..(k - 1)], t[k])
    <3>1. k \in Nat \ {0} /\ 1..k \in SUBSET (1..n) /\ 1..k # {}
      <4>1. k \in Nat \ {0} /\ k <= n
        BY <1>1
      <4>2. \A x \in 1..k : x \in 1..n
        BY <1>1, <4>1
      <4>3. 1 \in 1..k
        BY <4>1
      <4>. QED
        BY <4>1, <4>2, <4>3
    <3>2. Max(1..k) = k /\ (1..k) \ {k} = 1..(k - 1)
      BY <3>1, LastOf
    <3>. QED
      BY <1>1, <2>1, <3>1, <3>2
  <2>3. h[{}] = 0
    BY <2>1
  <2>. QED
    BY <2>2, <2>3
<1>. DEFINE sum == [k \in 0..n |-> h[1..k]]
            Typed == {k \in 0..n : sum[k] \in T}
<1>10. sum[0] = 0 /\ \A k \in 1..n : sum[k] = After(sum[k - 1], t[k])
  <2>1. 1..0 = {} /\ 0 \in 0..n
    BY <1>1
  <2>2. \A k \in 1..n : k \in 0..n /\ k - 1 \in 0..n
    BY <1>1
  <2>. QED
    BY <1>9, <2>1, <2>2
<1>11. sum = [k \in 0..n |-> sum[k]] /\ n \in 0..n /\ sum[n] = h[1..n]
  BY <1>1
<1>. HIDE DEF sum
<1>12. \A k \in 0..n : k \in Typed
  <2>1. 0 \in Typed
    BY <1>1, <1>4, <1>10
  <2>2. ASSUME NEW k \in 1..n, k - 1 \in Typed PROVE k \in Typed
    <3>1. sum[k] \in T
      BY <1>2, <1>10, <2>2
    <3>. QED
      BY <1>1, <3>1
  <2>. HIDE DEF Typed
  <2>. QED
    BY <1>1, <2>1, <2>2, UpTo
<1>13. sum \in [0..n -> T]
  BY <1>11, <1>12
<1>. QED
  BY <1>1, <1>3, <1>10, <1>11, <1>13 DEF After, n, T


LEMMA LengthNat == ASSUME NEW t \in Seq(DOMAIN Chars) PROVE Length(t) \in Nat
<1>1. PICK sum \in [0..Len(t) -> Nat] : Length(t) = sum[Len(t)]
  BY LengthFold
<1>2. Len(t) \in 0..Len(t)
  OBVIOUS
<1>. QED
  BY <1>1, <1>2

(* A word begins behind the word before it and a blank. *)
LEMMA OffsetNext ==
    ASSUME NEW t \in Seq(DOMAIN Chars), NEW i \in 1..Len(t)
    PROVE  Offset(t, i + 1) = Offset(t, i) + Chars[t[i]] + 1
<1>. DEFINE a == SubSeq(t, 1, i - 1)
            b == SubSeq(t, 1, i)
<1>1. /\ i \in Nat \ {0} /\ i - 1 \in Nat /\ i <= Len(t) /\ i - 1 <= Len(t) /\ (i + 1) - 1 = i
      /\ Len(t) \in Nat /\ Chars[t[i]] \in Nat
  BY ParserAssumption
<1>2. /\ a \in Seq(DOMAIN Chars) /\ Len(a) = i - 1 /\ \A k \in 1..(i - 1) : a[k] = t[k]
      /\ b \in Seq(DOMAIN Chars) /\ Len(b) = i /\ \A k \in 1..i : b[k] = t[k]
  <2>1. 1 \in Nat \ {0} /\ i \in Int /\ i - 1 \in Int
    BY <1>1
  <2>2. /\ a \in Seq(DOMAIN Chars) /\ Len(a) = IF 1 <= i - 1 THEN (i - 1) - 1 + 1 ELSE 0
        /\ \A k \in 1..Len(a) : a[k] = t[1 + k - 1]
    BY <1>1, <2>1, PartFollows
  <2>3. /\ b \in Seq(DOMAIN Chars) /\ Len(b) = IF 1 <= i THEN i - 1 + 1 ELSE 0
        /\ \A k \in 1..Len(b) : b[k] = t[1 + k - 1]
    BY <1>1, <2>1, PartFollows
  <2>4. \A k \in 1..i : 1 + k - 1 = k
    BY <1>1
  <2>5. \A k \in 1..(i - 1) : k \in 1..i
    BY <1>1
  <2>6. Len(a) = i - 1 /\ Len(b) = i
    BY <1>1, <2>2, <2>3
  <2>. HIDE DEF a, b
  <2>. QED
    BY <2>2, <2>3, <2>4, <2>5, <2>6
<1>3. Offset(t, i + 1) = Length(b) /\ Offset(t, i) = Length(a)
  BY <1>1 DEF Offset
<1>. HIDE DEF a, b
<1>4. PICK f \in [0..(i - 1) -> Nat] :
          f[0] = 0 /\ Length(a) = f[i - 1] /\ \A k \in 1..(i - 1) : f[k] = f[k - 1] + Chars[a[k]] + 1
  <2>1. \E f \in [0..Len(a) -> Nat] :
          f[0] = 0 /\ Length(a) = f[Len(a)] /\ \A k \in 1..Len(a) : f[k] = f[k - 1] + Chars[a[k]] + 1
    BY <1>2, LengthFold
  <2>. QED
    BY <1>2, <2>1
<1>5. PICK g \in [0..i -> Nat] :
          g[0] = 0 /\ Length(b) = g[i] /\ \A k \in 1..i : g[k] = g[k - 1] + Chars[b[k]] + 1
  <2>1. \E g \in [0..Len(b) -> Nat] :
          g[0] = 0 /\ Length(b) = g[Len(b)] /\ \A k \in 1..Len(b) : g[k] = g[k - 1] + Chars[b[k]] + 1
    BY <1>2, LengthFold
  <2>. QED
    BY <1>2, <2>1
<1>. DEFINE G == {k \in 0..(i - 1) : f[k] = g[k]}
<1>6. 0 \in G
  BY <1>1, <1>4, <1>5
<1>7. ASSUME NEW k \in 1..(i - 1), k - 1 \in G PROVE k \in G
  <2>1. f[k - 1] = g[k - 1] /\ k \in 1..i /\ k \in 0..(i - 1)
    BY <1>1, <1>7
  <2>2. a[k] = b[k]
    BY <1>2, <2>1
  <2>3. f[k] = g[k]
    BY <1>4, <1>5, <2>1, <2>2
  <2>. QED
    BY <2>1, <2>3
<1>. HIDE DEF G
<1>8. \A k \in 0..(i - 1) : k \in G
  BY <1>1, <1>6, <1>7, UpTo
<1>. USE DEF G
<1>9. f[i - 1] = g[i - 1]
  <2>1. i - 1 \in 0..(i - 1)
    BY <1>1
  <2>. QED
    BY <1>8, <2>1
<1>10. g[i] = g[i - 1] + Chars[t[i]] + 1
  BY <1>1, <1>2, <1>5
<1>. QED
  BY <1>3, <1>4, <1>5, <1>9, <1>10

LEMMA OffsetNat ==
    ASSUME NEW t \in Seq(DOMAIN Chars), NEW i \in 1..(Len(t) + 1)
    PROVE  Offset(t, i) \in Nat
<1>1. /\ 1 \in Nat \ {0} /\ i - 1 \in Int /\ i - 1 <= Len(t) /\ Len(t) \in Nat
  OBVIOUS
<1>2. SubSeq(t, 1, i - 1) \in Seq(DOMAIN Chars)
  BY <1>1, PartFollows
<1>. QED
  BY <1>2, LengthNat DEF Offset

LEMMA OffsetGrows ==
    ASSUME NEW t \in Seq(DOMAIN Chars), NEW a \in 1..(Len(t) + 1), NEW b \in 1..(Len(t) + 1), a <= b
    PROVE  Offset(t, a) <= Offset(t, b)
<1>. DEFINE n == Len(t) + 1 - a
            G == {k \in 0..n : Offset(t, a) <= Offset(t, a + k)}
<1>1. n \in Nat /\ a + 0 = a /\ b - a \in 0..n /\ a + (b - a) = b /\ a \in Nat /\ b \in Nat
  OBVIOUS
<1>2. \A k \in 0..n : a + k \in 1..(Len(t) + 1)
  OBVIOUS
<1>3. 0 \in G
  <2>1. 0 \in 0..n /\ Offset(t, a) \in Nat
    BY <1>1, OffsetNat
  <2>. QED
    BY <1>1, <2>1
<1>4. ASSUME NEW k \in 1..n, k - 1 \in G PROVE k \in G
  <2>. DEFINE i == a + (k - 1)
  <2>1. i \in 1..Len(t) /\ i + 1 = a + k /\ k \in 0..n
    BY <1>1
  <2>2. Offset(t, a) <= Offset(t, i)
    BY <1>4
  <2>3. Offset(t, i) \in Nat /\ Offset(t, a) \in Nat /\ Offset(t, i + 1) = Offset(t, i) + Chars[t[i]] + 1
    <3>1. i \in 1..(Len(t) + 1)
      BY <1>2, <2>1
    <3>. HIDE DEF i
    <3>. QED
      BY <2>1, <3>1, OffsetNat, OffsetNext
  <2>. HIDE DEF i
  <2>4. Chars[t[i]] \in Nat
    <3>1. t[i] \in DOMAIN Chars
      BY <2>1
    <3>. QED
      BY <3>1, ParserAssumption
  <2>5. Offset(t, a) <= Offset(t, i + 1)
    BY <2>2, <2>3, <2>4
  <2>. QED
    BY <2>1, <2>5
<1>. HIDE DEF G
<1>5. \A k \in 0..n : k \in G
  BY <1>1, <1>3, <1>4, UpTo
<1>6. b - a \in G
  BY <1>1, <1>5
<1>. QED
  BY <1>1, <1>6 DEF G

-----------------------------------------------------------------------------
(* The spans of a text.  No two phrases have the same turn.                 *)
LEMMA LettersInt == ASSUME NEW phrase \in Seq(DOMAIN Chars) PROVE Letters(phrase) \in Int
BY LengthNat DEF Letters

LEMMA TurnIs ==
    ASSUME NEW phrases \in Seq(Seq(DOMAIN Chars))
    PROVE  /\ \A k \in DOMAIN phrases : Turn(phrases, k) \in Nat
           /\ \A k, m \in DOMAIN phrases : Turn(phrases, k) = Turn(phrases, m) => k = m
<1>. DEFINE D == DOMAIN phrases
            L(k) == Letters(phrases[k])
            key == [k \in D |-> <<L(k), 0 - k>>]
<1>1. IsFiniteSet(D) /\ D \subseteq Nat /\ \A k \in D : L(k) \in Int
  <2>1. 1 \in Int /\ Len(phrases) \in Int /\ D = 1..Len(phrases)
    OBVIOUS
  <2>2. IsFiniteSet(1..Len(phrases))
    BY <2>1, FS_Interval
  <2>3. \A k \in D : phrases[k] \in Seq(DOMAIN Chars)
    OBVIOUS
  <2>4. D \subseteq Nat
    BY <2>1
  <2>. QED
    BY <2>1, <2>2, <2>3, <2>4, LettersInt
<1>. HIDE DEF L, D
<1>2. /\ DOMAIN key = D
      /\ \A k \in D : /\ key[k] \in Seq(Int) /\ Len(key[k]) = 2 /\ DOMAIN key[k] = {1, 2}
                      /\ key[k][1] = L(k) /\ key[k][2] = 0 - k
  <2>1. \A k \in D : L(k) \in Int /\ 0 - k \in Int
    BY <1>1
  <2>. QED
    BY <2>1
<1>. HIDE DEF key
<1>3. Keyed(key)
  <2>1. \A p, q \in D : 0 - p = 0 - q => p = q
    BY <1>1
  <2>2. \A p, q \in D : key[p][Len(key[p])] = key[q][Len(key[q])] => p = q
    BY <1>2, <2>1
  <2>3. \A p \in D : key[p] \in Seq(Int) /\ Len(key[p]) >= 1
    BY <1>2
  <2>4. \A p, q \in D : Len(key[p]) = Len(key[q])
    BY <1>2
  <2>. QED
    BY <1>1, <1>2, <2>2, <2>3, <2>4, Zenon DEF Keyed
<1>4. ASSUME NEW k \in D PROVE Turn(phrases, k) = Cardinality(Before(key, k))
  <2>1. ASSUME NEW j \in D
        PROVE  Above(key[j], key[k]) <=> L(j) > L(k) \/ (L(j) = L(k) /\ j < k)
    <3>1. /\ DOMAIN key[j] = {1, 2} /\ key[j][1] = L(j) /\ key[j][2] = 0 - j
          /\ key[k][1] = L(k) /\ key[k][2] = 0 - k
      BY <1>2
    <3>2. 1..(1 - 1) = {} /\ 1..(2 - 1) = {1} /\ (0 - j > 0 - k <=> j < k)
      BY <1>1
    <3>3. Above(key[j], key[k]) <=> \E i \in {1, 2} : /\ key[j][i] > key[k][i]
                                                      /\ \A m \in 1..(i - 1) : key[j][m] = key[k][m]
      BY <3>1 DEF Above
    <3>4. Above(key[j], key[k]) <=> \/ key[j][1] > key[k][1]
                                    \/ key[j][2] > key[k][2] /\ key[j][1] = key[k][1]
      BY <3>2, <3>3
    <3>. QED
      BY <3>1, <3>2, <3>4
  <2>2. {j \in D : L(j) > L(k) \/ (L(j) = L(k) /\ j < k)} = Before(key, k)
    BY <1>2, <2>1 DEF Before
  <2>. QED
    BY <2>2 DEF Turn, L, D
<1>5. ASSUME NEW k \in D, NEW m \in D, Turn(phrases, k) = Turn(phrases, m) PROVE k = m
  <2>. SUFFICES ASSUME k # m PROVE FALSE
    OBVIOUS
  <2>1. /\ Cardinality(Before(key, k)) = Cardinality(Before(key, m))
        /\ Cardinality(Before(key, k)) \in Nat /\ Cardinality(Before(key, m)) \in Nat
    BY <1>2, <1>3, <1>4, <1>5, BeforeIs
  <2>2. \/ Cardinality(Before(key, k)) < Cardinality(Before(key, m))
        \/ Cardinality(Before(key, m)) < Cardinality(Before(key, k))
    BY <1>2, <1>3, OneIsAbove, BeforeGrows
  <2>. QED
    BY <2>1, <2>2
<1>6. \A k \in D : Turn(phrases, k) \in Nat
  BY <1>2, <1>3, <1>4, BeforeIs
<1>. QED
  BY <1>5, <1>6 DEF D

(* A price in a text: at most one at a place, of one word or more.          *)
AtMostOne(S) == \A x, y \in S : x = y
Ends(t, i) == {n \in (i + 1)..(Len(t) + 1) : n \in Nat}
LEMMA OneFigure ==
    ASSUME NEW t \in Seq(DOMAIN Chars), NEW i \in Nat \ {0}
    PROVE  /\ AtMostOne(Figures(t, i))
           /\ \A x \in Figures(t, i) : x.to \in Ends(t, i) /\ x.trail \in {0, 1}
<1>. DEFINE a == IF i \in DOMAIN t /\ t[i] \in Dollars THEN i + 1 ELSE i
            dollars == a + 1 \in DOMAIN t /\ t[a + 1] \in Dollars
            x == [value |-> Amount[t[a]], to |-> IF dollars THEN a + 2 ELSE a + 1,
                  trail |-> IF ~dollars /\ a + 1 \in DOMAIN t THEN 1 ELSE 0]
<1>1. Figures(t, i) = IF a \notin DOMAIN t \/ t[a] \notin DOMAIN Amount THEN {} ELSE {x}
  BY DEF Figures
<1>2. a \in Nat /\ a >= i /\ DOMAIN t = 1..Len(t) /\ Len(t) \in Nat
  OBVIOUS
<1>3. x.to = (IF dollars THEN a + 2 ELSE a + 1) /\ x.trail = (IF ~dollars /\ a + 1 \in DOMAIN t THEN 1 ELSE 0)
  OBVIOUS
<1>4. dollars => a + 1 \in DOMAIN t
  OBVIOUS
<1>. HIDE DEF a, dollars, x
<1>5. a \in DOMAIN t => x.to \in Ends(t, i) /\ x.trail \in {0, 1}
  BY <1>2, <1>3, <1>4 DEF Ends
<1>. QED
  BY <1>1, <1>5 DEF AtMostOne

LEMMA OneSpoken ==
    ASSUME NEW t \in Seq(DOMAIN Chars), NEW i \in Nat \ {0}
    PROVE  /\ AtMostOne(Spoken(t, i))
           /\ \A x \in Spoken(t, i) : x.to \in Ends(t, i) /\ x.trail \in {0, 1}
<1>. DEFINE a == IF i \in DOMAIN t /\ t[i] = Sign THEN i + 1 ELSE i
            b == a + 1
            made == Together(Number[t[a]], Number[t[b]], t[b] = Ten)
            two == {[value |-> v, to |-> b + 1, trail |-> 0] : v \in made}
            x == [value |-> Number[t[a]], trail |-> 0, to |-> IF b \in DOMAIN t /\ t[b] \in And THEN b + 1 ELSE b]
            none == a \notin DOMAIN t \/ t[a] \notin DOMAIN Number
            both == b \in DOMAIN t /\ t[b] \in DOMAIN Number
<1>1. Spoken(t, i) = IF none THEN {} ELSE IF both THEN two ELSE {x}
  BY DEF Spoken
<1>2. AtMostOne(made)
  BY DEF Together, AtMostOne
<1>3. a \in Nat /\ a >= i /\ b = a + 1 /\ DOMAIN t = 1..Len(t) /\ Len(t) \in Nat
  OBVIOUS
<1>4. x.to = (IF b \in DOMAIN t /\ t[b] \in And THEN b + 1 ELSE b) /\ x.trail = 0
  OBVIOUS
<1>5. AtMostOne(two) /\ \A y \in two : y.to = b + 1 /\ y.trail = 0
  <2>. HIDE DEF made
  <2>. QED
    BY <1>2 DEF AtMostOne
<1>6. (~none => a \in DOMAIN t) /\ (both => b \in DOMAIN t)
  OBVIOUS
<1>. HIDE DEF a, b, made, two, x, none, both
<1>7. ~none => x.to \in Ends(t, i) /\ x.trail \in {0, 1}
  BY <1>3, <1>4, <1>6 DEF Ends
<1>8. ~none /\ both => b + 1 \in Ends(t, i)
  BY <1>3, <1>6 DEF Ends
<1>9. CASE none
  <2>1. Spoken(t, i) = {}
    BY <1>1, <1>9
  <2>. QED
    BY <2>1 DEF AtMostOne
<1>10. CASE ~none /\ both
  <2>1. Spoken(t, i) = two
    BY <1>1, <1>10
  <2>2. \A y \in two : y.to \in Ends(t, i) /\ y.trail \in {0, 1}
    BY <1>5, <1>8, <1>10
  <2>. QED
    BY <1>5, <2>1, <2>2
<1>11. CASE ~none /\ ~both
  <2>1. Spoken(t, i) = {x}
    BY <1>1, <1>11
  <2>2. AtMostOne({x})
    BY DEF AtMostOne
  <2>. QED
    BY <1>7, <1>11, <2>1, <2>2
<1>. QED
  BY <1>9, <1>10, <1>11

LEMMA OnePrice ==
    ASSUME NEW t \in Seq(DOMAIN Chars), NEW i \in Nat \ {0}
    PROVE  /\ AtMostOne(Price(t, i))
           /\ \A x \in Price(t, i) : x.to \in Ends(t, i) /\ x.trail \in {0, 1}
BY OneFigure, OneSpoken DEF Price

(* Two spans of which neither touches the other. *)
Free(s, o) == ~(s.from < o.to /\ o.from < s.to)
LEMMA OverlapsNot == ASSUME NEW s, NEW taken, ~Overlaps(s, taken), NEW o \in taken PROVE Free(s, o)
BY DEF Overlaps, Free

LEMMA MinOf == ASSUME NEW S, S \subseteq Nat, S # {} PROVE Min(S) \in S
BY MinIs

(* Where a phrase is found: its words are there, but for a particle. *)
PhraseSpan(t, phrases, s) ==
    \E k \in DOMAIN phrases : \E i \in Occurrences(t, phrases[k]) : s = Span(i, i + Len(phrases[k]), 0)

LEMMA FirstMatchIs ==
    ASSUME NEW t \in Seq(DOMAIN Chars), NEW phrases \in Seq(Seq(DOMAIN Chars)), NEW taken
    PROVE  /\ AtMostOne(FirstMatch(t, phrases, taken))
           /\ \A s \in FirstMatch(t, phrases, taken) :
                  PhraseSpan(t, phrases, s) /\ \A o \in taken : Free(s, o)
<1>. DEFINE D == {k \in DOMAIN phrases : Occurrences(t, phrases[k]) # {}}
            span(k) == Span(Min(Occurrences(t, phrases[k])),
                            Min(Occurrences(t, phrases[k])) + Len(phrases[k]), 0)
            m(k) == [turn |-> Turn(phrases, k), span |-> span(k)]
            spans == {m(k) : k \in D}
            free == {x \in spans : ~Overlaps(x.span, taken)}
            first == {x \in free : \A y \in free : x.turn <= y.turn}
<1>1. FirstMatch(t, phrases, taken) = {x.span : x \in first}
  BY DEF FirstMatch, Earliest
<1>2. \A k \in D : m(k).turn = Turn(phrases, k) /\ m(k).span = span(k)
  OBVIOUS
<1>3. \A k \in D : PhraseSpan(t, phrases, span(k))
  <2>1. ASSUME NEW k \in D PROVE Min(Occurrences(t, phrases[k])) \in Occurrences(t, phrases[k])
    <3>1. Occurrences(t, phrases[k]) \subseteq Nat /\ Occurrences(t, phrases[k]) # {}
      BY DEF Occurrences
    <3>. QED
      BY <3>1, MinOf
  <2>. QED
    BY <2>1 DEF PhraseSpan
<1>4. D \subseteq DOMAIN phrases
  OBVIOUS
<1>. HIDE DEF m, span, D
<1>5. ASSUME NEW x \in first, NEW y \in first PROVE x = y
  <2>1. PICK k \in D : x = m(k)
    OBVIOUS
  <2>2. PICK l \in D : y = m(l)
    OBVIOUS
  <2>3. x.turn <= y.turn /\ y.turn <= x.turn
    OBVIOUS
  <2>4. Turn(phrases, k) <= Turn(phrases, l) /\ Turn(phrases, l) <= Turn(phrases, k)
    BY <1>2, <2>1, <2>2, <2>3
  <2>5. Turn(phrases, k) \in Nat /\ Turn(phrases, l) \in Nat
    BY <1>4, TurnIs
  <2>6. Turn(phrases, k) = Turn(phrases, l)
    BY <2>4, <2>5
  <2>7. k = l
    BY <1>4, <2>6, TurnIs
  <2>. QED
    BY <2>1, <2>2, <2>7
<1>6. ASSUME NEW x \in first PROVE PhraseSpan(t, phrases, x.span) /\ ~Overlaps(x.span, taken)
  <2>1. PICK k \in D : x = m(k)
    OBVIOUS
  <2>2. x.span = span(k) /\ ~Overlaps(x.span, taken)
    BY <1>2, <2>1
  <2>. QED
    BY <1>3, <2>2
<1>. HIDE DEF first
<1>7. AtMostOne({x.span : x \in first})
  BY <1>5 DEF AtMostOne
<1>8. \A s \in {x.span : x \in first} : PhraseSpan(t, phrases, s) /\ ~Overlaps(s, taken)
  BY <1>6
<1>9. ASSUME NEW s \in FirstMatch(t, phrases, taken), NEW o \in taken PROVE Free(s, o)
  BY <1>1, <1>8, OverlapsNot
<1>. QED
  BY <1>1, <1>7, <1>8, <1>9

(* A price and what bounds it. *)
PriceSpan(t, s) ==
    /\ \E i \in 1..(Len(t) + 1) : \E to \in Ends(t, i) : \E trail \in {0, 1} : s = Span(i, to, trail)
    /\ ~ForeignNear(t, s)

LEMMA BoundedIs ==
    ASSUME NEW t \in Seq(DOMAIN Chars), NEW phrases \in Seq(Seq(DOMAIN Chars)), NEW taken
    PROVE  /\ AtMostOne(BoundedPrice(t, phrases, taken))
           /\ \A m \in BoundedPrice(t, phrases, taken) :
                  PriceSpan(t, m.span) /\ \A o \in taken : Free(m.span, o)
<1>. DEFINE N == Len(t) + 1
            after(k, i) == i + Len(phrases[k])
            place(k, i) == Turn(phrases, k) * N + i
            m(k, i, n) == [place |-> Turn(phrases, k) * (Len(t) + 1) + i, value |-> n.value,
                           span |-> Span(i, n.to, n.trail)]
            PricesAt(k, i) == {m(k, i, n) : n \in Price(t, i + Len(phrases[k]))}
            met == UNION {UNION {PricesAt(k, i) : i \in Occurrences(t, phrases[k])} : k \in DOMAIN phrases}
            good == {x \in met : ~Overlaps(x.span, taken) /\ ~ForeignNear(t, x.span)}
            first == {x \in good : \A y \in good : x.place <= y.place}
<1>1. BoundedPrice(t, phrases, taken) = first
  BY DEF BoundedPrice, Earliest
<1>2. N \in Nat \ {0} /\ Len(t) \in Nat
  OBVIOUS
<1>3. ASSUME NEW k \in DOMAIN phrases, NEW i \in Occurrences(t, phrases[k])
      PROVE  /\ i \in 1..N /\ after(k, i) \in Nat \ {0} /\ after(k, i) >= i
             /\ Turn(phrases, k) \in Nat /\ place(k, i) \in Int
  <2>1. Len(phrases[k]) \in Nat
    OBVIOUS
  <2>2. i \in 1..N
    BY <1>2, <2>1 DEF Occurrences
  <2>3. Turn(phrases, k) \in Nat
    BY TurnIs
  <2>4. Turn(phrases, k) * N \in Int
    BY <1>2, <2>3
  <2>. QED
    BY <2>1, <2>2, <2>3, <2>4
<1>4. ASSUME NEW k, NEW i, NEW n
      PROVE  m(k, i, n).place = place(k, i) /\ m(k, i, n).span = Span(i, n.to, n.trail)
  OBVIOUS
<1>5. ASSUME NEW x \in met
      PROVE  \E k \in DOMAIN phrases : \E i \in Occurrences(t, phrases[k]) :
                 \E n \in Price(t, after(k, i)) : x = m(k, i, n)
  OBVIOUS
<1>. HIDE DEF m
<1>6. ASSUME NEW x \in first, NEW y \in first PROVE x = y
  <2>0. PICK k \in DOMAIN phrases :
            \E i \in Occurrences(t, phrases[k]) : \E n \in Price(t, after(k, i)) : x = m(k, i, n)
    BY <1>5
  <2>1. PICK i \in Occurrences(t, phrases[k]) : \E n \in Price(t, after(k, i)) : x = m(k, i, n)
    BY <2>0
  <2>2. PICK n \in Price(t, after(k, i)) : x = m(k, i, n)
    BY <2>1
  <2>11. PICK l \in DOMAIN phrases :
             \E j \in Occurrences(t, phrases[l]) : \E o \in Price(t, after(l, j)) : y = m(l, j, o)
    BY <1>5
  <2>3. PICK j \in Occurrences(t, phrases[l]) : \E o \in Price(t, after(l, j)) : y = m(l, j, o)
    BY <2>11
  <2>4. PICK o \in Price(t, after(l, j)) : y = m(l, j, o)
    BY <2>3
  <2>5. x.place <= y.place /\ y.place <= x.place
    OBVIOUS
  <2>6. place(k, i) <= place(l, j) /\ place(l, j) <= place(k, i) /\ place(k, i) \in Int /\ place(l, j) \in Int
    <3>1. x.place = place(k, i) /\ y.place = place(l, j)
      BY <1>4, <2>2, <2>4
    <3>2. place(k, i) \in Int /\ place(l, j) \in Int
      BY <1>3
    <3>. HIDE DEF place
    <3>. QED
      BY <2>5, <3>1, <3>2
  <2>7. Turn(phrases, k) * N + i = Turn(phrases, l) * N + j
    <3>. HIDE DEF place
    <3>1. place(k, i) = place(l, j)
      BY <2>6
    <3>. QED
      BY <3>1 DEF place
  <2>8. Turn(phrases, k) = Turn(phrases, l) /\ i = j
    <3>. DEFINE a == Turn(phrases, k)
                b == Turn(phrases, l)
    <3>1. a \in Nat /\ b \in Nat /\ i \in 1..N /\ j \in 1..N /\ a * N + i = b * N + j
      BY <1>3, <2>7
    <3>. HIDE DEF a, b, N
    <3>2. ASSUME NEW c \in Nat, NEW d \in Nat, c < d PROVE c * N + N <= d * N
      <4>1. d - c - 1 \in Nat
        BY <3>2
      <4>2. (d - c - 1) * N >= 0
        BY <1>2, <4>1
      <4>3. (d - c - 1) * N = d * N - c * N - N
        BY <1>2
      <4>4. d * N \in Int /\ c * N \in Int
        BY <1>2
      <4>. QED
        BY <1>2, <4>2, <4>3, <4>4
    <3>. DEFINE p == a * N
                q == b * N
    <3>3. p \in Int /\ q \in Int /\ p + i = q + j
      BY <1>2, <3>1
    <3>8. (a < b => p + N <= q) /\ (b < a => q + N <= p) /\ (a = b => p = q)
      BY <3>1, <3>2
    <3>. HIDE DEF p, q
    <3>4. ~(a < b)
      BY <1>2, <3>1, <3>3, <3>8
    <3>5. ~(b < a)
      BY <1>2, <3>1, <3>3, <3>8
    <3>6. a = b
      BY <3>1, <3>4, <3>5
    <3>7. i = j
      BY <3>1, <3>3, <3>6, <3>8
    <3>. QED
      BY <3>6, <3>7 DEF a, b
  <2>9. k = l
    BY <2>8, TurnIs
  <2>10. n = o
    BY <1>3, <2>8, <2>9, OnePrice DEF AtMostOne
  <2>. QED
    BY <2>2, <2>4, <2>8, <2>9, <2>10
<1>7. ASSUME NEW x \in first PROVE PriceSpan(t, x.span) /\ ~Overlaps(x.span, taken)
  <2>0. PICK k \in DOMAIN phrases :
            \E i \in Occurrences(t, phrases[k]) : \E n \in Price(t, after(k, i)) : x = m(k, i, n)
    BY <1>5
  <2>1. PICK i \in Occurrences(t, phrases[k]) : \E n \in Price(t, after(k, i)) : x = m(k, i, n)
    BY <2>0
  <2>2. PICK n \in Price(t, after(k, i)) : x = m(k, i, n)
    BY <2>1
  <2>3. i \in 1..N /\ n.to \in Ends(t, after(k, i)) /\ n.trail \in {0, 1}
    BY <1>3, OnePrice
  <2>4. n.to \in Ends(t, i)
    <3>1. after(k, i) >= i /\ after(k, i) \in Nat /\ i \in Nat
      BY <1>3, <2>3
    <3>. HIDE DEF after
    <3>. QED
      BY <1>2, <2>3, <3>1 DEF Ends
  <2>5. x.span = Span(i, n.to, n.trail)
    BY <1>4, <2>2
  <2>6. ~Overlaps(x.span, taken) /\ ~ForeignNear(t, x.span)
    OBVIOUS
  <2>. QED
    BY <2>3, <2>4, <2>5, <2>6 DEF PriceSpan
<1>. HIDE DEF first
<1>8. ASSUME NEW x \in first, NEW o \in taken PROVE Free(x.span, o)
  BY <1>7, OverlapsNot
<1>9. AtMostOne(first)
  BY <1>6 DEF AtMostOne
<1>. QED
  BY <1>1, <1>7, <1>8, <1>9

(* Ranges met from the left: none touches another. *)
Templates == Seq(DOMAIN Chars) \X Seq(DOMAIN Chars)
LEMMA RangeAtIs ==
    ASSUME NEW t \in Seq(DOMAIN Chars), NEW template \in Templates, NEW i \in 1..Len(t)
    PROVE  /\ AtMostOne(RangeAt(t, template, i))
           /\ \A m \in RangeAt(t, template, i) : \E to \in Ends(t, i) : m.span = Span(i, to, 0)
<1>. DEFINE before == template[1]
            mid == template[2]
            Low == IF before = <<>> \/ i \in Occurrences(t, before) THEN Figures(t, i + Len(before)) ELSE {}
            High(low) == IF low.to \in Occurrences(t, mid) THEN Figures(t, low.to + Len(mid)) ELSE {}
            m(low, high) == [bounds |-> {low.value, high.value}, span |-> Span(i, high.to, 0)]
<1>1. RangeAt(t, template, i) = UNION {{m(low, high) : high \in High(low)} : low \in Low}
  BY DEF RangeAt
<1>2. before \in Seq(DOMAIN Chars) /\ mid \in Seq(DOMAIN Chars)
  BY DEF Templates
<1>3. \A low, high : m(low, high).span = Span(i, high.to, 0)
  OBVIOUS
<1>. DEFINE b == Len(before)
            c == Len(mid)
<1>4. b \in Nat /\ c \in Nat /\ i \in Nat \ {0} /\ Len(t) \in Nat
  BY <1>2
<1>5. Low \subseteq Figures(t, i + b) /\ \A low : High(low) \subseteq Figures(t, low.to + c)
  OBVIOUS
<1>. HIDE DEF before, mid, Low, High, m, b, c
<1>6. AtMostOne(Low) /\ \A low \in Low : low.to \in Nat \ {0} /\ low.to > i
  <2>1. i + b \in Nat \ {0}
    BY <1>4
  <2>2. AtMostOne(Figures(t, i + b)) /\ \A low \in Figures(t, i + b) : low.to \in Ends(t, i + b)
    BY <2>1, OneFigure
  <2>3. \A e \in Ends(t, i + b) : e \in Nat \ {0} /\ e > i
    BY <1>4 DEF Ends
  <2>. QED
    BY <1>5, <2>2, <2>3 DEF AtMostOne
<1>7. ASSUME NEW low \in Low
      PROVE  AtMostOne(High(low)) /\ \A high \in High(low) : high.to \in Ends(t, i)
  <2>1. low.to + c \in Nat \ {0} /\ low.to + c >= i
    BY <1>4, <1>6
  <2>2. AtMostOne(Figures(t, low.to + c)) /\ \A x \in Figures(t, low.to + c) : x.to \in Ends(t, low.to + c)
    BY <2>1, OneFigure
  <2>3. Ends(t, low.to + c) \subseteq Ends(t, i)
    BY <1>4, <2>1 DEF Ends
  <2>. QED
    BY <1>5, <2>2, <2>3 DEF AtMostOne
<1>8. ASSUME NEW x \in RangeAt(t, template, i)
      PROVE  \E low \in Low : \E high \in High(low) : x = m(low, high)
  BY <1>1
<1>9. ASSUME NEW x \in RangeAt(t, template, i), NEW y \in RangeAt(t, template, i) PROVE x = y
  <2>1. PICK low \in Low : \E high \in High(low) : x = m(low, high)
    BY <1>8
  <2>2. PICK high \in High(low) : x = m(low, high)
    BY <2>1
  <2>3. PICK lw \in Low : \E h \in High(lw) : y = m(lw, h)
    BY <1>8
  <2>4. PICK h \in High(lw) : y = m(lw, h)
    BY <2>3
  <2>5. lw = low
    BY <1>6 DEF AtMostOne
  <2>6. h = high
    BY <1>7, <2>5 DEF AtMostOne
  <2>. QED
    BY <2>2, <2>4, <2>5, <2>6
<1>10. ASSUME NEW x \in RangeAt(t, template, i) PROVE \E to \in Ends(t, i) : x.span = Span(i, to, 0)
  <2>1. PICK low \in Low : \E high \in High(low) : x = m(low, high)
    BY <1>8
  <2>2. PICK high \in High(low) : x = m(low, high)
    BY <2>1
  <2>. QED
    BY <1>3, <1>7, <2>2
<1>. QED
  BY <1>9, <1>10 DEF AtMostOne

AllClear(S) == \A x, y \in S : x # y => Free(x.span, y.span)
Found(t, template) == UNION {RangeAt(t, template, i) : i \in 1..Len(t)}
LEMMA ScanIs ==
    ASSUME NEW t \in Seq(DOMAIN Chars), NEW template \in Templates
    PROVE  Scan(t, template) \subseteq Found(t, template) /\ AllClear(Scan(t, template))
<1>. DEFINE n == Len(t)
            T == {past \in SUBSET Found(t, template) : AllClear(past)}
            fresh(past, i) == {m \in RangeAt(t, template, i) : ~Overlaps(m.span, {x.span : x \in past})}
            After(past, i) == past \cup fresh(past, i)
            step == [i \in 1..n |-> [m \in T |-> After(m, i)]]
            places == Positions(t)
            Solves(h) == h = [s \in SUBSET DOMAIN places |->
                                 IF s = {} THEN {} ELSE After(h[s \ {Max(s)}], places[Max(s)])]
            h == CHOOSE h : Solves(h)
<1>1. n \in Nat /\ DOMAIN places = 1..n /\ \A i \in 1..n : places[i] = i
  BY DEF Positions
<1>2. ASSUME NEW i \in 1..n, NEW past \in T PROVE After(past, i) \in T
  <2>1. fresh(past, i) \subseteq RangeAt(t, template, i)
    OBVIOUS
  <2>2. RangeAt(t, template, i) \subseteq Found(t, template) /\ AtMostOne(RangeAt(t, template, i))
    BY RangeAtIs DEF Found
  <2>3. ASSUME NEW x \in fresh(past, i), NEW y \in past PROVE Free(x.span, y.span) /\ Free(y.span, x.span)
    <3>1. ~Overlaps(x.span, {z.span : z \in past}) /\ y.span \in {z.span : z \in past}
      OBVIOUS
    <3>2. Free(x.span, y.span)
      BY <3>1, OverlapsNot
    <3>. QED
      BY <3>2 DEF Free
  <2>4. past \subseteq Found(t, template) /\ AllClear(past)
    OBVIOUS
  <2>. HIDE DEF fresh
  <2>5. After(past, i) \subseteq Found(t, template)
    BY <2>1, <2>2, <2>4
  <2>6. AllClear(After(past, i))
    <3>. SUFFICES ASSUME NEW x \in After(past, i), NEW y \in After(past, i), x # y
                  PROVE  Free(x.span, y.span)
      BY DEF AllClear
    <3>1. CASE x \in past /\ y \in past
      BY <2>4, <3>1 DEF AllClear
    <3>2. CASE x \in fresh(past, i) /\ y \in fresh(past, i)
      BY <2>1, <2>2, <3>2 DEF AtMostOne
    <3>3. CASE x \in fresh(past, i) /\ y \in past
      BY <2>3, <3>3
    <3>4. CASE x \in past /\ y \in fresh(past, i)
      BY <2>3, <3>4
    <3>. QED
      BY <3>1, <3>2, <3>3, <3>4
  <2>. QED
    BY <2>5, <2>6
<1>3. Scan(t, template) = h[DOMAIN places]
  BY DEF Scan, FoldLeft, MapThenFoldSet
<1>a. {} \in T
  BY DEF AllClear
<1>. HIDE DEF After, fresh
<1>4. step \in [1..n -> [T -> T]] /\ {} \in T
  BY <1>2, <1>a
<1>5. \A i \in 1..n, m \in T : step[i][m] = After(m, i)
  OBVIOUS
<1>. HIDE DEF step, T, n, places
<1>6. PICK g : FoldsLeft(n, T, {}, step, g)
  BY <1>1, <1>4, LeftFold
<1>7. Solves(g)
  <2>1. ASSUME NEW s \in SUBSET (1..n)
        PROVE  g[s] = IF s = {} THEN {} ELSE After(g[s \ {Max(s)}], places[Max(s)])
    <3>1. CASE s # {}
      <4>1. Max(s) \in 1..n /\ s \ {Max(s)} \in SUBSET (1..n)
        BY <1>1, <3>1, MaxIs
      <4>2. g[s \ {Max(s)}] \in T
        BY <1>6, <4>1 DEF FoldsLeft
      <4>. QED
        BY <1>1, <1>5, <1>6, <3>1, <4>1, <4>2 DEF FoldsLeft
    <3>. QED
      BY <1>6, <3>1 DEF FoldsLeft
  <2>2. g = [s \in SUBSET (1..n) |-> g[s]]
    BY <1>6 DEF FoldsLeft
  <2>. QED
    BY <1>1, <2>1, <2>2, Zenon
<1>8. Solves(h)
  BY <1>7, Zenon
<1>. HIDE DEF h
<1>9. /\ h[{}] = {}
      /\ \A k \in 1..n : h[1..k] = After(h[1..(k - 1)], k)
  <2>1. ASSUME NEW s \in SUBSET (1..n)
        PROVE  h[s] = IF s = {} THEN {} ELSE After(h[s \ {Max(s)}], places[Max(s)])
    BY <1>1, <1>8, Zenon
  <2>2. ASSUME NEW k \in 1..n PROVE h[1..k] = After(h[1..(k - 1)], k)
    <3>1. k \in Nat \ {0} /\ 1..k \in SUBSET (1..n) /\ 1..k # {}
      <4>1. k \in Nat \ {0} /\ k <= n
        BY <1>1
      <4>2. \A x \in 1..k : x \in 1..n
        BY <1>1, <4>1
      <4>3. 1 \in 1..k
        BY <4>1
      <4>. QED
        BY <4>1, <4>2, <4>3
    <3>2. Max(1..k) = k /\ (1..k) \ {k} = 1..(k - 1)
      BY <3>1, LastOf
    <3>. QED
      BY <1>1, <2>1, <3>1, <3>2
  <2>3. h[{}] = {}
    BY <2>1
  <2>. QED
    BY <2>2, <2>3
<1>. DEFINE past == [k \in 0..n |-> h[1..k]]
            Typed == {k \in 0..n : past[k] \in T}
<1>10. past[0] = {} /\ \A k \in 1..n : past[k] = After(past[k - 1], k)
  <2>1. 1..0 = {} /\ 0 \in 0..n
    BY <1>1
  <2>2. \A k \in 1..n : k \in 0..n /\ k - 1 \in 0..n
    BY <1>1
  <2>. QED
    BY <1>9, <2>1, <2>2
<1>11. past = [k \in 0..n |-> past[k]] /\ n \in 0..n /\ past[n] = h[1..n]
  BY <1>1
<1>. HIDE DEF past
<1>12. \A k \in 0..n : k \in Typed
  <2>1. 0 \in Typed
    <3>1. past[0] \in T
      BY <1>4, <1>10, Zenon
    <3>2. 0 \in 0..n
      BY <1>1
    <3>. QED
      BY <3>1, <3>2
  <2>2. ASSUME NEW k \in 1..n, k - 1 \in Typed PROVE k \in Typed
    <3>1. past[k] \in T
      BY <1>2, <1>10, <2>2
    <3>. QED
      BY <1>1, <3>1
  <2>. HIDE DEF Typed
  <2>. QED
    BY <1>1, <2>1, <2>2, UpTo
<1>13. past \in [0..n -> T]
  BY <1>11, <1>12
<1>14. Scan(t, template) \in T
  BY <1>1, <1>3, <1>11, <1>13
<1>. QED
  BY <1>14 DEF T

LEMMA RangesOfIs ==
    ASSUME NEW t \in Seq(DOMAIN Chars), NEW template \in Templates
    PROVE  /\ AllClear(RangesOf(t, template))
           /\ \A m \in RangesOf(t, template) : PriceSpan(t, m.span)
<1>1. RangesOf(t, template) \subseteq Scan(t, template)
  BY DEF RangesOf
<1>2. ASSUME NEW m \in RangesOf(t, template) PROVE PriceSpan(t, m.span)
  <2>1. PICK i \in 1..Len(t) : m \in RangeAt(t, template, i)
    BY <1>1, ScanIs DEF Found
  <2>2. PICK to \in Ends(t, i) : m.span = Span(i, to, 0)
    BY <2>1, RangeAtIs
  <2>3. ~ForeignNear(t, m.span) /\ i \in 1..(Len(t) + 1) /\ 0 \in {0, 1}
    BY DEF RangesOf
  <2>. QED
    BY <2>2, <2>3 DEF PriceSpan
<1>. QED
  BY <1>1, <1>2, ScanIs DEF AllClear

LEMMA SpanIs ==
    ASSUME NEW t \in Seq(DOMAIN Chars), NEW s, PriceSpan(t, s)
    PROVE  /\ s.from \in 1..(Len(t) + 1) /\ s.to \in 1..(Len(t) + 1) /\ s.from < s.to
           /\ s.trail \in {0, 1}
<1>1. PICK i \in 1..(Len(t) + 1) : \E to \in Ends(t, i) : \E trail \in {0, 1} : s = Span(i, to, trail)
  BY DEF PriceSpan
<1>2. PICK to \in Ends(t, i) : \E trail \in {0, 1} : s = Span(i, to, trail)
  BY <1>1
<1>3. PICK trail \in {0, 1} : s = Span(i, to, trail)
  BY <1>2
<1>4. s.from = i /\ s.to = to /\ s.trail = trail
  BY <1>3 DEF Span
<1>5. to \in 1..(Len(t) + 1) /\ i < to
  BY DEF Ends
<1>. QED
  BY <1>4, <1>5

LEMMA PriceRangeIs ==
    ASSUME NEW t \in Seq(DOMAIN Chars)
    PROVE  /\ AtMostOne(PriceRange(t))
           /\ \A m \in PriceRange(t) : PriceSpan(t, m.span)
<1>. DEFINE some == {k \in DOMAIN Ranges : RangesOf(t, Ranges[k]) # {}}
            M == RangesOf(t, Ranges[Min(some)])
            first == {x \in M : \A y \in M : x.span.from <= y.span.from}
<1>1. PriceRange(t) = IF some = {} THEN {} ELSE first
  BY DEF PriceRange, Earliest
<1>2. CASE some = {}
  BY <1>1, <1>2 DEF AtMostOne
<1>3. CASE some # {}
  <2>1. Ranges \in Seq(Templates)
    BY ParserAssumption DEF Templates
  <2>2. some \subseteq Nat
    BY <2>1
  <2>3. Min(some) \in some
    BY <1>3, <2>2, MinOf
  <2>4. Ranges[Min(some)] \in Templates
    BY <2>1, <2>3
  <2>. HIDE DEF some
  <2>5. AllClear(M) /\ \A m \in M : PriceSpan(t, m.span)
    BY <2>4, RangesOfIs
  <2>. HIDE DEF M
  <2>6. ASSUME NEW x \in first, NEW y \in first PROVE x = y
    <3>. SUFFICES ASSUME x # y PROVE FALSE
      OBVIOUS
    <3>1. x.span.from <= y.span.from /\ y.span.from <= x.span.from
      OBVIOUS
    <3>2. ~(x.span.from < y.span.to /\ y.span.from < x.span.to)
      BY <2>5 DEF AllClear, Free
    <3>3. /\ x.span.from \in Nat /\ x.span.to \in Nat /\ x.span.from < x.span.to
          /\ y.span.from \in Nat /\ y.span.to \in Nat /\ y.span.from < y.span.to
      <4>1. PriceSpan(t, x.span) /\ PriceSpan(t, y.span)
        BY <2>5
      <4>2. \A k \in 1..(Len(t) + 1) : k \in Nat
        OBVIOUS
      <4>. QED
        BY <4>1, <4>2, SpanIs
    <3>. QED
      BY <3>1, <3>2, <3>3
  <2>. HIDE DEF first
  <2>7. first \subseteq M
    BY DEF first
  <2>. QED
    BY <1>1, <1>3, <2>5, <2>6, <2>7 DEF AtMostOne
<1>. QED
  BY <1>2, <1>3

(* What is read of a text: spans of prices and of phrases, no two of which touch. *)
AllFree(S) == \A x, y \in S : x # y => Free(x, y)
LEMMA PricesAre ==
    ASSUME NEW t \in Seq(DOMAIN Chars)
    PROVE  AllFree(Prices(t).spans) /\ \A s \in Prices(t).spans : PriceSpan(t, s)
<1>. DEFINE between == PriceRange(t)
            max == BoundedPrice(t, MaxPhrases, {})
            taken == {m.span : m \in max}
            min == BoundedPrice(t, MinPhrases, taken)
<1>1. Prices(t) = Bounds(between, max, min)
  BY DEF Prices, WithMin
<1>2. MaxPhrases \in Seq(Seq(DOMAIN Chars)) /\ MinPhrases \in Seq(Seq(DOMAIN Chars))
  BY ParserAssumption
<1>3. AtMostOne(between) /\ \A m \in between : PriceSpan(t, m.span)
  BY PriceRangeIs
<1>4. AtMostOne(max) /\ \A m \in max : PriceSpan(t, m.span)
  BY <1>2, BoundedIs
<1>5. /\ AtMostOne(min)
      /\ \A m \in min : PriceSpan(t, m.span) /\ \A o \in taken : Free(m.span, o)
  BY <1>2, BoundedIs
<1>. HIDE DEF between, max, min
<1>6. Prices(t).spans = IF between # {} THEN {m.span : m \in between} ELSE {m.span : m \in max \cup min}
  BY <1>1 DEF Bounds
<1>7. CASE between # {}
  BY <1>3, <1>6, <1>7 DEF AllFree, AtMostOne
<1>8. CASE between = {}
  <2>1. Prices(t).spans = {m.span : m \in max \cup min}
    BY <1>6, <1>8
  <2>2. ASSUME NEW a \in max \cup min, NEW b \in max \cup min, a.span # b.span
        PROVE  Free(a.span, b.span)
    <3>1. CASE a \in max /\ b \in max
      BY <1>4, <2>2, <3>1 DEF AtMostOne
    <3>2. CASE a \in min /\ b \in min
      BY <1>5, <2>2, <3>2 DEF AtMostOne
    <3>3. CASE a \in min /\ b \in max
      BY <1>5, <3>3
    <3>4. CASE a \in max /\ b \in min
      BY <1>5, <3>4 DEF Free
    <3>. QED
      BY <3>1, <3>2, <3>3, <3>4
  <2>3. \A m \in max \cup min : PriceSpan(t, m.span)
    BY <1>4, <1>5
  <2>4. ASSUME NEW x \in Prices(t).spans, NEW y \in Prices(t).spans, x # y PROVE Free(x, y)
    <3>1. PICK a \in max \cup min : x = a.span
      BY <2>1
    <3>2. PICK b \in max \cup min : y = b.span
      BY <2>1
    <3>. QED
      BY <2>2, <2>4, <3>1, <3>2
  <2>. QED
    BY <2>1, <2>3, <2>4 DEF AllFree
<1>. QED
  BY <1>7, <1>8

Worded == {Available} \cup {s[2] : s \in Range(Sorts)}
WordSpan(t, s) == \E phrases \in Worded : PhraseSpan(t, phrases, s)
LEMMA SortIs ==
    ASSUME NEW t \in Seq(DOMAIN Chars), NEW taken
    PROVE  /\ AtMostOne(SortOf(t, taken).spans)
           /\ \A s \in SortOf(t, taken).spans : WordSpan(t, s) /\ \A o \in taken : Free(s, o)
<1>. DEFINE some == {k \in DOMAIN Sorts : FirstMatch(t, Sorts[k][2], taken) # {}}
            spans == FirstMatch(t, Sorts[Min(some)][2], taken)
<1>1. SortOf(t, taken).spans = IF some = {} THEN {} ELSE spans
  BY DEF SortOf
<1>2. CASE some = {}
  BY <1>1, <1>2 DEF AtMostOne
<1>3. CASE some # {}
  <2>1. some \subseteq Nat
    BY ParserAssumption
  <2>2. Min(some) \in some
    BY <1>3, <2>1, MinOf
  <2>3. Sorts[Min(some)] \in Range(Sorts)
    BY <2>2 DEF Range
  <2>. HIDE DEF some
  <2>4. Sorts[Min(some)][2] \in Seq(Seq(DOMAIN Chars)) /\ Sorts[Min(some)][2] \in Worded
    BY <2>3, ParserAssumption DEF Worded
  <2>5. /\ AtMostOne(spans)
        /\ \A s \in spans : PhraseSpan(t, Sorts[Min(some)][2], s) /\ \A o \in taken : Free(s, o)
    BY <2>4, FirstMatchIs
  <2>. QED
    BY <1>1, <1>3, <2>4, <2>5 DEF WordSpan
<1>. QED
  BY <1>2, <1>3

LEMMA ParseIs ==
    ASSUME NEW t \in Seq(DOMAIN Chars)
    PROVE  /\ Parse(t).text = t /\ Parse(t).semantic = Strip(t, Parse(t).taken)
           /\ AllFree(Parse(t).taken)
           /\ \A s \in Parse(t).taken : PriceSpan(t, s) \/ WordSpan(t, s)
<1>. DEFINE prices == Prices(t)
            stock == FirstMatch(t, Available, prices.spans)
            sort == SortOf(t, prices.spans \cup stock)
            taken == prices.spans \cup stock \cup sort.spans
<1>1. /\ Parse(t).text = t /\ Parse(t).semantic = Strip(t, taken) /\ Parse(t).taken = taken
  BY DEF Parse, WithStock, WithSort, WithRest, Intent
<1>2. AllFree(prices.spans) /\ \A s \in prices.spans : PriceSpan(t, s)
  BY PricesAre
<1>3. /\ AtMostOne(stock)
      /\ \A s \in stock : WordSpan(t, s) /\ \A o \in prices.spans : Free(s, o)
  <2>1. Available \in Seq(Seq(DOMAIN Chars)) /\ Available \in Worded
    BY ParserAssumption DEF Worded
  <2>. QED
    BY <2>1, FirstMatchIs DEF WordSpan
<1>4. /\ AtMostOne(sort.spans)
      /\ \A s \in sort.spans : WordSpan(t, s) /\ \A o \in prices.spans \cup stock : Free(s, o)
  BY SortIs
<1>. DEFINE P == prices.spans
            Q == sort.spans
<1>5. taken = P \cup stock \cup Q
  OBVIOUS
<1>. HIDE DEF taken, P, Q, stock
<1>6. ASSUME NEW x \in taken, NEW y \in taken, x # y PROVE Free(x, y)
  <2>1. \A a, b : Free(a, b) => Free(b, a)
    BY DEF Free
  <2>2. CASE x \in P /\ y \in P
    BY <1>2, <1>6, <2>2 DEF AllFree, P
  <2>3. CASE x \in stock /\ y \in stock
    BY <1>3, <1>6, <2>3 DEF AtMostOne
  <2>4. CASE x \in Q /\ y \in Q
    BY <1>4, <1>6, <2>4 DEF AtMostOne, Q
  <2>5. CASE x \in stock /\ y \in P
    BY <1>3, <2>5 DEF P
  <2>6. CASE x \in P /\ y \in stock
    BY <1>3, <2>1, <2>6 DEF P
  <2>7. CASE x \in Q /\ y \in P \cup stock
    BY <1>4, <2>7 DEF P, Q
  <2>8. CASE x \in P \cup stock /\ y \in Q
    BY <1>4, <2>1, <2>8 DEF P, Q
  <2>. QED
    BY <1>5, <2>2, <2>3, <2>4, <2>5, <2>6, <2>7, <2>8
<1>7. \A s \in taken : PriceSpan(t, s) \/ WordSpan(t, s)
  BY <1>2, <1>3, <1>4, <1>5 DEF P, Q
<1>. QED
  BY <1>1, <1>6, <1>7 DEF AllFree

LEMMA TakenAre ==
    ASSUME NEW t \in Seq(DOMAIN Chars), NEW s \in Parse(t).taken
    PROVE  s.from \in Nat /\ s.to \in Nat
<1>1. CASE PriceSpan(t, s)
  <2>1. \A k \in 1..(Len(t) + 1) : k \in Nat
    OBVIOUS
  <2>. QED
    BY <1>1, <2>1, SpanIs
<1>2. CASE WordSpan(t, s)
  <2>1. PICK phrases \in Worded : PhraseSpan(t, phrases, s)
    BY <1>2 DEF WordSpan
  <2>2. phrases \in Seq(Seq(DOMAIN Chars))
    BY ParserAssumption DEF Worded
  <2>3. PICK k \in DOMAIN phrases : \E i \in Occurrences(t, phrases[k]) : s = Span(i, i + Len(phrases[k]), 0)
    BY <2>1 DEF PhraseSpan
  <2>4. PICK i \in Occurrences(t, phrases[k]) : s = Span(i, i + Len(phrases[k]), 0)
    BY <2>3
  <2>5. i \in Nat /\ Len(phrases[k]) \in Nat
    BY <2>2 DEF Occurrences
  <2>6. s.from = i /\ s.to = i + Len(phrases[k])
    BY <2>4 DEF Span
  <2>. QED
    BY <2>5, <2>6
<1>. QED
  BY <1>1, <1>2, ParseIs

(* No word is read twice. *)
Reading(t, i) == {s \in Parse(t).taken : i \in s.from..(s.to - 1)}
LEMMA ReadOnce ==
    ASSUME NEW t \in Seq(DOMAIN Chars), NEW i \in DOMAIN t
    PROVE  Cardinality(Reading(t, i)) <= 1
<1>1. ASSUME NEW x \in Reading(t, i), NEW y \in Reading(t, i) PROVE x = y
  <2>. SUFFICES ASSUME x # y PROVE FALSE
    OBVIOUS
  <2>1. x \in Parse(t).taken /\ y \in Parse(t).taken /\ i \in x.from..(x.to - 1) /\ i \in y.from..(y.to - 1)
    BY DEF Reading
  <2>2. ~(x.from < y.to /\ y.from < x.to)
    BY <2>1, ParseIs DEF AllFree, Free
  <2>3. x.from \in Nat /\ x.to \in Nat /\ y.from \in Nat /\ y.to \in Nat
    BY <2>1, TakenAre
  <2>. QED
    BY <2>1, <2>2, <2>3
<1>2. CASE Reading(t, i) = {}
  BY <1>2, FS_EmptySet
<1>3. CASE Reading(t, i) # {}
  <2>1. PICK x : x \in Reading(t, i)
    BY <1>3
  <2>2. Reading(t, i) = {x}
    BY <1>1, <2>1
  <2>3. Cardinality({x}) = 1
    BY FS_Singleton
  <2>. QED
    BY <2>2, <2>3
<1>. QED
  BY <1>2, <1>3

(* What is not read is kept, in its order. *)
InOrder(rest, t, left) ==
    rest = [k \in 1..Cardinality(left) |->
               t[CHOOSE i \in left : Cardinality({j \in left : j <= i}) = k]]
LEMMA RestKept ==
    ASSUME NEW t \in Seq(DOMAIN Chars), NEW left, left = {i \in DOMAIN t : Reading(t, i) = {}}
    PROVE  InOrder(Parse(t).semantic, t, left)
<1>. DEFINE taken == Parse(t).taken
            s == Strip(t, taken)
            c(i) == Cardinality({j \in left : j <= i})
            key == [i \in left |-> <<0 - i>>]
<1>1. left = Left(t, taken)
  <2>1. ASSUME NEW i \in DOMAIN t PROVE Reading(t, i) = {} <=> ~Overlaps(Span(i, i + 1, 0), taken)
    <3>1. i \in Nat
      OBVIOUS
    <3>2. ASSUME NEW o \in taken
          PROVE  i \in o.from..(o.to - 1) <=> i < o.to /\ o.from < i + 1
      <4>1. o.from \in Nat /\ o.to \in Nat
        BY TakenAre
      <4>. QED
        BY <3>1, <4>1
    <3>3. Overlaps(Span(i, i + 1, 0), taken) <=> \E o \in taken : i < o.to /\ o.from < i + 1
      BY DEF Overlaps, Span
    <3>. HIDE DEF taken
    <3>4. Reading(t, i) = {} <=> \A o \in taken : ~(i \in o.from..(o.to - 1))
      BY DEF Reading, taken
    <3>. QED
      BY <3>2, <3>3, <3>4
  <2>. QED
    BY <2>1 DEF Left
<1>2. /\ IsFiniteSet(left) /\ s \in Seq(DOMAIN Chars) /\ Len(s) = Cardinality(left)
      /\ \A i \in left : s[c(i)] = t[i]
  <2>1. /\ IsFiniteSet(Left(t, taken)) /\ Strip(t, taken) \in Seq(DOMAIN Chars)
        /\ Len(Strip(t, taken)) = Cardinality(Left(t, taken))
        /\ \A i \in Left(t, taken) :
               Strip(t, taken)[Cardinality({j \in Left(t, taken) : j <= i})] = t[i]
    <3>. HIDE DEF taken
    <3>. QED
      BY StripIs
  <2>2. s = Strip(t, taken)
    OBVIOUS
  <2>. HIDE DEF s, taken
  <2>. QED
    BY <1>1, <2>1, <2>2, Zenon
<1>3. left \subseteq Nat
  BY DEF Left
<1>. HIDE DEF s, taken
<1>4. /\ DOMAIN key = left
      /\ \A i \in left : key[i] \in Seq(Int) /\ Len(key[i]) = 1 /\ DOMAIN key[i] = {1} /\ key[i][1] = 0 - i
  <2>1. \A i \in left : 0 - i \in Int
    BY <1>3
  <2>. QED
    BY <2>1
<1>. HIDE DEF key
<1>5. Keyed(key)
  <2>1. \A p, q \in left : 0 - p = 0 - q => p = q
    BY <1>3
  <2>2. \A p, q \in left : key[p][Len(key[p])] = key[q][Len(key[q])] => p = q
    BY <1>4, <2>1
  <2>3. \A p \in left : key[p] \in Seq(Int) /\ Len(key[p]) >= 1
    BY <1>4
  <2>4. \A p, q \in left : Len(key[p]) = Len(key[q])
    BY <1>4
  <2>. QED
    BY <1>2, <1>4, <2>2, <2>3, <2>4, Zenon DEF Keyed
<1>6. ASSUME NEW i \in left PROVE c(i) = Cardinality(Before(key, i)) + 1
  <2>1. ASSUME NEW j \in left PROVE Above(key[j], key[i]) <=> j < i
    <3>1. DOMAIN key[j] = {1} /\ key[j][1] = 0 - j /\ key[i][1] = 0 - i
      BY <1>4
    <3>2. 1..(1 - 1) = {} /\ (0 - j > 0 - i <=> j < i)
      BY <1>3
    <3>3. Above(key[j], key[i]) <=> key[j][1] > key[i][1]
      BY <3>1, <3>2 DEF Above
    <3>. QED
      BY <3>1, <3>2, <3>3
  <2>2. Before(key, i) = {j \in left : j < i}
    BY <1>4, <2>1 DEF Before
  <2>3. \A j \in left : j <= i <=> j < i \/ j = i
    BY <1>3
  <2>4. {j \in left : j <= i} = Before(key, i) \cup {i} /\ i \notin Before(key, i)
    BY <1>3, <2>2, <2>3
  <2>5. IsFiniteSet(Before(key, i))
    BY <1>4, <1>5, BeforeIs
  <2>. QED
    BY <2>4, <2>5, FS_AddElement
<1>7. ASSUME NEW k \in 1..Cardinality(left) PROVE s[k] = t[CHOOSE i \in left : c(i) = k]
  <2>1. PICK i \in left : Cardinality(Before(key, i)) = k - 1
    BY <1>4, <1>5, PlacesTaken
  <2>2. c(i) = k
    <3>1. c(i) = Cardinality(Before(key, i)) + 1
      BY <1>6, Zenon
    <3>2. k - 1 + 1 = k
      OBVIOUS
    <3>. HIDE DEF c
    <3>. QED
      BY <2>1, <3>1, <3>2, Zenon
  <2>. HIDE DEF c
  <2>3. (CHOOSE m \in left : c(m) = k) \in left /\ c(CHOOSE m \in left : c(m) = k) = k
    BY <2>2
  <2>. QED
    BY <1>2, <2>3
<1>8. s = [k \in 1..Cardinality(left) |-> s[k]]
  BY <1>2
<1>9. Parse(t).semantic = s
  BY ParseIs DEF s, taken
<1>. QED
  BY <1>7, <1>8, <1>9 DEF InOrder

(* An amount before a foreign currency is not read. *)
LEMMA ForeignLeft ==
    ASSUME NEW t \in Seq(DOMAIN Chars), NEW i \in DOMAIN t, NEW phrase \in Foreign,
           t[i] \in DOMAIN Amount, i + 1 \in Verbatim(t, phrase), Letters(phrase) < Window
    PROVE  Reading(t, i) = {}
<1>. SUFFICES ASSUME NEW s \in Parse(t).taken, i \in s.from..(s.to - 1) PROVE FALSE
  BY DEF Reading
<1>1. s.from \in Nat /\ s.to \in Nat /\ i \in Nat /\ Len(t) \in Nat /\ s.from <= i /\ i + 1 <= s.to /\ i <= Len(t)
  BY TakenAre
<1>2. CASE PriceSpan(t, s)
  <2>1. /\ s.from \in 1..(Len(t) + 1) /\ s.to \in 1..(Len(t) + 1) /\ s.trail \in {0, 1} /\ ~ForeignNear(t, s)
        /\ i + 1 \in 1..(Len(t) + 1)
    BY <1>1, <1>2, SpanIs DEF PriceSpan
  <2>. DEFINE a == Offset(t, s.from)
              b == Offset(t, i + 1)
              c == Offset(t, s.to)
              l == Letters(phrase)
  <2>2. a <= b /\ b <= c
    <3>1. s.from <= i + 1
      BY <1>1
    <3>. QED
      BY <1>1, <2>1, <3>1, OffsetGrows
  <2>3. a \in Nat /\ b \in Nat /\ c \in Nat /\ l \in Int
    BY <2>1, OffsetNat, LettersInt, ParserAssumption
  <2>4. ~(b >= a - Window /\ b + l <= c - 1 + s.trail + Window)
    BY <2>1 DEF ForeignNear
  <2>5. l < Window
    OBVIOUS
  <2>. HIDE DEF a, b, c, l
  <2>. QED
    BY <2>1, <2>2, <2>3, <2>4, <2>5 DEF Window
<1>3. CASE WordSpan(t, s)
  <2>1. PICK phrases \in Worded : PhraseSpan(t, phrases, s)
    BY <1>3 DEF WordSpan
  <2>2. phrases \in Seq(Seq(DOMAIN Chars))
    BY ParserAssumption DEF Worded
  <2>3. PICK k \in DOMAIN phrases : \E p \in Occurrences(t, phrases[k]) : s = Span(p, p + Len(phrases[k]), 0)
    BY <2>1 DEF PhraseSpan
  <2>4. PICK p \in Occurrences(t, phrases[k]) : s = Span(p, p + Len(phrases[k]), 0)
    BY <2>3
  <2>5. s.from = p /\ s.to = p + Len(phrases[k])
    BY <2>4 DEF Span
  <2>. DEFINE j == i - p + 1
  <2>6. j \in DOMAIN phrases[k] /\ p + j - 1 = i
    <3>1. p \in Nat /\ DOMAIN phrases[k] = 1..Len(phrases[k]) /\ Len(phrases[k]) \in Nat
      BY <1>1, <2>2, <2>5
    <3>. QED
      BY <1>1, <2>5, <3>1
  <2>7. WordFits(t[i], phrases[k], j)
    BY <2>4, <2>6 DEF Occurrences
  <2>8. ~WordFits(t[i], phrases[k], j)
    <3>. HIDE DEF j
    <3>1. \A m \in DOMAIN phrases, w \in DOMAIN Amount : \A n \in DOMAIN phrases[m] : ~WordFits(w, phrases[m], n)
      BY ParserAssumption DEF Worded
    <3>. QED
      BY <2>6, <3>1
  <2>. QED
    BY <2>7, <2>8
<1>. QED
  BY <1>2, <1>3, ParseIs

LEMMA NothingLostWhen == PagesInv => NothingLost
<1>. SUFFICES ASSUME PagesInv, pc = "embed" PROVE NothingLost
  BY DEF NothingLost
<1>. DEFINE t == asked.text
            left == {i \in DOMAIN t : Reading(t, i) = {}}
<1>1. intent = Parse(t) /\ t \in Seq(DOMAIN Chars)
  BY DEF PagesInv, Types, Understood, Read, AskedType, TextType
<1>2. intent.text = t
  BY <1>1, ParseIs
<1>3. \A i \in DOMAIN t : Cardinality(Reading(t, i)) <= 1
  BY <1>1, ReadOnce
<1>4. InOrder(Parse(t).semantic, t, left)
  BY <1>1, RestKept
<1>5. \A i \in DOMAIN t, phrase \in Foreign :
          t[i] \in DOMAIN Amount /\ i + 1 \in Verbatim(t, phrase) /\ Letters(phrase) < Window
          => Reading(t, i) = {}
  BY <1>1, ForeignLeft
<1>. HIDE DEF t
<1>. QED
  BY <1>1, <1>2, <1>3, <1>4, <1>5 DEF NothingLost, Reading, InOrder

\* Reading a text loses no word of it: no word is read as two things, what is read as nothing
\* is searched for in its order, and an amount before a foreign currency that fits the window
\* is not read as a price, for any text, vocabulary and amounts (IntentParser.parse, _strip).
THEOREM WordsKept == Spec => []NothingLost
BY AlwaysPages, NothingLostWhen, PTL
=============================================================================
