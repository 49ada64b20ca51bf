--------------------------- MODULE GalleryProofs ---------------------------
(***************************************************************************)
(* Proofs about the vectors and the search, in the whole of Gallery, for    *)
(* any photos, pictures, models, worlds and numbers of uses. Two things     *)
(* carry them: what is not left astray by a job is in index and vectors     *)
(* what it is in the photo, and an order puts every element of a set in     *)
(* one place. Then about the classes and about the grid that is scrolled.   *)
(***************************************************************************)
EXTENDS Gallery, FiniteSetTheorems, SequenceTheorems, TLAPS

Vectors0 == [Ids -> Pictures \cup {None}]

VType ==
    /\ photo \in [Ids -> PhotoRows \cup {None}]
    /\ vec \in [Spaces -> Vectors0] /\ index \in [Spaces -> Vectors0]

\* What a job has read and not written yet.
TaskShape ==
    /\ task = [l \in Lanes |-> task[l]]
    /\ \A l \in Lanes :
          /\ task[l].at \in {"opened", "loaded"} =>
                task[l].photo \in Ids /\ task[l].pic \in Pictures /\ task[l].spaces \in SUBSET Spaces
          /\ task[l].at = "loaded" => task[l].hash \in Pictures /\ task[l].done \in SUBSET Flags
          /\ task[l].at = "rebuild" => task[l].vectors \in Vectors0

VInv == VType /\ TaskShape /\ IndexFollows

------------------------------------------------------------------------------
(* Order                                                                    *)

StrictOrder(R, S) ==
    /\ \A x \in S : <<x, x>> \notin R
    /\ \A x, y, z \in S : <<x, y>> \in R /\ <<y, z>> \in R => <<x, z>> \in R
    /\ \A x, y \in S : x # y => <<x, y>> \in R \/ <<y, x>> \in R

Place(R, S) == [e \in S |-> Cardinality({d \in S : <<d, e>> \in R})]

\* The places of the elements of a finite set in an order of them.
LEMMA Places ==
  ASSUME NEW S, IsFiniteSet(S), NEW R,
         StrictOrder(R, S)
  PROVE  Place(R, S) \in Bijection(S, 0..Cardinality(S) - 1)
<1> DEFINE below(e) == {d \in S : <<d, e>> \in R}
           place    == [e \in S |-> Cardinality(below(e))]
           n        == Cardinality(S)
<1>1. n \in Nat /\ n = Cardinality(S)
  BY FS_CardinalityType
<1> HIDE DEF n
<1>2. \A e \in S : IsFiniteSet(below(e)) /\ Cardinality(below(e)) \in 0..n - 1
  <2> TAKE e \in S
  <2>1. IsFiniteSet(S \ {e}) /\ Cardinality(S \ {e}) = n - 1
    BY <1>1, FS_RemoveElement
  <2>2. below(e) \in SUBSET (S \ {e})
    BY DEF StrictOrder
  <2> HIDE DEF below
  <2>3. IsFiniteSet(below(e)) /\ Cardinality(below(e)) <= n - 1
    BY <2>1, <2>2, FS_Subset
  <2>4. Cardinality(below(e)) \in Nat
    BY <2>3, FS_CardinalityType
  <2> QED BY <1>1, <2>3, <2>4
<1>3. \A x, y \in S : <<x, y>> \in R => Cardinality(below(x)) < Cardinality(below(y))
  <2> SUFFICES ASSUME NEW x \in S, NEW y \in S, <<x, y>> \in R
               PROVE  Cardinality(below(x)) < Cardinality(below(y))
    BY <1>2
  <2>1. below(x) \cup {x} \in SUBSET below(y) /\ x \notin below(x)
    BY DEF StrictOrder
  <2> HIDE DEF below
  <2>2. Cardinality(below(x) \cup {x}) = Cardinality(below(x)) + 1
    BY <1>2, <2>1, FS_AddElement
  <2>3. Cardinality(below(x) \cup {x}) <= Cardinality(below(y))
    BY <1>2, <2>1, FS_Subset
  <2> QED BY <1>2, <2>2, <2>3
<1>4. place \in [S -> 0..n - 1]
  BY <1>2
<1>5. \A x, y \in S : x # y => place[x] # place[y]
  <2> SUFFICES ASSUME NEW x \in S, NEW y \in S, x # y PROVE place[x] # place[y]
    OBVIOUS
  <2>1. \/ Cardinality(below(x)) < Cardinality(below(y)) \/ Cardinality(below(y)) < Cardinality(below(x))
    BY <1>3 DEF StrictOrder
  <2>2. place[x] = Cardinality(below(x)) /\ place[y] = Cardinality(below(y))
    OBVIOUS
  <2> HIDE DEF below, place
  <2>3. Cardinality(below(x)) \in Int /\ Cardinality(below(y)) \in Int
    BY <1>2
  <2> QED BY <2>1, <2>2, <2>3
<1> HIDE DEF place, below
<1>6. place \in Injection(S, 0..n - 1)
  BY <1>4, <1>5 DEF Injection, IsInjective
<1>7. IsFiniteSet(0..n - 1) /\ Cardinality(0..n - 1) = n
  <2> DEFINE k == n - 1
  <2>1. k \in Int /\ 0 \in Int
    BY <1>1
  <2> HIDE DEF k
  <2>2. IsFiniteSet(0..k) /\ Cardinality(0..k) = IF 0 > k THEN 0 ELSE k - 0 + 1
    BY <2>1, FS_Interval
  <2>3. (IF 0 > k THEN 0 ELSE k - 0 + 1) = n
    BY <1>1 DEF k
  <2> QED BY <2>2, <2>3 DEF k
<1>8. place \in Surjection(S, 0..n - 1)
  BY <1>1, <1>6, <1>7, FS_Injection
<1>9. place \in Bijection(S, 0..n - 1)
  BY <1>6, <1>8 DEF Bijection
<1> QED BY <1>1, <1>9 DEF place, below, Place

\* A function on the numbers up to n is a sequence.
LEMMA Row ==
  ASSUME NEW n \in Nat, NEW S, NEW s \in [1..n -> S]
  PROVE  s \in Seq(S)
<1>1. s = [i \in 1..n |-> s[i]]
  OBVIOUS
<1>2. \A i \in 1..n : s[i] \in S
  OBVIOUS
<1>3. [i \in 1..n |-> s[i]] \in Seq(S)
  BY <1>2
<1> QED BY <1>1, <1>3

\* Every place is taken.
LEMMA EveryPlace ==
  ASSUME NEW S, IsFiniteSet(S), NEW R, StrictOrder(R, S), NEW i \in 0..Cardinality(S) - 1
  PROVE  \E e \in S : Place(R, S)[e] = i
BY Places DEF Bijection, Surjection

\* Who comes later has more before it.
LEMMA LaterPlace ==
  ASSUME NEW S, IsFiniteSet(S), NEW R, StrictOrder(R, S), NEW x \in S, NEW y \in S, <<x, y>> \in R
  PROVE  Place(R, S)[x] < Place(R, S)[y]
<1> DEFINE below(e) == {d \in S : <<d, e>> \in R}
<1>1. below(x) \cup {x} \in SUBSET below(y) /\ x \notin below(x) /\ below(x) \in SUBSET S /\ below(y) \in SUBSET S
  BY DEF StrictOrder
<1>2. Place(R, S)[x] = Cardinality(below(x)) /\ Place(R, S)[y] = Cardinality(below(y))
  BY DEF Place
<1> HIDE DEF below
<1>3. IsFiniteSet(below(x)) /\ IsFiniteSet(below(y))
  BY <1>1, FS_Subset
<1>4. Cardinality(below(x) \cup {x}) = Cardinality(below(x)) + 1
  BY <1>1, <1>3, FS_AddElement
<1>5. Cardinality(below(x) \cup {x}) <= Cardinality(below(y))
  BY <1>1, <1>3, FS_Subset
<1>6. Cardinality(below(x)) \in Nat /\ Cardinality(below(y)) \in Nat
  BY <1>3, FS_CardinalityType
<1> QED BY <1>2, <1>4, <1>5, <1>6

\* A part of an order is one.
LEMMA PartOrder ==
  ASSUME NEW S, NEW R, StrictOrder(R, S), NEW T, T \subseteq S
  PROVE  StrictOrder(R, T)
BY DEF StrictOrder

\* Fewer come before in a piece.
LEMMA PartPlace ==
  ASSUME NEW S, IsFiniteSet(S), NEW R, NEW T, T \subseteq S, NEW e \in T
  PROVE  /\ Place(R, T)[e] \in Nat /\ Place(R, S)[e] \in Nat
         /\ Place(R, T)[e] <= Place(R, S)[e]
         /\ (\A d \in S : <<d, e>> \in R => d \in T) => Place(R, T)[e] = Place(R, S)[e]
<1> DEFINE below == {d \in S : <<d, e>> \in R}
           piece  == {d \in T : <<d, e>> \in R}
<1>1. Place(R, T)[e] = Cardinality(piece) /\ Place(R, S)[e] = Cardinality(below)
  BY DEF Place
<1>2. piece \in SUBSET below /\ below \in SUBSET S
  OBVIOUS
<1>3. (\A d \in S : <<d, e>> \in R => d \in T) => piece = below
  OBVIOUS
<1> HIDE DEF below, piece
<1>4. IsFiniteSet(below)
  BY <1>2, FS_Subset
<1>5. IsFiniteSet(piece) /\ Cardinality(piece) <= Cardinality(below)
  BY <1>2, <1>4, FS_Subset
<1>6. Cardinality(piece) \in Nat /\ Cardinality(below) \in Nat
  BY <1>4, <1>5, FS_CardinalityType
<1> QED BY <1>1, <1>3, <1>5, <1>6

\* The first k of a set.
FirstOf(S, R, k) == {e \in S : Place(R, S)[e] < k}

\* Who has fewer before it comes first.
LEMMA PlaceLess ==
  ASSUME NEW S, IsFiniteSet(S), NEW R, StrictOrder(R, S), NEW x \in S, NEW y \in S,
         Place(R, S)[x] < Place(R, S)[y]
  PROVE  <<x, y>> \in R
<1>1. Place(R, S)[x] \in Nat /\ Place(R, S)[y] \in Nat
  BY PartPlace
<1>2. x # y
  BY <1>1
<1>3. SUFFICES ASSUME <<y, x>> \in R PROVE FALSE
  BY <1>2 DEF StrictOrder
<1>4. Place(R, S)[y] < Place(R, S)[x]
  BY <1>3, LaterPlace
<1> QED BY <1>1, <1>4

\* The first n of a set are n, if it has so many, and come before the others.
LEMMA FirstOnes ==
  ASSUME NEW S, IsFiniteSet(S), NEW R, StrictOrder(R, S), NEW n \in Nat
  PROVE  /\ FirstOf(S, R, n) \in SUBSET S /\ IsFiniteSet(FirstOf(S, R, n))
         /\ Cardinality(FirstOf(S, R, n)) = IF Cardinality(S) <= n THEN Cardinality(S) ELSE n
         /\ \A x \in FirstOf(S, R, n), y \in S \ FirstOf(S, R, n) : <<x, y>> \in R
<1> DEFINE place == Place(R, S)
           F     == FirstOf(S, R, n)
           N     == Cardinality(S)
<1>1. N \in Nat
  BY FS_CardinalityType
<1>2. place \in Bijection(S, 0..N - 1)
  BY Places
<1>3. F = {e \in S : place[e] < n}
  BY DEF FirstOf
<1>4. F \in SUBSET S /\ IsFiniteSet(F)
  BY <1>3, FS_Subset
<1> HIDE DEF place, F
<1>5. \A e \in S : place[e] \in 0..N - 1
  BY <1>2 DEF Bijection, Injection
<1>6. ASSUME N <= n PROVE Cardinality(F) = N
  <2>1. \A e \in S : place[e] < n
    BY <1>1, <1>5, <1>6
  <2>2. F = S
    BY <1>3, <2>1
  <2> QED BY <2>2
<1>7. ASSUME ~(N <= n) PROVE Cardinality(F) = n
  <2> DEFINE g == [e \in F |-> place[e]]
             T == 0..n - 1
  <2>1. \A e \in F : e \in S /\ place[e] < n
    BY <1>3
  <2>2. \A e \in F : place[e] \in T
    BY <1>1, <1>5, <2>1
  <2>3. g \in [F -> T] /\ \A e \in F : g[e] = place[e]
    BY <2>2
  <2>4. \A x, y \in F : g[x] = g[y] => x = y
    BY <1>2, <2>1 DEF Bijection, Injection, IsInjective
  <2>5. \A i \in T : \E e \in F : g[e] = i
    <3> TAKE i \in T
    <3>1. i \in 0..N - 1 /\ i < n
      BY <1>1, <1>7
    <3>2. PICK e \in S : place[e] = i
      BY <1>2, <3>1 DEF Bijection, Surjection
    <3>3. e \in F
      BY <1>3, <3>1, <3>2
    <3> QED BY <3>2, <3>3
  <2> HIDE DEF g, T
  <2>6. g \in Bijection(F, T)
    BY <2>3, <2>4, <2>5 DEF Bijection, Injection, Surjection, IsInjective
  <2>7. Cardinality(T) = Cardinality(F)
    BY <1>4, <2>6, FS_Bijection DEF ExistsBijection
  <2>8. Cardinality(T) = n
    <3> DEFINE k == n - 1
    <3>1. k \in Int /\ 0 \in Int
      OBVIOUS
    <3> HIDE DEF k
    <3>2. Cardinality(0..k) = IF 0 > k THEN 0 ELSE k - 0 + 1
      BY <3>1, FS_Interval
    <3>3. (IF 0 > k THEN 0 ELSE k - 0 + 1) = n
      BY DEF k
    <3> QED BY <3>2, <3>3 DEF k, T
  <2> QED BY <2>7, <2>8
<1>8. \A x \in F, y \in S \ F : <<x, y>> \in R
  <2> SUFFICES ASSUME NEW x \in F, NEW y \in S \ F PROVE <<x, y>> \in R
    OBVIOUS
  <2>1. x \in S /\ y \in S /\ place[x] < n /\ ~(place[y] < n)
    BY <1>3
  <2>2. place[x] < place[y]
    BY <1>1, <1>5, <2>1
  <2> QED BY <2>1, <2>2, PlaceLess DEF place
<1> QED BY <1>4, <1>6, <1>7, <1>8 DEF F

\* A set in order is a sequence of its elements, and all of them.
LEMMA Sorted ==
  ASSUME NEW S, IsFiniteSet(S), NEW R, StrictOrder(R, S),
         NEW s \in [1..Cardinality(S) -> S],
         \A i \in 1..Cardinality(S) : Cardinality({d \in S : <<d, s[i]>> \in R}) = i - 1
  PROVE  s \in Seq(S) /\ ToSet(s) = S
<1> DEFINE place == Place(R, S)
           n     == Cardinality(S)
<1>1. n \in Nat
  BY FS_CardinalityType
<1>2. place \in Bijection(S, 0..n - 1)
  BY Places
<1>3. \A i \in 1..n : s[i] \in S /\ place[s[i]] = i - 1
  BY DEF Place
<1> HIDE DEF place
<1>4. s \in [1..n -> S] /\ DOMAIN s = 1..n
  OBVIOUS
<1> HIDE DEF n
<1>5. s \in Seq(S)
  BY <1>1, <1>4, Row, Zenon
<1>6. \A e \in S : \E i \in DOMAIN s : s[i] = e
  <2> TAKE e \in S
  <2>1. place[e] \in 0..n - 1
    BY <1>2 DEF Bijection, Injection
  <2>2. place[e] + 1 \in 1..n /\ (place[e] + 1) - 1 = place[e]
    BY <1>1, <2>1
  <2>3. s[place[e] + 1] \in S /\ place[s[place[e] + 1]] = place[e]
    BY <1>3, <2>2
  <2>4. s[place[e] + 1] = e
    BY <1>2, <2>3 DEF Bijection, Injection, IsInjective
  <2> QED BY <1>4, <2>2, <2>4
<1>7. \A i \in DOMAIN s : s[i] \in S
  BY <1>3, <1>4
<1> QED BY <1>5, <1>6, <1>7 DEF ToSet

\* A finite set of integers that is not empty has a largest element.
LEMMA Largest ==
  ASSUME NEW S, IsFiniteSet(S), S \subseteq Int, S # {}
  PROVE  Max(S) \in S /\ \A y \in S : y <= Max(S)
<1> DEFINE R     == {x \in S \X S : x[1] < x[2]}
           place == Place(R, S)
           n     == Cardinality(S)
<1>1. n \in Nat \ {0}
  BY FS_CardinalityType, FS_EmptySet
<1>2. \A x, y \in S : <<x, y>> \in R <=> x < y
  OBVIOUS
<1>3. place \in Bijection(S, 0..n - 1)
  <2>1. StrictOrder(R, S)
    BY <1>2 DEF StrictOrder
  <2> QED BY <2>1, Places
<1>4. n - 1 \in 0..n - 1
  BY <1>1
<1>5. PICK m \in S : place[m] = n - 1
  BY <1>3, <1>4 DEF Bijection, Surjection
<1>6. Cardinality({d \in S : <<d, m>> \in R}) = n - 1
  BY <1>5 DEF Place
<1>7. \A y \in S : y <= m
  <2> SUFFICES ASSUME NEW y \in S, ~(y <= m) PROVE FALSE
    OBVIOUS
  <2>1. y # m /\ <<y, m>> \notin R
    BY <1>2
  <2>2. {d \in S : <<d, m>> \in R} \in SUBSET ((S \ {m}) \ {y})
    BY <1>2, <2>1
  <2>3. IsFiniteSet(S \ {m}) /\ Cardinality(S \ {m}) = n - 1
    BY FS_RemoveElement
  <2>4. IsFiniteSet((S \ {m}) \ {y}) /\ Cardinality((S \ {m}) \ {y}) = n - 2
    <3> DEFINE rest == S \ {m}
    <3>1. y \in rest /\ IsFiniteSet(rest) /\ Cardinality(rest) = n - 1
      BY <2>1, <2>3
    <3> HIDE DEF rest, n
    <3>2. IsFiniteSet(rest \ {y}) /\ Cardinality(rest \ {y}) = Cardinality(rest) - 1
      BY <3>1, FS_RemoveElement
    <3>3. Cardinality(rest \ {y}) = n - 2
      BY <1>1, <3>1, <3>2
    <3> QED BY <3>2, <3>3 DEF rest
  <2>5. Cardinality({d \in S : <<d, m>> \in R}) <= n - 2
    BY <2>2, <2>4, FS_Subset
  <2> QED BY <1>1, <1>6, <2>5
<1>8. \E x \in S : \A y \in S : x >= y
  BY <1>7
<1>9. Max(S) \in S /\ \A y \in S : Max(S) >= y
  BY <1>8 DEF Max
<1> QED BY <1>9

\* What two sequences hold together.
LEMMA Joined ==
  ASSUME NEW S, NEW s \in Seq(S), NEW t \in Seq(S)
  PROVE  ToSet(s \o t) = ToSet(s) \cup ToSet(t)
<1>1. /\ DOMAIN s = 1..Len(s) /\ Len(s) \in Nat /\ DOMAIN t = 1..Len(t) /\ Len(t) \in Nat
      /\ DOMAIN (s \o t) = 1..Len(s) + Len(t)
  OBVIOUS
<1>2. \A i \in 1..Len(s) + Len(t) : (s \o t)[i] = IF i <= Len(s) THEN s[i] ELSE t[i - Len(s)]
  OBVIOUS
<1>3. ToSet(s \o t) \subseteq ToSet(s) \cup ToSet(t)
  <2> SUFFICES ASSUME NEW i \in 1..Len(s) + Len(t) PROVE (s \o t)[i] \in ToSet(s) \cup ToSet(t)
    BY <1>1 DEF ToSet
  <2>1. CASE i <= Len(s)
    BY <1>1, <1>2, <2>1 DEF ToSet
  <2>2. CASE ~(i <= Len(s))
    <3>1. i - Len(s) \in DOMAIN t
      BY <1>1, <2>2
    <3> QED BY <1>2, <2>2, <3>1 DEF ToSet
  <2> QED BY <2>1, <2>2
<1>4. ToSet(s) \subseteq ToSet(s \o t)
  <2> SUFFICES ASSUME NEW i \in 1..Len(s) PROVE s[i] \in ToSet(s \o t)
    BY <1>1 DEF ToSet
  <2>1. i \in DOMAIN (s \o t) /\ (s \o t)[i] = s[i]
    BY <1>1, <1>2
  <2> QED BY <2>1 DEF ToSet
<1>5. ToSet(t) \subseteq ToSet(s \o t)
  <2> SUFFICES ASSUME NEW i \in 1..Len(t) PROVE t[i] \in ToSet(s \o t)
    BY <1>1 DEF ToSet
  <2>1. i + Len(s) \in DOMAIN (s \o t) /\ (s \o t)[i + Len(s)] = t[i]
    BY <1>1, <1>2
  <2> QED BY <2>1 DEF ToSet
<1> QED BY <1>3, <1>4, <1>5

\* And a smallest.
LEMMA Least ==
  ASSUME NEW S, IsFiniteSet(S), S \subseteq Int, S # {}
  PROVE  Min(S) \in S /\ \A y \in S : Min(S) <= y
<1> DEFINE R == {x \in S \X S : x[1] < x[2]}
<1>1. Cardinality(S) \in Nat \ {0}
  BY FS_CardinalityType, FS_EmptySet
<1>2. \A x, y \in S : <<x, y>> \in R <=> x < y
  OBVIOUS
<1> HIDE DEF R
<1>3. StrictOrder(R, S)
  BY <1>2 DEF StrictOrder
<1>4. 0 \in 0..Cardinality(S) - 1
  BY <1>1
<1>5. PICK m \in S : Cardinality({d \in S : <<d, m>> \in R}) = 0
  <2>1. PICK m \in S : Place(R, S)[m] = 0
    BY <1>3, <1>4, EveryPlace
  <2> QED BY <2>1 DEF Place
<1>6. {d \in S : <<d, m>> \in R} = {}
  <2>1. IsFiniteSet({d \in S : <<d, m>> \in R})
    BY FS_Subset
  <2> QED BY <1>5, <2>1, FS_EmptySet
<1>7. \A y \in S : m <= y
  <2> TAKE y \in S
  <2>1. ~(y < m)
    BY <1>2, <1>6
  <2>2. y \in Int /\ m \in Int
    OBVIOUS
  <2> QED BY <2>1, <2>2
<1>8. \E x \in S : \A y \in S : x <= y
  BY <1>7
<1> QED BY <1>8 DEF Min

\* In short.
LEMMA Smallest ==
  ASSUME NEW S, IsFiniteSet(S), S \subseteq Int, S # {}
  PROVE  Min(S) \in S
BY Least

\* The next id is nobody's.
LEMMA NextId ==
  ASSUME NEW S, IsFiniteSet(S), S \subseteq Nat
  PROVE  1 + Max({0} \cup S) \in Nat \ S
<1>1. IsFiniteSet({0} \cup S)
  BY FS_AddElement
<1>2. {0} \cup S \subseteq Int /\ {0} \cup S # {}
  OBVIOUS
<1> DEFINE m == Max({0} \cup S)
<1>3. m \in {0} \cup S /\ \A y \in {0} \cup S : y <= m
  BY <1>1, <1>2, Largest
<1> HIDE DEF m
<1>4. m \in Nat
  BY <1>3
<1>5. 1 + m \notin S
  <2> SUFFICES ASSUME 1 + m \in S PROVE FALSE
    OBVIOUS
  <2>1. 1 + m <= m
    BY <1>3
  <2> QED BY <1>4, <2>1
<1>6. 1 + m \in Nat \ S
  BY <1>4, <1>5
<1> QED BY <1>6 DEF m

------------------------------------------------------------------------------
(* Search                                                                   *)

\* Of those sought one is missing only if the page is full, or more that are not sought are nearer
\* than may be passed over.
Fills(found, S, sought, R, Q, limit, spare) ==
    /\ found \subseteq sought
    /\ \A q \in sought \ found :
          /\ Cardinality(found) = limit \/ Cardinality({d \in S \ sought : <<d, q>> \in R}) > spare
          /\ Q = R => \A d \in found : <<d, q>> \in R

\* Of those stored, the nearest C are asked for, of them those sought are kept, and of these the
\* first `limit' in another order: if one is missing though there is room, more than C - limit that
\* were not sought are nearer.
LEMMA PassedOver ==
  ASSUME NEW S, IsFiniteSet(S), NEW sought \in SUBSET S, NEW R, StrictOrder(R, S), NEW Q, StrictOrder(Q, S),
         NEW C \in Nat, NEW limit \in Nat, NEW spare \in Nat, C >= limit + spare,
         NEW found, found = FirstOf(FirstOf(S, R, C) \cap sought, Q, limit)
  PROVE  Fills(found, S, sought, R, Q, limit, spare)
<1> DEFINE near == FirstOf(S, R, C)
           kept == near \cap sought
<1>1. /\ near \in SUBSET S /\ IsFiniteSet(near)
      /\ Cardinality(near) = IF Cardinality(S) <= C THEN Cardinality(S) ELSE C
      /\ \A x \in near, y \in S \ near : <<x, y>> \in R
  BY FirstOnes
<1> HIDE DEF near
<1>2. kept \in SUBSET S /\ kept \subseteq sought /\ kept \subseteq near /\ IsFiniteSet(kept)
  BY <1>1, FS_Subset
<1>3. kept = near \cap sought
  OBVIOUS
<1>4. found = FirstOf(kept, Q, limit)
  BY DEF near
<1> HIDE DEF kept
<1>5. StrictOrder(Q, kept)
  BY <1>2, PartOrder
<1>6. /\ found \in SUBSET kept /\ IsFiniteSet(found)
      /\ Cardinality(found) = IF Cardinality(kept) <= limit THEN Cardinality(kept) ELSE limit
      /\ \A x \in found, y \in kept \ found : <<x, y>> \in Q
  <2> DEFINE first == FirstOf(kept, Q, limit)
  <2>1. /\ first \in SUBSET kept /\ IsFiniteSet(first)
        /\ Cardinality(first) = IF Cardinality(kept) <= limit THEN Cardinality(kept) ELSE limit
        /\ \A x \in first, y \in kept \ first : <<x, y>> \in Q
    BY <1>2, <1>5, FirstOnes
  <2>2. found = first
    BY <1>4
  <2> HIDE DEF first
  <2> QED BY <2>1, <2>2
<1>7. Cardinality(kept) \in Nat /\ Cardinality(near) \in Nat /\ Cardinality(S) \in Nat
  BY <1>1, <1>2, FS_CardinalityType
<1>8. ASSUME NEW q \in sought \ found, q \in kept
      PROVE  Cardinality(found) = limit /\ (Q = R => \A d \in found : <<d, q>> \in R)
  <2>1. ASSUME Cardinality(kept) <= limit PROVE FALSE
    <3>1. Cardinality(found) = Cardinality(kept)
      BY <1>6, <2>1
    <3>2. found = kept
      BY <1>2, <1>6, <3>1, FS_Subset
    <3> QED BY <1>8, <3>2
  <2> QED BY <1>6, <1>8, <2>1
<1>9. ASSUME NEW q \in sought \ found, q \notin kept
      PROVE  /\ Cardinality(found) = limit \/ Cardinality({d \in S \ sought : <<d, q>> \in R}) > spare
             /\ \A d \in found : <<d, q>> \in R
  <2>1. q \in S \ near
    BY <1>3, <1>9
  <2>2. \A d \in near : <<d, q>> \in R
    BY <1>1, <2>1
  <2>3. Cardinality(near) = C
    <3>1. ASSUME Cardinality(S) <= C PROVE FALSE
      <4>1. near = S
        BY <1>1, <3>1, FS_Subset
      <4> QED BY <2>1, <4>1
    <3> QED BY <1>1, <3>1
  <2>4. CASE Cardinality(kept) >= limit
    BY <1>2, <1>6, <1>7, <2>2, <2>4
  <2>5. CASE ~(Cardinality(kept) >= limit)
    <3> DEFINE over == near \ sought
               before == {d \in S \ sought : <<d, q>> \in R}
    <3>1. Cardinality(over) = Cardinality(near) - Cardinality(kept)
      BY <1>1, <1>3, FS_Difference
    <3>2. over \in SUBSET before /\ before \in SUBSET S
      BY <1>1, <2>2
    <3> HIDE DEF over, before
    <3>3. IsFiniteSet(before)
      BY <3>2, FS_Subset
    <3>4. Cardinality(over) <= Cardinality(before) /\ Cardinality(before) \in Nat
      BY <3>2, <3>3, FS_Subset, FS_CardinalityType
    <3>5. Cardinality(before) > spare
      BY <1>7, <2>3, <2>5, <3>1, <3>4
    <3> QED BY <1>2, <1>6, <2>2, <3>5 DEF before
  <2> QED BY <1>7, <2>4, <2>5
<1> QED BY <1>2, <1>6, <1>8, <1>9 DEF Fills

\* Nearer by `store', as a relation.
NearerOf(pic, store, S) == {x \in S \X S : Nearer(pic, store, x[1], x[2])}
AheadOf(pic, look, S) == {x \in S \X S : Ahead(pic, look, x[1], x[2])}

\* Nearness is an order of photos that have a vector.
LEMMA NearnessOrders ==
  ASSUME NEW pic \in Pictures, NEW store \in Vectors0, NEW S \in SUBSET Ids, \A p \in S : store[p] # None
  PROVE  /\ StrictOrder(NearerOf(pic, store, S), S)
         /\ \A p, q \in S : <<p, q>> \in NearerOf(pic, store, S) <=> Nearer(pic, store, p, q)
<1> DEFINE near(p) == Alike[pic][store[p]]
<1>1. \A p \in S : p \in Nat /\ near(p) \in Nat
  BY IdAssumption, AlikeAssumption DEF Vectors0
<1>2. \A p, q : Nearer(pic, store, p, q) <=> near(p) > near(q) \/ (near(p) = near(q) /\ p < q)
  BY DEF Nearer
<1>3. \A p, q \in S : <<p, q>> \in NearerOf(pic, store, S) <=> Nearer(pic, store, p, q)
  BY DEF NearerOf
<1> HIDE DEF near
<1> QED BY <1>1, <1>2, <1>3 DEF StrictOrder

\* And so is the order in which they are shown, which is nearness if there is no re-ranking.
LEMMA RankingOrders ==
  ASSUME VType, NEW pic \in Pictures, NEW look \in Pictures \cup {None}, NEW S \in SUBSET Indexed
  PROVE  /\ StrictOrder(AheadOf(pic, look, S), S)
         /\ \A p, q \in S : <<p, q>> \in AheadOf(pic, look, S) <=> Ahead(pic, look, p, q)
         /\ look = None => AheadOf(pic, look, S) = NearerOf(pic, index["semantic"], S)
<1> DEFINE seen(r) == look # None /\ vec["visual"][r] # None
           at   == index["semantic"]
           look0 == vec["visual"]
           in   == {r \in S : seen(r)}
           out  == S \ in
<1>1. at \in Vectors0 /\ look0 \in Vectors0 /\ S \in SUBSET Ids /\ \A p \in S : at[p] # None
  BY DEF VType, Spaces, Indexed
<1>2. \A p, q : Ahead(pic, look, p, q) <=>
         \/ seen(p) /\ ~seen(q)
         \/ seen(p) /\ seen(q) /\ Nearer(look, look0, p, q)
         \/ ~seen(p) /\ ~seen(q) /\ Nearer(pic, at, p, q)
  BY DEF Ahead
<1>3. \A p, q \in S : <<p, q>> \in AheadOf(pic, look, S) <=> Ahead(pic, look, p, q)
  BY DEF AheadOf
<1>4. \A r \in in : look0[r] # None /\ look \in Pictures
  OBVIOUS
<1> HIDE DEF at, look0
<1>5. /\ \A x \in S : ~Nearer(pic, at, x, x)
      /\ \A x, y, z \in S : Nearer(pic, at, x, y) /\ Nearer(pic, at, y, z) => Nearer(pic, at, x, z)
      /\ \A x, y \in S : x # y => Nearer(pic, at, x, y) \/ Nearer(pic, at, y, x)
  <2> DEFINE R == NearerOf(pic, at, S)
  <2>1. StrictOrder(R, S) /\ \A p, q \in S : <<p, q>> \in R <=> Nearer(pic, at, p, q)
    BY <1>1, NearnessOrders
  <2> HIDE DEF R
  <2> QED BY <2>1 DEF StrictOrder
<1>6. /\ \A x \in in : ~Nearer(look, look0, x, x)
      /\ \A x, y, z \in in : Nearer(look, look0, x, y) /\ Nearer(look, look0, y, z) => Nearer(look, look0, x, z)
      /\ \A x, y \in in : x # y => Nearer(look, look0, x, y) \/ Nearer(look, look0, y, x)
  <2>1. CASE in = {}
    BY <2>1
  <2>2. CASE in # {}
    <3>1. look \in Pictures /\ in \in SUBSET Ids /\ \A r \in in : look0[r] # None
      BY <1>1, <1>4, <2>2
    <3> DEFINE R == NearerOf(look, look0, in)
    <3> HIDE DEF in
    <3>2. StrictOrder(R, in) /\ \A p, q \in in : <<p, q>> \in R <=> Nearer(look, look0, p, q)
      BY <1>1, <3>1, NearnessOrders
    <3> HIDE DEF R
    <3> QED BY <3>2 DEF StrictOrder
  <2> QED BY <2>1, <2>2
<1>7. \A r \in S : r \in in <=> seen(r)
  OBVIOUS
<1>8. look = None => AheadOf(pic, look, S) = NearerOf(pic, at, S)
  <2> SUFFICES ASSUME look = None PROVE AheadOf(pic, look, S) = NearerOf(pic, at, S)
    OBVIOUS
  <2>1. \A p, q : Ahead(pic, look, p, q) <=> Nearer(pic, at, p, q)
    BY <1>2
  <2> QED BY <2>1 DEF AheadOf, NearerOf
<1> HIDE DEF in, seen
<1>9. StrictOrder(AheadOf(pic, look, S), S)
  <2>1. \A x \in S : ~Ahead(pic, look, x, x)
    BY <1>2, <1>5, <1>6, <1>7
  <2>2. ASSUME NEW x \in S, NEW y \in S, NEW z \in S, Ahead(pic, look, x, y), Ahead(pic, look, y, z)
        PROVE  Ahead(pic, look, x, z)
    BY <1>2, <1>5, <1>6, <1>7, <2>2
  <2>3. \A x, y \in S : x # y => Ahead(pic, look, x, y) \/ Ahead(pic, look, y, x)
    BY <1>2, <1>5, <1>6, <1>7
  <2> QED BY <1>3, <2>1, <2>2, <2>3 DEF StrictOrder
<1> QED BY <1>3, <1>8, <1>9 DEF at

\* The candidates are as many as a page and what may be passed over.
LEMMA CandidatesEnough ==
  ASSUME NEW limit \in Limits, NEW ranked \in BOOLEAN
  PROVE  /\ Candidates(limit, ranked) \in Nat /\ Spare(limit) \in Nat
         /\ Candidates(limit, ranked) >= limit + Spare(limit)
<1>1. limit \in Nat \ {0} /\ Factor \in Nat \ {0} /\ Slack \in Nat /\ Pool \in Nat
  BY SearchAssumption
<1> DEFINE m == limit * Factor
           r == limit * (Factor - 1)
           most == {m, limit + Slack} \cup (IF ranked THEN {Pool} ELSE {})
<1>2. m \in Nat /\ r \in Nat /\ m = limit + r
  BY <1>1
<1> HIDE DEF m, r
<1>3. IsFiniteSet(most) /\ most \subseteq Int /\ most # {}
  <2>1. IsFiniteSet({m}) /\ {m, limit + Slack} = {m} \cup {limit + Slack}
    BY FS_Singleton
  <2>2. IsFiniteSet({m, limit + Slack})
    BY <2>1, FS_AddElement
  <2>3. IsFiniteSet({m, limit + Slack} \cup {Pool})
    BY <2>2, FS_AddElement
  <2>4. most \subseteq Int /\ most # {}
    BY <1>1, <1>2
  <2>5. most = {m, limit + Slack} \/ most = {m, limit + Slack} \cup {Pool}
    OBVIOUS
  <2> QED BY <2>2, <2>3, <2>4, <2>5
<1>4. Max(most) \in most /\ \A y \in most : y <= Max(most)
  BY <1>3, Largest
<1>5. IsFiniteSet({r, Slack}) /\ {r, Slack} \subseteq Int /\ {r, Slack} # {}
  <2>1. IsFiniteSet({r}) /\ {r, Slack} = {r} \cup {Slack}
    BY FS_Singleton
  <2> QED BY <1>1, <1>2, <2>1, FS_AddElement
<1>6. Max({r, Slack}) \in {r, Slack}
  BY <1>5, Largest
<1>7. Max(most) \in Nat /\ Max(most) >= m /\ Max(most) >= limit + Slack
  <2> DEFINE top == Max(most)
  <2>1. m \in most /\ limit + Slack \in most
    OBVIOUS
  <2>2. top \in Int /\ m <= top /\ limit + Slack <= top
    BY <1>3, <1>4, <2>1
  <2> HIDE DEF top, most
  <2>3. top \in Nat /\ top >= m /\ top >= limit + Slack
    BY <1>1, <1>2, <2>2
  <2> QED BY <2>3 DEF top
<1>8. Candidates(limit, ranked) = Max(most) /\ Spare(limit) = Max({r, Slack})
  BY DEF Candidates, Spare, m, r
<1> HIDE DEF most
<1> QED BY <1>1, <1>2, <1>6, <1>7, <1>8

\* What a search finds keeps its promise, where the index follows the vectors.
LEMMA FoundFinds ==
  ASSUME VType, index = vec, NEW pic \in Pictures, NEW look \in Pictures \cup {None},
         NEW sought \in SUBSET Indexed, NEW limit \in Limits
  PROVE  Finds(Found(pic, look, sought, limit), pic, look, sought, limit)
<1> DEFINE at == index["semantic"]
           C  == Candidates(limit, look # None)
           R  == NearerOf(pic, at, Indexed)
           Q  == AheadOf(pic, look, Indexed)
           found == Found(pic, look, sought, limit)
<1>1. at \in Vectors0 /\ Indexed \in SUBSET Ids /\ (\A p \in Indexed : at[p] # None) /\ limit \in Nat
  BY SearchAssumption DEF VType, Spaces, Indexed
<1>2. /\ StrictOrder(R, Indexed) /\ StrictOrder(Q, Indexed) /\ (look = None => Q = R)
      /\ \A p, q \in Indexed : <<p, q>> \in R <=> Nearer(pic, at, p, q)
      /\ \A p, q \in Indexed : <<p, q>> \in Q <=> Ahead(pic, look, p, q)
  BY <1>1, NearnessOrders, RankingOrders
<1>3. C \in Nat /\ Spare(limit) \in Nat /\ C >= limit + Spare(limit)
  BY CandidatesEnough
<1>4. IsFiniteSet(Indexed)
  BY <1>1, IdAssumption, FS_Subset
<1> HIDE DEF R, Q, C
<1>5. Closest(pic, C) = FirstOf(Indexed, R, C)
  <2>1. Closest(pic, C) = {p \in Indexed : Cardinality({q \in Indexed : Nearer(pic, at, q, p)}) < C}
    BY DEF Closest, Topmost
  <2>2. \A p \in Indexed : {q \in Indexed : Nearer(pic, at, q, p)} = {q \in Indexed : <<q, p>> \in R}
    BY <1>2
  <2> QED BY <2>1, <2>2 DEF FirstOf, Place
<1>6. found = FirstOf(FirstOf(Indexed, R, C) \cap sought, Q, limit)
  <2> DEFINE kept == Closest(pic, C) \cap sought
  <2>1. found = {p \in kept : Cardinality({q \in kept : Ahead(pic, look, q, p)}) < limit}
    BY DEF Found, Topmost, C
  <2>2. kept \subseteq Indexed
    OBVIOUS
  <2> HIDE DEF kept
  <2>3. \A p \in kept : {q \in kept : Ahead(pic, look, q, p)} = {q \in kept : <<q, p>> \in Q}
    BY <1>2, <2>2
  <2>4. found = FirstOf(kept, Q, limit)
    BY <2>1, <2>3 DEF FirstOf, Place
  <2> QED BY <1>5, <2>4 DEF kept
<1> HIDE DEF found
<1>7. /\ found \subseteq sought
      /\ \A q \in sought \ found :
            /\ \/ Cardinality(found) = limit
               \/ Cardinality({d \in Indexed \ sought : <<d, q>> \in R}) > Spare(limit)
            /\ Q = R => \A d \in found : <<d, q>> \in R
  <2> DEFINE spare == Spare(limit)
             S     == Indexed
  <2>1. IsFiniteSet(S) /\ sought \in SUBSET S /\ StrictOrder(R, S) /\ StrictOrder(Q, S)
    BY <1>2, <1>4
  <2>2. C \in Nat /\ limit \in Nat /\ spare \in Nat /\ C >= limit + spare
    BY <1>1, <1>3
  <2>3. found = FirstOf(FirstOf(S, R, C) \cap sought, Q, limit)
    BY <1>6
  <2> HIDE DEF spare, S
  <2>4. Fills(found, S, sought, R, Q, limit, spare)
    BY <2>1, <2>2, <2>3, PassedOver
  <2> QED BY <2>4 DEF spare, S, Fills
<1>8. Resembling(pic, 0) = Indexed
  <2>1. \A p \in Indexed : Alike[pic][at[p]] \in Nat
    BY <1>1, AlikeAssumption DEF Vectors0
  <2> QED BY <2>1 DEF Resembling, Indexed
<1>9. \A q \in sought : {d \in Resembling(pic, 0) \ sought : Nearer(pic, vec["semantic"], d, q)}
                          = {d \in Indexed \ sought : <<d, q>> \in R}
  BY <1>2, <1>8
<1>10. \A q \in sought, d \in found : found \subseteq sought => (<<d, q>> \in R <=> Nearer(pic, vec["semantic"], d, q))
  BY <1>2
<1> QED BY <1>2, <1>7, <1>9, <1>10 DEF Finds, found

\* Where nothing is astray, searches keep their promise.
LEMMA SearchFinds == VInv => FindsNearest
<1> SUFFICES ASSUME VInv, astray = {} PROVE FindsNearest
  BY DEF FindsNearest
<1>1. VType /\ index = vec
  BY DEF VInv, VType, Vectors0, IndexFollows
<1>2. vec["semantic"] \in Vectors0 /\ vec["visual"] \in Vectors0 /\ There \in SUBSET Ids /\ Live \in SUBSET Ids
  BY DEF VInv, VType, Spaces, There, Live
<1>3. \A p \in Indexed : p \in There
  BY <1>1 DEF VInv, IndexFollows, Indexed, Spaces
<1>4. \A pic \in Pictures : Resembling(pic, 0) = Indexed
  <2> TAKE pic \in Pictures
  <2>1. \A p \in Indexed : Alike[pic][vec["semantic"][p]] \in Nat
    BY <1>1, <1>2, AlikeAssumption DEF Vectors0, Indexed
  <2> QED BY <1>1, <2>1 DEF Resembling, Indexed
<1>5. ASSUME NEW p \in There, NEW limit \in Limits, NEW ranks \in BOOLEAN, vec["semantic"][p] # None
      PROVE  Finds(LikePhoto(p, limit, ranks), vec["semantic"][p], IF ranks THEN vec["visual"][p] ELSE None,
                   (Resembling(vec["semantic"][p], 0) \cap Live) \ {p}, limit)
  <2> DEFINE pic  == vec["semantic"][p]
             look == IF ranks THEN vec["visual"][p] ELSE None
             sought == (Resembling(pic, 0) \cap Live) \ {p}
  <2>1. pic \in Pictures /\ look \in Pictures \cup {None}
    BY <1>2, <1>5 DEF Vectors0
  <2>2. sought \in SUBSET Indexed /\ sought = Indexed \cap (Live \ {p})
    BY <1>4, <2>1
  <2>3. \A n \in Nat : Closest(pic, n) \cap (Live \ {p}) = Closest(pic, n) \cap sought
    BY <2>2 DEF Closest, Topmost
  <2>4. Candidates(limit, look # None) \in Nat
    BY CandidatesEnough
  <2>5. LikePhoto(p, limit, ranks) = Found(pic, look, Live \ {p}, limit)
    BY <1>5 DEF LikePhoto
  <2> HIDE DEF pic, look, sought
  <2>6. Found(pic, look, Live \ {p}, limit) = Found(pic, look, sought, limit)
    BY <2>3, <2>4 DEF Found
  <2>7. Finds(Found(pic, look, sought, limit), pic, look, sought, limit)
    BY <1>1, <2>1, <2>2, FoundFinds
  <2> QED BY <2>5, <2>6, <2>7 DEF pic, look, sought
<1>6. ASSUME NEW pic \in Pictures, NEW limit \in Limits, NEW ranks \in BOOLEAN, Embedder(row) \in Fits
      PROVE  Finds(LikeImage(pic, limit, ranks), pic, IF ranks /\ dino THEN pic ELSE None,
                   Resembling(pic, MinScore) \cap Live, limit)
  <2> DEFINE look == IF ranks /\ dino THEN pic ELSE None
             sought == Resembling(pic, MinScore) \cap Live
  <2>1. sought = {q \in Live \cap Indexed : Alike[pic][index["semantic"][q]] >= MinScore} /\ sought \in SUBSET Indexed
    BY <1>1 DEF Resembling, Indexed
  <2>2. LikeImage(pic, limit, ranks) = Found(pic, look, sought, limit)
    BY <1>6, <2>1 DEF LikeImage
  <2>3. look \in Pictures \cup {None}
    OBVIOUS
  <2> HIDE DEF look, sought
  <2>4. Finds(Found(pic, look, sought, limit), pic, look, sought, limit)
    BY <1>1, <2>1, <2>3, FoundFinds
  <2> QED BY <2>2, <2>4 DEF look, sought
<1>7. ASSUME NEW p \in There, vec["semantic"][p] # None
      PROVE  LET pic == vec["semantic"][p]
             IN  SimilarTo(p, TRUE) = {q \in Resembling(pic, SimilarFloor) \ {p} :
                    Cardinality({d \in Resembling(pic, 0) : Nearer(pic, vec["semantic"], d, q)}) < SimilarMost}
  <2> DEFINE pic == vec["semantic"][p]
             near(q) == Cardinality({d \in Indexed : Nearer(pic, vec["semantic"], d, q)}) < SimilarMost
  <2>1. pic \in Pictures /\ Resembling(pic, 0) = Indexed
    BY <1>2, <1>4, <1>7 DEF Vectors0
  <2>2. Closest(pic, SimilarMost) = {q \in Indexed : near(q)}
    BY <1>1 DEF Closest, Topmost
  <2>3. SimilarTo(p, TRUE) = {q \in Closest(pic, SimilarMost) \ {p} :
                                 q \in There /\ Alike[pic][index["semantic"][q]] >= SimilarFloor}
    BY <1>7 DEF SimilarTo
  <2>4. Resembling(pic, SimilarFloor) = {q \in Indexed : Alike[pic][index["semantic"][q]] >= SimilarFloor}
    BY <1>1 DEF Resembling, Indexed
  <2> HIDE DEF pic, near
  <2>5. SimilarTo(p, TRUE) = {q \in Resembling(pic, SimilarFloor) \ {p} : near(q)}
    BY <1>3, <2>2, <2>3, <2>4
  <2> QED BY <2>1, <2>5 DEF pic, near
<1> QED BY <1>5, <1>6, <1>7 DEF FindsNearest

------------------------------------------------------------------------------
(* The invariant is inductive                                               *)

\* Spaces are flags and the flag of a classification is of no space.
LEMMA FlagsApart == Spaces \subseteq Flags /\ "classified" \notin Spaces
BY DEF Flags, Spaces

\* What is there is a row.
LEMMA Rows ==
  ASSUME VType
  PROVE  /\ There \in SUBSET Ids /\ Live \in SUBSET There
         /\ \A p \in There : photo[p] \in PhotoRows
BY DEF VType, There, Live

\* The first embedding of a world is what its photos count as embedded.
LEMMA InitVInv == GInit => VInv
<1> SUFFICES ASSUME GInit PROVE VInv
  OBVIOUS
<1>1. photo \in [Ids -> PhotoRows \cup {None}]
  BY WorldAssumption DEF GInit
<1>2. \A p \in Ids : p \in There => photo[p] \in PhotoRows
  BY <1>1 DEF There
<1>3. vec = [x \in Spaces |-> [p \in Ids |-> IF p \in There /\ x \in photo[p].done THEN photo[p].pic ELSE None]]
  BY DEF GInit
<1>4. \A p \in Ids : p \in There => photo[p].pic \in Pictures /\ photo[p].pic # None
  BY <1>2, NoneAssumption DEF PhotoRows
<1>5. vec \in [Spaces -> Vectors0] /\ index = vec
  BY <1>3, <1>4 DEF GInit, Vectors0
<1>6. TaskShape
  BY DEF GInit, TaskShape, NoTask
<1>7. IndexFollows
  BY <1>3, <1>4, <1>5 DEF IndexFollows
<1> QED BY <1>1, <1>5, <1>6, <1>7 DEF VInv, VType

\* A step that leaves every photo its picture, sets no flag of a space and takes away no vector
\* keeps what holds of them.
LEMMA PhotosKept ==
  ASSUME VType, IndexFollows,
         photo' \in [Ids -> PhotoRows \cup {None}], UNCHANGED <<vec, index, astray>>,
         \A p \in Ids : /\ p \in There => photo'[p] # None /\ photo'[p].pic = photo[p].pic
                                          /\ photo'[p].done \cap Spaces \subseteq photo[p].done
                        /\ p \notin There => photo'[p] = None \/ photo'[p].done = {}
  PROVE  VType' /\ IndexFollows'
<1>1. VType'
  BY DEF VType
<1>2. IndexFollows'
  BY DEF IndexFollows, There
<1> QED BY <1>1, <1>2

\* A task that ends, or begins to classify, keeps the shape of tasks.
LEMMA TaskSet ==
  ASSUME TaskShape, NEW l \in Lanes, NEW t,
         task' = [task EXCEPT ![l] = t],
         t.at \in {"opened", "loaded"} =>
            t.photo \in Ids /\ t.pic \in Pictures /\ t.spaces \in SUBSET Spaces,
         t.at = "loaded" => t.hash \in Pictures /\ t.done \in SUBSET Flags,
         t.at = "rebuild" => t.vectors \in Vectors0
  PROVE  TaskShape'
<1>1. task' = [k \in Lanes |-> task'[k]] /\ \A k \in Lanes : task'[k] = IF k = l THEN t ELSE task[k]
  BY DEF TaskShape
<1> QED BY <1>1 DEF TaskShape

\* A task that ends leaves a lane that is free.
LEMMA TaskEnds ==
  ASSUME TaskShape, NEW l \in Lanes, Finish(l)
  PROVE  TaskShape'
BY TaskSet DEF Finish, NoTask

\* Nothing about photos changes.
LEMMA Unmoved ==
  ASSUME VInv, UNCHANGED vectors
  PROVE  VInv'
BY DEF VInv, VType, TaskShape, IndexFollows, There, vectors, stored

\* embedding_job.py, start: the job carries the photo's picture and takes a flag off.
LEMMA EmbedStartKeeps ==
  ASSUME VInv, NEW l \in Lanes, NEW p \in Ids, NEW spaces \in SUBSET Spaces, EmbedStart(l, p, spaces)
  PROVE  VInv'
<1> DEFINE used == {s \in spaces : IF s = "visual" THEN dino ELSE Embedder(row) # None}
           flag == IF "semantic" \in spaces THEN "semantic" ELSE "visual"
           t    == [at |-> "opened", photo |-> p, pic |-> photo[p].pic, spaces |-> used, model |-> Embedder(row)]
<1>1. p \in There /\ photo[p] \in PhotoRows
  BY Rows DEF VInv, EmbedStart
<1>2. photo' = IF l = "main" THEN [photo EXCEPT ![p].done = @ \ {flag}] ELSE photo
  BY DEF EmbedStart
<1>3. VType' /\ IndexFollows'
  <2>1. photo' \in [Ids -> PhotoRows \cup {None}]
    BY <1>1, <1>2 DEF VInv, VType, PhotoRows
  <2>2. \A q \in There : photo'[q] \in PhotoRows /\ photo'[q].pic = photo[q].pic /\ photo'[q].done \subseteq photo[q].done
    BY <1>1, <1>2, Rows DEF VInv, VType, PhotoRows
  <2>3. \A q \in Ids \ There : photo'[q] = None
    BY <1>1, <1>2 DEF VInv, VType, There
  <2>4. UNCHANGED <<vec, index, astray>>
    BY DEF EmbedStart
  <2> QED BY <2>1, <2>2, <2>3, <2>4, PhotosKept, NoneAssumption DEF VInv
<1>4. TaskShape'
  <2>1. CASE task' = task
    BY <2>1 DEF VInv, TaskShape
  <2>2. CASE task' = [task EXCEPT ![l] = t]
    <3>1. t.photo \in Ids /\ t.pic \in Pictures /\ t.spaces \in SUBSET Spaces
      BY <1>1 DEF PhotoRows
    <3> HIDE DEF t
    <3> QED BY <2>2, <3>1, TaskSet DEF VInv, t
  <2> QED BY <2>1, <2>2 DEF EmbedStart
<1> QED BY <1>3, <1>4 DEF VInv

\* embedding_job.py, load: the job keeps the content hash it finds, which may be another photo's by now.
LEMMA EmbedLookKeeps ==
  ASSUME VInv, NEW l \in Lanes, EmbedLook(l)
  PROVE  VInv'
<1> DEFINE t == task[l]
           u == [at |-> "loaded", photo |-> t.photo, pic |-> t.pic, spaces |-> t.spaces, model |-> t.model,
                 hash |-> photo[t.photo].pic, done |-> photo[t.photo].done]
<1>1. VType' /\ IndexFollows'
  BY DEF VInv, VType, IndexFollows, There, EmbedLook, stored
<1>2. TaskShape'
  <2>1. CASE t.photo \notin There
    BY <2>1, TaskEnds DEF VInv, EmbedLook, Finish
  <2>2. CASE t.photo \in There
    <3>1. task' = [task EXCEPT ![l] = u]
      BY <2>2 DEF EmbedLook
    <3>2. photo[t.photo] \in PhotoRows
      BY <2>2, Rows DEF VInv
    <3>3. t.photo \in Ids /\ t.pic \in Pictures /\ t.spaces \in SUBSET Spaces
      BY DEF VInv, TaskShape, EmbedLook
    <3>4. /\ u.photo \in Ids /\ u.pic \in Pictures /\ u.spaces \in SUBSET Spaces /\ u.at = "loaded"
          /\ u.hash \in Pictures /\ u.done \in SUBSET Flags
      BY <3>2, <3>3 DEF PhotoRows
    <3> HIDE DEF u, t
    <3> QED BY <3>1, <3>4, TaskSet DEF VInv
  <2> QED BY <2>1, <2>2
<1> QED BY <1>1, <1>2 DEF VInv

\* What a job writes is true of its own photo, and of every other that it writes of, it is marked.
LEMMA EmbedWriteKeeps ==
  ASSUME VInv, NEW l \in Lanes, EmbedWrite(l)
  PROVE  VInv'
<1> DEFINE t      == task[l]
           owners == {q \in There : photo[q].pic = t.hash}
           flags  == t.spaces \ t.done
           fails  == ("semantic" \in t.spaces /\ t.model \notin Fits) \/ (flags # {} /\ owners = {})
           own    == t.photo \in There /\ photo[t.photo].pic = t.pic
           mine   == t.spaces \X {t.photo}
           lost   == (flags \X owners) \ mine
<1>1. /\ t.photo \in Ids /\ t.pic \in Pictures /\ t.spaces \in SUBSET Spaces
      /\ t.hash \in Pictures /\ t.done \in SUBSET Flags
  BY DEF VInv, TaskShape, EmbedWrite
<1>2. TaskShape'
  BY TaskEnds DEF VInv, EmbedWrite
<1>3. CASE fails
  <2>1. UNCHANGED <<stored, astray>>
    BY <1>3 DEF EmbedWrite
  <2> QED BY <2>1, <1>2 DEF VInv, VType, IndexFollows, There, stored
<1>4. CASE ~fails
  <2>1. /\ vec' = Put(vec, t) /\ index' = Put(index, t)
        /\ photo' = [q \in Ids |-> IF q \in owners THEN Marked(q, flags)[q] ELSE photo[q]]
        /\ astray' = lost \cup (IF own THEN astray \ mine ELSE astray \cup mine)
    BY <1>4 DEF EmbedWrite, Embedded
  <2>2. \A q \in owners : photo[q] \in PhotoRows /\ Marked(q, flags)[q] = [photo[q] EXCEPT !.done = @ \cup flags]
    BY Rows DEF VInv, VType, Marked
  <2> HIDE DEF t
  <2> DEFINE new == [q \in Ids |-> IF q \in owners THEN [photo[q] EXCEPT !.done = @ \cup flags] ELSE photo[q]]
  <2>3. photo' = new /\ owners \in SUBSET There /\ There \in SUBSET Ids
    BY <2>1, <2>2 DEF There
  <2>4. /\ new \in [Ids -> PhotoRows \cup {None}]
        /\ \A q \in There : /\ new[q] \in PhotoRows /\ new[q].pic = photo[q].pic
                            /\ new[q].done \subseteq photo[q].done \cup (IF q \in owners THEN flags ELSE {})
        /\ \A q \in Ids \ There : new[q] = None
    BY <1>1, <2>2, Rows, FlagsApart DEF VInv, VType, PhotoRows, There
  <2> HIDE DEF new
  <2>5. There' = There
    BY <2>3, <2>4, NoneAssumption DEF There
  <2>6. \A s \in Spaces, p \in Ids : vec'[s][p] = IF s \in t.spaces /\ p = t.photo THEN t.pic ELSE vec[s][p]
    BY <1>1, <2>1 DEF VInv, VType, Vectors0, Put
  <2>7. \A s \in Spaces, p \in Ids : index'[s][p] = IF s \in t.spaces /\ p = t.photo THEN t.pic ELSE index[s][p]
    BY <1>1, <2>1 DEF VInv, VType, Vectors0, Put
  <2>8. vec' \in [Spaces -> Vectors0] /\ index' \in [Spaces -> Vectors0]
    BY <1>1, <2>1 DEF VInv, VType, Vectors0, Put
  <2>9. t.pic # None
    BY <1>1, NoneAssumption
  <2>10. ASSUME NEW s \in Spaces, NEW p \in Ids, <<s, p>> \notin astray'
         PROVE  /\ index'[s][p] = vec'[s][p]
                /\ vec'[s][p] # None => p \in There' /\ photo'[p].pic = vec'[s][p]
                /\ p \in There' /\ s \in photo'[p].done => vec'[s][p] # None
    <3>1. CASE s \in t.spaces /\ p = t.photo
      <4>1. <<s, p>> \in mine
        BY <3>1
      <4>2. own
        BY <4>1, <2>1, <2>10
      <4>3. vec'[s][p] = t.pic /\ index'[s][p] = t.pic
        BY <2>6, <2>7, <3>1
      <4> QED BY <2>3, <2>4, <2>5, <2>9, <3>1, <4>2, <4>3
    <3>2. CASE ~(s \in t.spaces /\ p = t.photo)
      <4>1. <<s, p>> \notin mine
        BY <3>2
      <4>2. <<s, p>> \notin lost /\ <<s, p>> \notin astray
        BY <2>1, <2>10, <4>1
      <4>3. ~(s \in flags /\ p \in owners)
        BY <4>1, <4>2
      <4>4. vec'[s][p] = vec[s][p] /\ index'[s][p] = index[s][p]
        BY <2>6, <2>7, <3>2
      <4>5. p \in There => photo'[p].pic = photo[p].pic /\ (s \in photo'[p].done => s \in photo[p].done)
        BY <2>3, <2>4, <4>3
      <4>6. /\ index[s][p] = vec[s][p]
            /\ vec[s][p] # None => p \in There /\ photo[p].pic = vec[s][p]
            /\ p \in There /\ s \in photo[p].done => vec[s][p] # None
        BY <4>2 DEF VInv, IndexFollows
      <4> QED BY <2>5, <4>4, <4>5, <4>6
    <3> QED BY <3>1, <3>2
  <2>11. IndexFollows'
    BY <2>10 DEF IndexFollows
  <2> QED BY <1>2, <2>3, <2>4, <2>8, <2>11 DEF VInv, VType
<1> QED BY <1>3, <1>4

\* embedding_job.py, failure: vectors and flags stay.
LEMMA EmbedFailsKeeps ==
  ASSUME VInv, NEW l \in Lanes, EmbedFails(l)
  PROVE  VInv'
<1>1. TaskShape'
  BY TaskEnds DEF VInv, EmbedFails
<1> QED BY <1>1 DEF VInv, VType, IndexFollows, There, EmbedFails, stored

\* rebuild_index, first half: the job carries vectors.
LEMMA RebuildLoadKeeps ==
  ASSUME VInv, RebuildLoad
  PROVE  VInv'
<1> DEFINE t == [at |-> "rebuild", vectors |-> vec["semantic"]]
<1>1. "main" \in Lanes /\ t.vectors \in Vectors0 /\ t.at = "rebuild"
  BY DEF VInv, VType, Lanes, Spaces
<1>2. task' = [task EXCEPT !["main"] = t]
  BY DEF RebuildLoad
<1> HIDE DEF t
<1>3. TaskShape'
  BY <1>1, <1>2, TaskSet DEF VInv
<1> QED BY <1>3 DEF VInv, VType, IndexFollows, There, RebuildLoad, stored

\* rebuild_index, second half: what differs from the vectors stored by now is remembered as astray.
LEMMA RebuildWriteKeeps ==
  ASSUME VInv, RebuildWrite
  PROVE  VInv'
<1> DEFINE read == task["main"].vectors
<1>1. "main" \in Lanes /\ "semantic" \in Spaces
  BY DEF Lanes, Spaces
<1>2. read \in Vectors0
  BY <1>1 DEF VInv, TaskShape, RebuildWrite
<1>3. TaskShape'
  BY <1>1, TaskEnds DEF VInv, RebuildWrite
<1>4. /\ index' = [index EXCEPT !["semantic"] = read]
      /\ astray' = astray \cup {<<"semantic", p>> : p \in {q \in Ids : read[q] # vec["semantic"][q]}}
      /\ UNCHANGED <<photo, vec>>
  BY DEF RebuildWrite
<1> HIDE DEF read
<1>5. index' \in [Spaces -> Vectors0]
  BY <1>1, <1>2, <1>4 DEF VInv, VType
<1>6. ASSUME NEW s \in Spaces, NEW p \in Ids, <<s, p>> \notin astray'
      PROVE  /\ index'[s][p] = vec'[s][p]
             /\ vec'[s][p] # None => p \in There' /\ photo'[p].pic = vec'[s][p]
             /\ p \in There' /\ s \in photo'[p].done => vec'[s][p] # None
  <2>1. <<s, p>> \notin astray /\ (s = "semantic" => read[p] = vec["semantic"][p])
    BY <1>4, <1>6
  <2>2. index'[s][p] = vec[s][p]
    BY <1>1, <1>4, <2>1 DEF VInv, VType, IndexFollows
  <2> QED BY <1>4, <2>1, <2>2 DEF VInv, IndexFollows, There
<1>7. IndexFollows'
  BY <1>6 DEF IndexFollows
<1> QED BY <1>3, <1>4, <1>5, <1>7 DEF VInv, VType

\* A photo gets the id of none that is there: only what is astray may be left under it.
LEMMA ImportKeeps ==
  ASSUME VInv, NEW pic \in Pictures, NEW who \in People, ImportPhoto(pic, who)
  PROVE  VInv'
<1> DEFINE p == 1 + Max({0} \cup There)
<1>1. IsFiniteSet(There) /\ There \subseteq Nat
  BY IdAssumption, FS_Subset DEF There
<1>2. p \notin There /\ p \in Ids /\ photo' = [photo EXCEPT ![p] = NewPhoto(pic, {who})]
  BY <1>1, NextId DEF ImportPhoto
<1>3. NewPhoto(pic, {who}) \in PhotoRows /\ NewPhoto(pic, {who}).done = {}
  BY DEF NewPhoto, PhotoRows
<1> HIDE DEF p
<1>4. photo' \in [Ids -> PhotoRows \cup {None}]
  BY <1>2, <1>3 DEF VInv, VType
<1>5. \A q \in There : photo'[q] = photo[q] /\ photo'[q] # None
  BY <1>2 DEF VInv, VType, There
<1>6. \A q \in Ids \ There : photo'[q] = None \/ photo'[q].done = {}
  BY <1>2, <1>3 DEF VInv, VType, There
<1>7. UNCHANGED <<vec, index, astray, task>>
  BY DEF ImportPhoto
<1>8. VType' /\ IndexFollows'
  BY <1>4, <1>5, <1>6, <1>7, PhotosKept DEF VInv
<1> QED BY <1>7, <1>8 DEF VInv, TaskShape

\* A step that changes no more of a photo than its persons and favourites, or takes flags back that
\* are of no space or sets such.
LEMMA PeopleChange ==
  ASSUME VInv, UNCHANGED <<vec, index, astray>>, TaskShape',
         photo' \in [Ids -> PhotoRows \cup {None}],
         \A p \in There : photo'[p] \in PhotoRows /\ photo'[p].pic = photo[p].pic
                          /\ photo'[p].done \cap Spaces \subseteq photo[p].done,
         \A p \in Ids \ There : photo'[p] = None
  PROVE  VInv'
BY PhotosKept, NoneAssumption DEF VInv

\* A photo in the trash keeps picture, flags and vectors.
LEMMA TrashKeeps ==
  ASSUME VInv, NEW p \in Ids, TrashAll(p)
  PROVE  VInv'
<1>1. p \in There /\ photo' = [photo EXCEPT ![p].people = {}] /\ UNCHANGED <<vec, index, astray, task>>
  BY DEF TrashAll, Live
<1>2. TaskShape'
  BY <1>1 DEF VInv, TaskShape
<1>3. photo' \in [Ids -> PhotoRows \cup {None}]
  BY <1>1, Rows DEF VInv, VType, PhotoRows
<1>4. \A q \in There : photo'[q] \in PhotoRows /\ photo'[q].pic = photo[q].pic /\ photo'[q].done = photo[q].done
  BY <1>1, Rows DEF VInv, VType, PhotoRows
<1>5. \A q \in Ids \ There : photo'[q] = None
  BY <1>1 DEF VInv, VType, There
<1> QED BY <1>1, <1>2, <1>3, <1>4, <1>5, PeopleChange

\* purge in moves.py: both vectors go from store and index along with the photo.
LEMMA PurgeKeeps ==
  ASSUME VInv, NEW p \in Ids, PurgePhoto(p)
  PROVE  VInv'
<1>1. /\ p \in There /\ photo' = [photo EXCEPT ![p] = None] /\ task' = task
      /\ vec' = Gone(vec, p) /\ index' = Gone(index, p) /\ astray' = astray \ (Spaces \X {p})
  BY DEF PurgePhoto, Purged, vars
<1>2. \A s \in Spaces, q \in Ids : /\ vec'[s][q] = IF q = p THEN None ELSE vec[s][q]
                                  /\ index'[s][q] = IF q = p THEN None ELSE index[s][q]
  BY <1>1 DEF Gone, VInv, VType, Vectors0
<1>3. vec' \in [Spaces -> Vectors0] /\ index' \in [Spaces -> Vectors0]
  BY <1>1 DEF Gone, VInv, VType, Vectors0
<1>4. photo' \in [Ids -> PhotoRows \cup {None}]
  BY <1>1 DEF VInv, VType
<1>5. There' = There \ {p} /\ \A q \in There \ {p} : photo'[q] = photo[q]
  BY <1>1 DEF VInv, VType, There
<1>6. ASSUME NEW s \in Spaces, NEW q \in Ids, <<s, q>> \notin astray'
      PROVE  /\ index'[s][q] = vec'[s][q]
             /\ vec'[s][q] # None => q \in There' /\ photo'[q].pic = vec'[s][q]
             /\ q \in There' /\ s \in photo'[q].done => vec'[s][q] # None
  <2>1. CASE q = p
    BY <1>2, <1>5, <2>1
  <2>2. CASE q # p
    <3>1. <<s, q>> \notin astray
      BY <1>1, <1>6, <2>2
    <3> QED BY <1>2, <1>5, <2>2, <3>1 DEF VInv, IndexFollows
  <2> QED BY <2>1, <2>2
<1>7. IndexFollows'
  BY <1>6 DEF IndexFollows
<1> QED BY <1>1, <1>3, <1>4, <1>7 DEF VInv, VType, TaskShape

\* Steps that embed nothing, of the main worker's steps too.
LEMMA VectorsKept ==
  ASSUME VInv, VectorSteps
  PROVE  VInv'
<1>1. ASSUME NEW l \in Lanes, EmbedLook(l) \/ EmbedWrite(l) \/ EmbedFails(l) PROVE VInv'
  BY <1>1, EmbedLookKeeps, EmbedWriteKeeps, EmbedFailsKeeps
<1>2. ASSUME NEW l \in Lanes, NEW p \in Ids,
             NEW spaces \in {Spaces} \cup (IF l = "main" THEN {{"visual"}} ELSE {}),
             EmbedStart(l, p, spaces)
      PROVE  VInv'
  <2>1. spaces \in SUBSET Spaces
    BY DEF Spaces
  <2> QED BY <1>2, <2>1, EmbedStartKeeps
<1>3. ASSUME NEW p \in Ids, TrashAll(p) \/ PurgePhoto(p) PROVE VInv'
  BY <1>3, TrashKeeps, PurgeKeeps
<1> QED BY <1>1, <1>2, <1>3, RebuildLoadKeeps, RebuildWriteKeeps, ImportKeeps DEF VectorSteps

\* Classification sets and takes back its own flag only.
LEMMA ClassesKeepVectors ==
  ASSUME VInv, ClassSteps
  PROVE  VInv'
<1>1. ASSUME NEW l \in Lanes, ClassifyWrite(l) PROVE VInv'
  <2> DEFINE owners == {p \in There : photo[p].pic = task[l].pic}
             new    == [p \in Ids |-> IF p \in owners THEN [photo[p] EXCEPT !.done = @ \cup {"classified"}] ELSE photo[p]]
  <2>1. TaskShape' /\ UNCHANGED <<vec, index, astray>>
    BY <1>1, TaskEnds DEF VInv, ClassifyWrite
  <2>2. photo' = [p \in Ids |-> IF p \in owners THEN Marked(p, {"classified"})[p] ELSE photo[p]]
    BY <1>1 DEF ClassifyWrite
  <2>3. \A p \in owners : Marked(p, {"classified"})[p] = [photo[p] EXCEPT !.done = @ \cup {"classified"}]
    BY Rows DEF VInv, VType, Marked
  <2>4. photo' = new /\ owners \subseteq There
    BY <2>2, <2>3
  <2>5. /\ new \in [Ids -> PhotoRows \cup {None}]
        /\ \A p \in There : new[p] \in PhotoRows /\ new[p].pic = photo[p].pic
                            /\ new[p].done \cap Spaces \subseteq photo[p].done
        /\ \A p \in Ids \ There : new[p] = None
    BY Rows, FlagsApart DEF VInv, VType, PhotoRows, There, Flags
  <2> HIDE DEF new
  <2> QED BY <2>1, <2>4, <2>5, PeopleChange
<1>2. ASSUME NEW l \in Lanes, NEW p \in Ids, ClassifyStart(l, p) PROVE VInv'
  <2> DEFINE flags == IF l = "main" THEN photo[p].done \ {"classified"} ELSE photo[p].done
             t     == [at |-> "scored", photo |-> p, pic |-> photo[p].pic,
                       rows |-> Classified(p, IF Embedder(row) = None THEN None ELSE vec["semantic"][p])]
  <2>1. /\ p \in There /\ photo' = [photo EXCEPT ![p].done = flags] /\ UNCHANGED <<vec, index, astray>>
        /\ task' = task \/ task' = [task EXCEPT ![l] = t]
    BY <1>2 DEF ClassifyStart
  <2>2. t.at = "scored"
    OBVIOUS
  <2>3. flags \subseteq photo[p].done
    OBVIOUS
  <2> HIDE DEF t, flags
  <2>4. TaskShape'
    <3>1. CASE task' = task
      BY <3>1 DEF VInv, TaskShape
    <3>2. CASE task' = [task EXCEPT ![l] = t]
      BY <2>2, <3>2, TaskSet DEF VInv
    <3> QED BY <2>1, <3>1, <3>2
  <2>5. photo' \in [Ids -> PhotoRows \cup {None}]
    BY <2>1, <2>3, Rows DEF VInv, VType, PhotoRows
  <2>6. \A q \in There : photo'[q] \in PhotoRows /\ photo'[q].pic = photo[q].pic /\ photo'[q].done \subseteq photo[q].done
    BY <2>1, <2>3, Rows DEF VInv, VType, PhotoRows
  <2>7. \A q \in Ids \ There : photo'[q] = None
    BY <2>1 DEF VInv, VType, There
  <2> QED BY <2>1, <2>4, <2>5, <2>6, <2>7, PeopleChange
<1>3. ASSUME UNCHANGED vectors PROVE VInv'
  BY <1>3, Unmoved
<1> QED BY <1>1, <1>2, <1>3
        DEF ClassSteps, Changed, CreateCategory, PatchCategory, DeleteCategory, CreateLabel, PatchLabel,
            DeleteLabel, Retag

\* What the page does to photos leaves their vectors and flags.
LEMMA BrowsingKeepsVectors ==
  ASSUME VInv, Browse
  PROVE  VInv'
<1>1. ASSUME NEW p \in Ids, TrashShown(p) PROVE VInv'
  <2> DEFINE kept == photo[p].people \ {Min(photo[p].people)}
  <2>1. /\ p \in There /\ photo' = [photo EXCEPT ![p].people = kept] /\ UNCHANGED <<vec, index, astray, task>>
    BY <1>1 DEF TrashShown, Live
  <2>2. kept \subseteq photo[p].people
    OBVIOUS
  <2> HIDE DEF kept
  <2>3. TaskShape'
    BY <2>1 DEF VInv, TaskShape
  <2>4. photo' \in [Ids -> PhotoRows \cup {None}]
    BY <2>1, <2>2, Rows DEF VInv, VType, PhotoRows
  <2>5. \A q \in There : photo'[q] \in PhotoRows /\ photo'[q].pic = photo[q].pic /\ photo'[q].done = photo[q].done
    BY <2>1, <2>2, Rows DEF VInv, VType, PhotoRows
  <2>6. \A q \in Ids \ There : photo'[q] = None
    BY <2>1 DEF VInv, VType, There
  <2> QED BY <2>1, <2>3, <2>4, <2>5, <2>6, PeopleChange
<1>2. ASSUME BulkTrash PROVE VInv'
  <2> DEFINE gone == {p \in Live : <<"photo", p>> \in ToSet(gallery.keys)}
             new  == [p \in Ids |-> IF p \in gone THEN [photo[p] EXCEPT !.people = {}] ELSE photo[p]]
  <2>1. /\ gone \subseteq There /\ photo' = new /\ UNCHANGED <<vec, index, astray, task>>
    BY <1>2 DEF BulkTrash, Live
  <2> HIDE DEF gone
  <2>2. TaskShape'
    BY <2>1 DEF VInv, TaskShape
  <2>3. /\ new \in [Ids -> PhotoRows \cup {None}]
        /\ \A p \in There : new[p] \in PhotoRows /\ new[p].pic = photo[p].pic /\ new[p].done = photo[p].done
        /\ \A p \in Ids \ There : new[p] = None
    BY <2>1, Rows DEF VInv, VType, PhotoRows, There
  <2> HIDE DEF new
  <2> QED BY <2>1, <2>2, <2>3, PeopleChange
<1>3. ASSUME NEW p \in Ids, ToggleFavourite(p) PROVE VInv'
  <2> DEFINE who  == Min(photo[p].people)
             kept == (photo[p].favourite \ {who}) \cup ({who} \ photo[p].favourite)
  <2>1. /\ p \in Live /\ photo' = [photo EXCEPT ![p].favourite = kept] /\ UNCHANGED <<vec, index, astray, task>>
    BY <1>3 DEF ToggleFavourite
  <2>2. kept \subseteq People
    <3>1. photo[p].people # {} /\ photo[p].people \subseteq People /\ photo[p].favourite \subseteq People
      BY <2>1, Rows DEF VInv, Live, PhotoRows
    <3>2. IsFiniteSet(photo[p].people) /\ photo[p].people \subseteq Int
      <4>1. People \subseteq Int /\ IsFiniteSet(People)
        BY IdAssumption
      <4> QED BY <3>1, <4>1, FS_Subset
    <3>3. who \in People
      BY <3>1, <3>2, Smallest
    <3> QED BY <3>1, <3>3
  <2> HIDE DEF kept
  <2>3. TaskShape'
    BY <2>1 DEF VInv, TaskShape
  <2>4. photo' \in [Ids -> PhotoRows \cup {None}]
    BY <2>1, <2>2, Rows DEF VInv, VType, PhotoRows
  <2>5. \A q \in There : photo'[q] \in PhotoRows /\ photo'[q].pic = photo[q].pic /\ photo'[q].done = photo[q].done
    BY <2>1, <2>2, Rows DEF VInv, VType, PhotoRows
  <2>6. \A q \in Ids \ There : photo'[q] = None
    BY <2>1, Rows DEF VInv, VType, There
  <2> QED BY <2>1, <2>3, <2>4, <2>5, <2>6, PeopleChange
<1>4. ASSUME UNCHANGED vectors PROVE VInv'
  BY <1>4, Unmoved
<1> QED BY <1>1, <1>2, <1>3, <1>4 DEF Browse, Choose, Reload, Enter, LoadMore, PageArrives, PageLost, Still

\* A restart ends tasks and touches no vector.
LEMMA RestartKeepsVectors ==
  ASSUME VInv, Stopped
  PROVE  VInv'
<1>1. TaskShape'
  BY DEF Stopped, TaskShape, NoTask
<1> QED BY <1>1 DEF Stopped, VInv, VType, IndexFollows, There, stored

\* Vectors, index and flags stay true through every step of the system.
THEOREM VectorInvariant == GSpec => []VInv
<1>1. VInv /\ [GNext]_All => VInv'
  <2> SUFFICES ASSUME VInv, [GNext]_All PROVE VInv'
    OBVIOUS
  <2>1. CASE UNCHANGED vectors
    BY <2>1, Unmoved
  <2>2. CASE Stopped
    BY <2>2, RestartKeepsVectors
  <2> QED BY <2>1, <2>2, VectorsKept, ClassesKeepVectors, BrowsingKeepsVectors DEF GNext, ModelRuns, All
<1> QED BY <1>1, InitVInv, PTL DEF GSpec

\* The index follows the photos, and for any number of photos, limits, thresholds and over-fetch a
\* search leaves out a photo it is for only if its page is full or more hidden photos are nearer
\* than the over-fetch passes over.
THEOREM SearchIsTrue == GSpec => []SearchTrue
<1>1. VInv => SearchTrue
  BY SearchFinds DEF VInv, SearchTrue
<1> QED BY <1>1, VectorInvariant, PTL


-----------------------------------------------------------------------------
(***************************************************************************)
(* The classification. What carries these proofs is what a job brings: rows *)
(* of one photo and picture, two of a category only if the category took    *)
(* several when they were scored.                                           *)
(***************************************************************************)

ClassRows == [photo : Ids, label : Labels, cat : Cats, source : {"clip", "wd14", "fused"},
              mode : {"single", "multi"}, of : Pictures, late : BOOLEAN]

CType ==
    /\ cat \in [Cats -> CatRows] /\ label \in [Labels -> LabelRows \cup {None}]
    /\ class \in SUBSET ClassRows

\* Two rows of a photo in a category are of a category that took several.
Compatible(rows) ==
    \A r, s \in rows : r # s /\ r.photo = s.photo /\ r.cat = s.cat => r.mode = "multi" /\ s.mode = "multi"

\* What a job has scored and not written yet.
Scores1(t) ==
    /\ t.photo \in Ids /\ t.pic \in Pictures /\ t.rows \in SUBSET ClassRows
    /\ \A r \in t.rows : r.photo = t.photo /\ r.of = t.pic
    /\ Compatible(t.rows)
Scoring == \A l \in Lanes : task[l].at = "scored" => Scores1(task[l])

CInv == CType /\ Scoring /\ Compatible(class) /\ LabelsTrue

------------------------------------------------------------------------------
(* What a job scores                                                        *)

\* The label a category of one kind gets is one of its labels, and the only one.
LEMMA OneBest ==
  ASSUME NEW p, NEW pic, NEW c, NEW x \in Best(p, pic, c), NEW y \in Best(p, pic, c)
  PROVE  x \in LabelsOf(c) /\ x = y
BY DEF Best

\* What is scored for a photo are rows of it that can stand together.
LEMMA ClassifiedRows ==
  ASSUME CType, NEW p \in Ids, photo[p].pic \in Pictures, NEW pic
  PROVE  /\ Classified(p, pic) \in SUBSET ClassRows
         /\ \A r \in Classified(p, pic) : r.photo = p /\ r.of = photo[p].pic
         /\ Compatible(Classified(p, pic))
<1> DEFINE row1(c, x) == [photo |-> p, label |-> x, cat |-> c, source |-> Scored(p, pic, c, x).source,
                          mode |-> cat[c].mode, of |-> photo[p].pic, late |-> FALSE]
<1>1. \A r \in Classified(p, pic) : \E c \in InUse : \E x \in Chosen(p, pic, c) : r = row1(c, x)
  BY DEF Classified
<1>2. ASSUME NEW c \in InUse
      PROVE  c \in Cats /\ cat[c].mode \in {"single", "multi"}
  BY DEF InUse, Kept, CType, CatRows
<1>3. ASSUME NEW c \in InUse, NEW x \in Chosen(p, pic, c)
      PROVE  x \in Labels
  BY <1>3, OneBest DEF Chosen, LabelsOf
<1>4. ASSUME NEW c, NEW x
      PROVE  Scored(p, pic, c, x).source \in {"clip", "wd14", "fused"}
  <2>1. \A i, k : Fused(i, k).source \in {"clip", "wd14", "fused"}
    BY DEF Fused
  <2> QED BY <2>1 DEF Scored
<1>5. ASSUME NEW c \in InUse, NEW x \in Chosen(p, pic, c)
      PROVE  /\ row1(c, x) \in ClassRows
             /\ row1(c, x).photo = p /\ row1(c, x).of = photo[p].pic /\ row1(c, x).cat = c
             /\ row1(c, x).mode = cat[c].mode
  BY <1>2, <1>3, <1>4 DEF ClassRows
<1> HIDE DEF row1
<1>6. Compatible(Classified(p, pic))
  <2> SUFFICES ASSUME NEW r \in Classified(p, pic), NEW s \in Classified(p, pic),
                      r # s, r.photo = s.photo, r.cat = s.cat
               PROVE  r.mode = "multi" /\ s.mode = "multi"
    BY DEF Compatible
  <2>1. PICK c \in InUse : \E x \in Chosen(p, pic, c) : r = row1(c, x)
    BY <1>1
  <2>2. PICK x \in Chosen(p, pic, c) : r = row1(c, x)
    BY <2>1
  <2>3. PICK d \in InUse : \E y \in Chosen(p, pic, d) : s = row1(d, y)
    BY <1>1
  <2>4. PICK y \in Chosen(p, pic, d) : s = row1(d, y)
    BY <2>3
  <2>5. c = d /\ r.mode = cat[c].mode /\ s.mode = cat[c].mode
    BY <1>5, <2>2, <2>4
  <2>6. x # y
    BY <2>2, <2>4, <2>5
  <2>7. cat[c].mode # "single"
    <3> SUFFICES ASSUME cat[c].mode = "single" PROVE FALSE
      OBVIOUS
    <3>1. x \in Best(p, pic, c) /\ y \in Best(p, pic, c)
      BY <2>5 DEF Chosen
    <3> QED BY <2>6, <3>1, OneBest
  <2> QED BY <1>2, <2>5, <2>7
<1> QED BY <1>1, <1>5, <1>6

------------------------------------------------------------------------------
(* The invariant is inductive                                               *)

\* At the start nothing is classified and no job is under way.
LEMMA InitCInv == GInit => CInv
<1> SUFFICES ASSUME GInit PROVE CInv
  OBVIOUS
<1>1. CType
  BY WorldAssumption DEF GInit, CType
<1>2. Scoring
  BY DEF GInit, Scoring, NoTask
<1> QED BY <1>1, <1>2 DEF GInit, CInv, Compatible, LabelsTrue

\* A photo counts as classified only if it did before, with the picture it had.
Honest == \A p \in Ids : photo'[p] # None /\ "classified" \in photo'[p].done =>
             photo[p] # None /\ "classified" \in photo[p].done /\ photo'[p].pic = photo[p].pic

\* A step that leaves the catalog and the rows alone, and makes no photo count as classified,
\* keeps the invariant.
LEMMA ClassesSame ==
  ASSUME CInv, UNCHANGED <<catalog, class>>, Scoring', Honest
  PROVE  CInv'
<1>1. CType' /\ Compatible(class)'
  BY DEF CInv, CType, Compatible, catalog
<1>2. LabelsTrue'
  <2>1. \A r \in class : r.photo \in Ids
    BY DEF CInv, CType, ClassRows
  <2>2. label' = label /\ class' = class
    BY DEF catalog
  <2>3. \A p \in Ids : p \in There' /\ "classified" \in photo'[p].done =>
           p \in There /\ "classified" \in photo[p].done /\ photo'[p].pic = photo[p].pic
    BY DEF Honest, There
  <2>4. ASSUME NEW r \in class, ~r.late
        PROVE  /\ label[r.label] # None /\ label[r.label].cat = r.cat
               /\ \A s \in class : s # r /\ s.photo = r.photo /\ s.cat = r.cat => r.mode = "multi" /\ s.mode = "multi"
               /\ r.photo \in There' /\ "classified" \in photo'[r.photo].done => r.of = photo'[r.photo].pic
    BY <2>1, <2>3, <2>4 DEF CInv, LabelsTrue
  <2> QED BY <2>2, <2>4 DEF LabelsTrue
<1> QED BY <1>1, <1>2 DEF CInv

\* A lane that takes up a task, with true rows if it is to write any, keeps what tasks carry true.
LEMMA ScoringSet ==
  ASSUME TaskShape, Scoring, NEW l \in Lanes, NEW t, task' = [task EXCEPT ![l] = t],
         t.at = "scored" => Scores1(t)
  PROVE  Scoring'
<1>1. \A k \in Lanes : task'[k] = IF k = l THEN t ELSE task[k]
  BY DEF TaskShape
<1> QED BY <1>1 DEF Scoring

\* A task that ends takes nothing along.
LEMMA ScoringEnds ==
  ASSUME TaskShape, Scoring, NEW l \in Lanes, Finish(l)
  PROVE  Scoring'
BY ScoringSet DEF Finish, NoTask

\* Embedding, rebuilding, imports and purges classify nothing.
LEMMA VectorStepsHonest ==
  ASSUME VInv, Scoring, VectorSteps
  PROVE  Scoring' /\ Honest
<1> USE DEF VInv
<1>1. ASSUME NEW l \in Lanes, EmbedLook(l) PROVE Scoring' /\ Honest
  <2> DEFINE t == [at |-> "loaded", photo |-> task[l].photo, pic |-> task[l].pic, spaces |-> task[l].spaces,
                   model |-> task[l].model, hash |-> photo[task[l].photo].pic, done |-> photo[task[l].photo].done]
  <2>1. IF task[l].photo \notin There THEN Finish(l) ELSE task' = [task EXCEPT ![l] = t]
    BY <1>1 DEF EmbedLook, Finish
  <2>2. t.at # "scored"
    OBVIOUS
  <2> HIDE DEF t
  <2>3. Scoring'
    BY <2>1, <2>2, ScoringEnds, ScoringSet
  <2>4. photo' = photo
    BY <1>1 DEF EmbedLook, stored
  <2> QED BY <2>3, <2>4 DEF Honest
<1>2. ASSUME NEW l \in Lanes, EmbedWrite(l) PROVE Scoring' /\ Honest
  <2> DEFINE t      == task[l]
             owners == {q \in There : photo[q].pic = t.hash}
             flags  == t.spaces \ t.done
  <2>1. Scoring'
    BY <1>2, ScoringEnds DEF EmbedWrite
  <2>2. flags \subseteq Spaces
    BY <1>2 DEF EmbedWrite, TaskShape
  <2>3. \/ photo' = photo
        \/ photo' = [q \in Ids |-> IF q \in owners THEN Marked(q, flags)[q] ELSE photo[q]]
    BY <1>2 DEF EmbedWrite, stored
  <2>4. \A q \in owners : /\ photo[q] \in PhotoRows /\ photo[q] # None
                          /\ Marked(q, flags)[q] = [photo[q] EXCEPT !.done = @ \cup flags]
    BY Rows DEF VType, Marked, There
  <2> HIDE DEF flags, owners
  <2>5. \A q \in owners : /\ Marked(q, flags)[q].pic = photo[q].pic
                          /\ Marked(q, flags)[q].done = photo[q].done \cup flags
    BY <2>4 DEF PhotoRows
  <2>6. ASSUME photo' # photo PROVE Honest
    <3>1. \A q \in Ids : photo'[q] = IF q \in owners THEN Marked(q, flags)[q] ELSE photo[q]
      BY <2>3, <2>6
    <3> QED BY <2>2, <2>4, <2>5, <3>1, FlagsApart DEF Honest
  <2> QED BY <2>1, <2>6 DEF Honest
<1>3. ASSUME NEW l \in Lanes, EmbedFails(l) PROVE Scoring' /\ Honest
  BY <1>3, ScoringEnds DEF EmbedFails, stored, Honest
<1>4. ASSUME NEW l \in Lanes, NEW p \in Ids, NEW spaces, EmbedStart(l, p, spaces) PROVE Scoring' /\ Honest
  <2> DEFINE used == {s \in spaces : IF s = "visual" THEN dino ELSE Embedder(row) # None}
             flag == IF "semantic" \in spaces THEN "semantic" ELSE "visual"
             t    == [at |-> "opened", photo |-> p, pic |-> photo[p].pic, spaces |-> used, model |-> Embedder(row)]
  <2>1. task' = task \/ task' = [task EXCEPT ![l] = t]
    BY <1>4 DEF EmbedStart
  <2>2. t.at # "scored"
    OBVIOUS
  <2>3. photo' = IF l = "main" THEN [photo EXCEPT ![p].done = @ \ {flag}] ELSE photo
    BY <1>4 DEF EmbedStart
  <2>4. photo[p] \in PhotoRows
    BY <1>4, Rows DEF EmbedStart
  <2> HIDE DEF t, flag
  <2>5. Honest
    BY <2>3, <2>4, NoneAssumption DEF Honest, VType, PhotoRows
  <2>6. Scoring'
    <3>1. CASE task' = task
      BY <3>1 DEF Scoring
    <3>2. CASE task' = [task EXCEPT ![l] = t]
      BY <2>2, <3>2, ScoringSet
    <3> QED BY <2>1, <3>1, <3>2
  <2> QED BY <2>5, <2>6
<1>5. ASSUME RebuildLoad PROVE Scoring' /\ Honest
  <2> DEFINE t == [at |-> "rebuild", vectors |-> vec["semantic"]]
  <2>1. task' = [task EXCEPT !["main"] = t] /\ photo' = photo /\ "main" \in Lanes /\ t.at # "scored"
    BY <1>5 DEF RebuildLoad, stored, Lanes
  <2> HIDE DEF t
  <2> QED BY <2>1, ScoringSet DEF Honest
<1>6. ASSUME RebuildWrite PROVE Scoring' /\ Honest
  <2>1. "main" \in Lanes
    BY DEF Lanes
  <2> QED BY <1>6, <2>1, ScoringEnds DEF RebuildWrite, Honest
<1>7. ASSUME NEW pic \in Pictures, NEW who \in People, ImportPhoto(pic, who) PROVE Scoring' /\ Honest
  <2>1. UNCHANGED task /\ \E p \in Ids : photo' = [photo EXCEPT ![p] = NewPhoto(pic, {who})]
    BY <1>7 DEF ImportPhoto
  <2>2. NewPhoto(pic, {who}).done = {}
    BY DEF NewPhoto
  <2> QED BY <2>1, <2>2 DEF Scoring, Honest, VType
<1>8. ASSUME NEW p \in Ids, TrashAll(p) PROVE Scoring' /\ Honest
  <2>1. UNCHANGED task /\ photo' = [photo EXCEPT ![p].people = {}] /\ p \in There
    BY <1>8 DEF TrashAll, Live
  <2> QED BY <2>1, Rows DEF Scoring, Honest, VType, There, PhotoRows
<1>9. ASSUME NEW p \in Ids, PurgePhoto(p) PROVE Scoring' /\ Honest
  <2>1. UNCHANGED task /\ photo' = [photo EXCEPT ![p] = None]
    BY <1>9 DEF PurgePhoto
  <2> QED BY <2>1 DEF Scoring, Honest, VType
<1> QED BY <1>1, <1>2, <1>3, <1>4, <1>5, <1>6, <1>7, <1>8, <1>9 DEF VectorSteps

\* A job brings rows of what it has read.
LEMMA ClassifyStartKeeps ==
  ASSUME VInv, CInv, NEW l \in Lanes, NEW p \in Ids, ClassifyStart(l, p)
  PROVE  CInv'
<1> DEFINE pic   == IF Embedder(row) = None THEN None ELSE vec["semantic"][p]
           flags == IF l = "main" THEN photo[p].done \ {"classified"} ELSE photo[p].done
           t     == [at |-> "scored", photo |-> p, pic |-> photo[p].pic, rows |-> Classified(p, pic)]
<1>1. photo[p] \in PhotoRows /\ photo[p].pic \in Pictures /\ photo[p] # None
  BY Rows DEF VInv, ClassifyStart, PhotoRows, There
<1>2. /\ task' = task \/ task' = [task EXCEPT ![l] = t]
      /\ photo' = [photo EXCEPT ![p].done = flags] /\ flags \subseteq photo[p].done
      /\ UNCHANGED <<catalog, class>>
  BY DEF ClassifyStart
<1> HIDE DEF flags, pic
<1>3. Scores1(t)
  BY <1>1, ClassifiedRows DEF CInv, Scores1
<1> HIDE DEF t
<1>4. Scoring'
  <2>1. CASE task' = task
    BY <2>1 DEF CInv, Scoring
  <2>2. CASE task' = [task EXCEPT ![l] = t]
    BY <1>3, <2>2, ScoringSet DEF CInv, VInv
  <2> QED BY <1>2, <2>1, <2>2
<1>5. Honest
  BY <1>1, <1>2 DEF Honest, VInv, VType, PhotoRows
<1> QED BY <1>2, <1>4, <1>5, ClassesSame

\* Rows are replaced by rows that can stand together, and what was overtaken is marked.
LEMMA ClassifyWriteKeeps ==
  ASSUME VInv, CInv, NEW l \in Lanes, ClassifyWrite(l)
  PROVE  CInv'
<1> DEFINE t      == task[l]
           owners == {p \in There : photo[p].pic = t.pic}
           brought(r) == [r EXCEPT !.late = Late(r, t)]
           kept   == {r \in class : r.photo # t.photo}
           marked(r) == IF r.photo \in owners \ {t.photo} THEN [r EXCEPT !.late = TRUE] ELSE r
<1>1. Scores1(t) /\ Finish(l)
  BY DEF CInv, Scoring, ClassifyWrite
<1>2. Scoring'
  BY <1>1, ScoringEnds DEF CInv, VInv
<1>3. UNCHANGED catalog
  BY DEF ClassifyWrite
<1>4. class' = {marked(r) : r \in kept \cup {brought(r) : r \in t.rows}}
  BY DEF ClassifyWrite, Replaced
<1>5. \A r \in t.rows : /\ brought(r) \in ClassRows
                        /\ brought(r).photo = t.photo /\ brought(r).label = r.label /\ brought(r).cat = r.cat
                        /\ brought(r).mode = r.mode /\ brought(r).of = t.pic
                        /\ (~brought(r).late <=> ~Late(r, t))
  <2> SUFFICES ASSUME NEW r \in t.rows
               PROVE  /\ brought(r) \in ClassRows
                      /\ brought(r).photo = t.photo /\ brought(r).label = r.label /\ brought(r).cat = r.cat
                      /\ brought(r).mode = r.mode /\ brought(r).of = t.pic
                      /\ (~brought(r).late <=> ~Late(r, t))
    OBVIOUS
  <2>1. r \in ClassRows /\ r.photo = t.photo /\ r.of = t.pic
    BY <1>1 DEF Scores1
  <2>2. Late(r, t) \in BOOLEAN
    BY DEF Late
  <2> HIDE DEF t
  <2> QED BY <2>1, <2>2 DEF ClassRows
<1>6. \A r \in ClassRows : /\ marked(r) \in ClassRows
                           /\ marked(r).photo = r.photo /\ marked(r).label = r.label /\ marked(r).cat = r.cat
                           /\ marked(r).mode = r.mode /\ marked(r).of = r.of
                           /\ (~marked(r).late => ~r.late /\ (r.photo \in owners => r.photo = t.photo))
  BY DEF ClassRows
<1>7. kept \in SUBSET ClassRows
  BY DEF CInv, CType
<1> HIDE DEF marked, brought
<1>8. ASSUME NEW u \in class'
      PROVE  \/ \E r \in kept : u = marked(r)
             \/ \E r \in t.rows : u = marked(brought(r))
  BY <1>4
<1>9. CType'
  <2>1. class' \in SUBSET ClassRows
    BY <1>4, <1>5, <1>6, <1>7
  <2> QED BY <1>3, <2>1 DEF CInv, CType, catalog
<1>10. Compatible(class)'
  <2> SUFFICES ASSUME NEW u \in class', NEW v \in class', u # v, u.photo = v.photo, u.cat = v.cat
               PROVE  u.mode = "multi" /\ v.mode = "multi"
    BY DEF Compatible
  <2>1. CASE u.photo = t.photo
    <3>1. \A r \in kept : marked(r).photo # t.photo
      BY <1>6, <1>7
    <3>2. PICK r \in t.rows : u = marked(brought(r))
      BY <1>8, <2>1, <3>1
    <3>3. PICK s \in t.rows : v = marked(brought(s))
      BY <1>8, <2>1, <3>1
    <3>4. r # s
      BY <3>2, <3>3
    <3>5. /\ r.photo = s.photo /\ r.cat = u.cat /\ r.mode = u.mode
          /\ s.cat = v.cat /\ s.mode = v.mode
      BY <1>1, <1>5, <1>6, <3>2, <3>3 DEF Scores1
    <3> QED BY <1>1, <3>4, <3>5 DEF Scores1, Compatible
  <2>2. CASE u.photo # t.photo
    <3>1. \A r \in t.rows : marked(brought(r)).photo = t.photo
      BY <1>5, <1>6
    <3>2. PICK r \in kept : u = marked(r)
      BY <1>8, <2>2, <3>1
    <3>3. PICK s \in kept : v = marked(s)
      BY <1>8, <2>2, <3>1
    <3>4. r # s /\ r \in class /\ s \in class
      BY <3>2, <3>3
    <3>5. r.photo = s.photo /\ r.cat = s.cat /\ r.mode = u.mode /\ s.mode = v.mode
      BY <1>6, <1>7, <3>2, <3>3
    <3> QED BY <3>4, <3>5 DEF CInv, Compatible
  <2> QED BY <2>1, <2>2
<1>11. \A p \in Ids : /\ p \in owners => photo'[p].pic = t.pic
                      /\ p \notin owners => photo'[p] = photo[p]
  <2>1. photo' = [p \in Ids |-> IF p \in owners THEN Marked(p, {"classified"})[p] ELSE photo[p]]
    BY DEF ClassifyWrite
  <2>2. \A p \in owners : Marked(p, {"classified"})[p].pic = t.pic
    BY Rows DEF VInv, VType, Marked, PhotoRows
  <2> HIDE DEF owners
  <2> QED BY <2>1, <2>2
<1>12. ASSUME NEW u \in class', ~u.late
       PROVE  /\ label[u.label] # None /\ label[u.label].cat = u.cat
              /\ u.photo \in There' /\ "classified" \in photo'[u.photo].done => u.of = photo'[u.photo].pic
  <2>1. CASE \E r \in kept : u = marked(r)
    <3>1. PICK r \in kept : u = marked(r)
      BY <2>1
    <3>2. /\ r \in class /\ ~r.late /\ r.photo \notin owners /\ r.photo \in Ids
          /\ u.label = r.label /\ u.cat = r.cat /\ u.photo = r.photo /\ u.of = r.of
      BY <1>6, <1>7, <1>12, <3>1 DEF ClassRows
    <3>3. photo'[r.photo] = photo[r.photo]
      BY <1>11, <3>2
    <3> QED BY <3>2, <3>3 DEF CInv, LabelsTrue, There
  <2>2. CASE \E r \in t.rows : u = marked(brought(r))
    <3>1. PICK r \in t.rows : u = marked(brought(r))
      BY <2>2
    <3>2. brought(r) \in ClassRows
      BY <1>5
    <3>3. /\ ~brought(r).late /\ u.label = brought(r).label /\ u.cat = brought(r).cat
          /\ u.photo = brought(r).photo /\ u.of = brought(r).of
      BY <1>6, <1>12, <3>1, <3>2
    <3>4. ~Late(r, t) /\ u.label = r.label /\ u.cat = r.cat /\ u.photo = t.photo /\ u.of = t.pic
      BY <1>5, <3>3
    <3>5. label[r.label] # None /\ label[r.label].cat = r.cat /\ t.photo \in owners
      BY <3>4 DEF Late
    <3>6. photo'[t.photo].pic = t.pic
      BY <1>1, <1>11, <3>5 DEF Scores1
    <3> QED BY <3>4, <3>5, <3>6
  <2> QED BY <1>8, <2>1, <2>2
<1>13. LabelsTrue'
  BY <1>3, <1>10, <1>12 DEF LabelsTrue, Compatible, catalog
<1> QED BY <1>2, <1>9, <1>10, <1>13 DEF CInv

\* A step on the catalog that leaves photos and tasks alone: rows keep their label in its category,
\* or go with it.
LEMMA CatalogStep ==
  ASSUME CInv, UNCHANGED <<photo, task>>,
         cat' \in [Cats -> CatRows], label' \in [Labels -> LabelRows \cup {None}], class' \subseteq class,
         \A r \in class' : label[r.label] # None => label'[r.label] # None /\ label'[r.label].cat = label[r.label].cat
  PROVE  CInv'
<1>1. CType'
  BY DEF CInv, CType
<1>2. Scoring'
  BY DEF CInv, Scoring
<1>3. Compatible(class)'
  BY DEF CInv, Compatible
<1>4. LabelsTrue'
  BY DEF CInv, LabelsTrue, There
<1> QED BY <1>1, <1>2, <1>3, <1>4 DEF CInv

\* create_category: the id of a new category is no label's.
LEMMA CreateCategoryKeeps ==
  ASSUME CInv, NEW mode \in {"single", "multi"}, CreateCategory(mode)
  PROVE  CInv'
<1> DEFINE c == 1 + Max({0} \cup {d \in Cats : Kept(d)})
           new == [mode |-> mode, enabled |-> TRUE, min |-> None]
<1>1. cat' = [cat EXCEPT ![c] = new] /\ UNCHANGED <<label, class, photo, task>>
  BY DEF CreateCategory, Changed, vectors, stored
<1>2. new \in CatRows
  BY DEF CatRows
<1> HIDE DEF c, new
<1>3. cat' \in [Cats -> CatRows]
  BY <1>1, <1>2 DEF CInv, CType
<1> QED BY <1>1, <1>3, CatalogStep DEF CInv, CType

\* patch_category: rows keep the mode they were classified under.
LEMMA PatchCategoryKeeps ==
  ASSUME CInv, NEW c \in Cats, PatchCategory(c)
  PROVE  CInv'
<1>1. UNCHANGED <<label, class, photo, task>>
  BY DEF PatchCategory, Changed, vectors, stored
<1>2. cat \in [Cats -> CatRows] /\ cat[c] \in CatRows
  BY DEF CInv, CType
<1>3. cat' \in [Cats -> CatRows]
  <2>1. ASSUME NEW mode \in {"single", "multi"}, cat' = [cat EXCEPT ![c].mode = mode]
        PROVE  cat' \in [Cats -> CatRows]
    BY <1>2, <2>1 DEF CatRows
  <2>2. ASSUME cat' = [cat EXCEPT ![c].enabled = ~@] PROVE cat' \in [Cats -> CatRows]
    <3>1. (~cat[c].enabled) \in BOOLEAN
      BY <1>2 DEF CatRows
    <3>2. [cat[c] EXCEPT !.enabled = ~@] \in CatRows
      BY <1>2, <3>1 DEF CatRows
    <3>3. cat' = [cat EXCEPT ![c] = [cat[c] EXCEPT !.enabled = ~@]]
      BY <2>2
    <3> QED BY <1>2, <3>2, <3>3
  <2>3. ASSUME NEW min \in {None, 0, 100}, cat' = [cat EXCEPT ![c].min = min]
        PROVE  cat' \in [Cats -> CatRows]
    BY <1>2, <2>3 DEF CatRows
  <2> QED BY <2>1, <2>2, <2>3 DEF PatchCategory
<1> QED BY <1>1, <1>3, CatalogStep DEF CInv, CType

\* _delete_category_cascade: the labels' rows go with the labels.
LEMMA DeleteCategoryKeeps ==
  ASSUME CInv, NEW c \in Cats, DeleteCategory(c)
  PROVE  CInv'
<1>1. /\ class' = {r \in class : r.label \notin LabelsOf(c)}
      /\ label' = [x \in Labels |-> IF x \in LabelsOf(c) THEN None ELSE label[x]]
      /\ cat' = [cat EXCEPT ![c] = NoCat] /\ UNCHANGED <<photo, task>>
  BY DEF DeleteCategory, Changed, vectors, stored
<1>2. cat' \in [Cats -> CatRows] /\ label' \in [Labels -> LabelRows \cup {None}]
  BY <1>1 DEF CInv, CType, CatRows, NoCat
<1>3. \A r \in class' : r \in class /\ r.label \in Labels /\ label'[r.label] = label[r.label]
  BY <1>1 DEF CInv, CType, ClassRows
<1> QED BY <1>1, <1>2, <1>3, CatalogStep

\* create_label: the id of a new label is no row's, unless the row came late.
LEMMA CreateLabelKeeps ==
  ASSUME CInv, NEW c \in Cats, NEW name \in Prompts, NEW tags \in {{}, Tags}, CreateLabel(c, name, tags)
  PROVE  CInv'
<1> DEFINE taken == {y \in Labels : label[y] # None}
           x     == 1 + Max({0} \cup taken)
           used  == {label[y].position : y \in LabelsOf(c)}
           new   == [cat |-> c, name |-> name, prompts |-> {}, tags |-> tags, position |-> 1 + Max({-1} \cup used)]
<1>1. x \in Labels /\ label' = [label EXCEPT ![x] = new] /\ UNCHANGED <<cat, class, photo, task>>
  BY DEF CreateLabel, Changed, vectors, stored
<1>2. x \notin taken
  <2>1. IsFiniteSet(taken) /\ taken \subseteq Nat
    BY CatalogAssumption, FS_Subset
  <2> HIDE DEF taken
  <2> QED BY <2>1, NextId
<1>3. 1 + Max({-1} \cup used) \in Int
  <2> DEFINE f == [y \in LabelsOf(c) |-> label[y].position]
  <2>1. \A y \in LabelsOf(c) : label[y].position \in Int
    BY DEF LabelsOf, CInv, CType, LabelRows
  <2>2. IsFiniteSet(LabelsOf(c))
    BY CatalogAssumption, FS_Subset DEF LabelsOf
  <2>3. f \in Surjection(LabelsOf(c), used)
    BY DEF Surjection
  <2>4. used \subseteq Int
    BY <2>1
  <2> HIDE DEF f, used
  <2>5. IsFiniteSet(used)
    BY <2>2, <2>3, FS_Surjection
  <2> DEFINE all == {-1} \cup used
  <2>6. IsFiniteSet(all) /\ all \subseteq Int /\ all # {}
    BY <2>4, <2>5, FS_AddElement
  <2> HIDE DEF all
  <2>7. Max(all) \in Int
    BY <2>6, Largest
  <2> QED BY <2>7 DEF all
<1>4. new \in LabelRows
  BY <1>3 DEF LabelRows
<1> HIDE DEF x, new
<1>5. label' \in [Labels -> LabelRows \cup {None}]
  BY <1>1, <1>4 DEF CInv, CType
<1>6. \A y \in Labels : label[y] # None => label'[y] = label[y]
  BY <1>1, <1>2 DEF CInv, CType
<1>7. \A r \in class : r.label \in Labels
  BY DEF CInv, CType, ClassRows
<1> QED BY <1>1, <1>5, <1>6, <1>7, CatalogStep DEF CInv, CType

\* patch_label: a label stays in its category.
LEMMA PatchLabelKeeps ==
  ASSUME CInv, NEW x \in Labels, PatchLabel(x)
  PROVE  CInv'
<1>1. label[x] \in LabelRows /\ UNCHANGED <<cat, class, photo, task>>
  BY DEF PatchLabel, Changed, vectors, stored, CInv, CType
<1>2. PICK new \in LabelRows : new.cat = label[x].cat /\ label' = [label EXCEPT ![x] = new]
  <2>1. ASSUME NEW prompts \in SUBSET Prompts, label' = [label EXCEPT ![x].prompts = prompts]
        PROVE  \E new \in LabelRows : new.cat = label[x].cat /\ label' = [label EXCEPT ![x] = new]
    <3>1. [label[x] EXCEPT !.prompts = prompts] \in LabelRows /\ [label[x] EXCEPT !.prompts = prompts].cat = label[x].cat
      BY <1>1 DEF LabelRows
    <3> QED BY <2>1, <3>1
  <2>2. ASSUME NEW tags \in SUBSET Tags, label' = [label EXCEPT ![x].tags = tags]
        PROVE  \E new \in LabelRows : new.cat = label[x].cat /\ label' = [label EXCEPT ![x] = new]
    <3>1. [label[x] EXCEPT !.tags = tags] \in LabelRows /\ [label[x] EXCEPT !.tags = tags].cat = label[x].cat
      BY <1>1 DEF LabelRows
    <3> QED BY <2>2, <3>1
  <2>3. ASSUME NEW i \in 0..1, label' = [label EXCEPT ![x].position = i]
        PROVE  \E new \in LabelRows : new.cat = label[x].cat /\ label' = [label EXCEPT ![x] = new]
    <3>1. [label[x] EXCEPT !.position = i] \in LabelRows /\ [label[x] EXCEPT !.position = i].cat = label[x].cat
      BY <1>1 DEF LabelRows
    <3> QED BY <2>3, <3>1
  <2> QED BY <2>1, <2>2, <2>3 DEF PatchLabel
<1>3. label' \in [Labels -> LabelRows \cup {None}]
  BY <1>2 DEF CInv, CType
<1>4. \A y \in Labels : label[y] # None => label'[y] # None /\ label'[y].cat = label[y].cat
  BY <1>2, CatalogAssumption DEF CInv, CType
<1>5. \A r \in class : r.label \in Labels
  BY DEF CInv, CType, ClassRows
<1> QED BY <1>1, <1>3, <1>4, <1>5, CatalogStep DEF CInv, CType

\* _delete_label_cascade: a label's rows go with it.
LEMMA DeleteLabelKeeps ==
  ASSUME CInv, NEW x \in Labels, DeleteLabel(x)
  PROVE  CInv'
<1>1. class' = {r \in class : r.label # x} /\ label' = [label EXCEPT ![x] = None] /\ UNCHANGED <<cat, photo, task>>
  BY DEF DeleteLabel, Cleared, Changed, vectors, stored
<1>2. label' \in [Labels -> LabelRows \cup {None}]
  BY <1>1 DEF CInv, CType
<1>3. \A r \in class' : r \in class /\ r.label \in Labels /\ label'[r.label] = label[r.label]
  BY <1>1 DEF CInv, CType, ClassRows
<1> QED BY <1>1, <1>2, <1>3, CatalogStep DEF CInv, CType

\* Every step of the classification keeps the invariant.
LEMMA ClassStepsKeep ==
  ASSUME VInv, CInv, ClassSteps
  PROVE  CInv'
<1>1. ASSUME NEW p \in Ids, NEW t \in Tags, Retag(p, t) PROVE CInv'
  <2>1. UNCHANGED <<catalog, class, photo, task>>
    BY <1>1 DEF Retag, vectors, stored
  <2>2. Scoring' /\ Honest
    BY <2>1 DEF CInv, Scoring, Honest
  <2> QED BY <2>1, <2>2, ClassesSame
<1> QED BY <1>1, ClassifyStartKeeps, ClassifyWriteKeeps, CreateCategoryKeeps, PatchCategoryKeeps,
           DeleteCategoryKeeps, CreateLabelKeeps, PatchLabelKeeps, DeleteLabelKeeps DEF ClassSteps

\* The page classifies nothing.
LEMMA BrowsingHonest ==
  ASSUME VInv, Browse
  PROVE  UNCHANGED <<catalog, class, task>> /\ Honest
<1>1. ASSUME NEW p \in Ids, TrashShown(p) PROVE UNCHANGED <<catalog, class, task>> /\ Honest
  <2> DEFINE kept == photo[p].people \ {Min(photo[p].people)}
  <2>1. /\ p \in There /\ photo' = [photo EXCEPT ![p].people = kept] /\ UNCHANGED <<catalog, class, task>>
    BY <1>1 DEF TrashShown, Live, classes
  <2> HIDE DEF kept
  <2> QED BY <2>1, Rows DEF Honest, VInv, VType, There, PhotoRows
<1>2. ASSUME BulkTrash PROVE UNCHANGED <<catalog, class, task>> /\ Honest
  <2> DEFINE gone == {p \in Live : <<"photo", p>> \in ToSet(gallery.keys)}
  <2>1. /\ gone \subseteq There /\ UNCHANGED <<catalog, class, task>>
        /\ photo' = [p \in Ids |-> IF p \in gone THEN [photo[p] EXCEPT !.people = {}] ELSE photo[p]]
    BY <1>2 DEF BulkTrash, Live, classes
  <2> HIDE DEF gone
  <2> QED BY <2>1, Rows DEF Honest, VInv, VType, There, PhotoRows
<1>3. ASSUME NEW p \in Ids, ToggleFavourite(p) PROVE UNCHANGED <<catalog, class, task>> /\ Honest
  <2> DEFINE who  == Min(photo[p].people)
             kept == (photo[p].favourite \ {who}) \cup ({who} \ photo[p].favourite)
  <2>1. /\ p \in There /\ photo' = [photo EXCEPT ![p].favourite = kept] /\ UNCHANGED <<catalog, class, task>>
    BY <1>3 DEF ToggleFavourite, Live, classes
  <2> HIDE DEF kept
  <2> QED BY <2>1, Rows DEF Honest, VInv, VType, There, PhotoRows
<1>4. ASSUME UNCHANGED <<vectors, classes>> PROVE UNCHANGED <<catalog, class, task>> /\ Honest
  BY <1>4 DEF vectors, stored, classes, Honest
<1> QED BY <1>1, <1>2, <1>3, <1>4 DEF Browse, Choose, Reload, Enter, LoadMore, PageArrives, PageLost, Still

\* The labels of photos stay those of the catalog through every step of the system.
THEOREM ClassInvariant == GSpec => [](VInv /\ CInv)
<1>1. CInv /\ VInv /\ [GNext]_All => CInv'
  <2> SUFFICES ASSUME CInv, VInv, [GNext]_All PROVE CInv'
    OBVIOUS
  <2>1. CASE UNCHANGED <<vectors, classes>>
    <3>1. UNCHANGED <<catalog, class>> /\ Scoring' /\ Honest
      BY <2>1 DEF vectors, stored, classes, Honest, CInv, Scoring
    <3> QED BY <3>1, ClassesSame
  <2>2. CASE Stopped
    <3>1. UNCHANGED <<catalog, class>> /\ Scoring' /\ Honest
      BY <2>2 DEF Stopped, stored, Honest, CInv, Scoring, NoTask
    <3> QED BY <3>1, ClassesSame
  <2>3. CASE VectorSteps /\ UNCHANGED classes
    <3>1. UNCHANGED <<catalog, class>>
      BY <2>3 DEF classes
    <3> QED BY <2>3, <3>1, VectorStepsHonest, ClassesSame DEF CInv
  <2>4. CASE ClassSteps
    BY <2>4, ClassStepsKeep
  <2>5. CASE Browse
    <3>1. UNCHANGED <<catalog, class, task>> /\ Honest
      BY <2>5, BrowsingHonest
    <3>2. Scoring'
      BY <3>1 DEF CInv, Scoring
    <3> QED BY <3>1, <3>2, ClassesSame
  <2> QED BY <2>1, <2>2, <2>3, <2>4, <2>5 DEF GNext, ModelRuns, All
<1> QED BY <1>1, InitCInv, VectorInvariant, PTL DEF GSpec

\* A row has its label in its category, two stand together only if they may, and what counts as
\* classified was classified by its own picture.
THEOREM LabelsStayTrue == GSpec => []LabelsTrue
<1>1. CInv => LabelsTrue
  BY DEF CInv
<1> QED BY <1>1, ClassInvariant, PTL

------------------------------------------------------------------------------
(* The grid that is looked through: for any filters, scores and size of a   *)
(* page, what is shown is what the first pages of the list hold, in its     *)
(* order, none missing and none twice, as long as the list only loses what  *)
(* is shown last or nothing at all.                                         *)

\* s is the finite set S, in the order R.
Arranged(s, S, R) ==
    /\ s \in Seq(S) /\ Len(s) = Cardinality(S) /\ ToSet(s) = S
    /\ \A i \in 1..Len(s) : Place(R, S)[s[i]] = i - 1
    /\ \A i, j \in 1..Len(s) : i < j => <<s[i], s[j]>> \in R

\* What InOrder gives: at each place the one that has as many before it.
LEMMA Arranging ==
  ASSUME NEW S, IsFiniteSet(S), NEW R, StrictOrder(R, S), NEW s, s = [i \in 1..Cardinality(S) |-> s[i]],
         \A i \in 1..Cardinality(S) : (\E e \in S : Cardinality({d \in S : <<d, e>> \in R}) = i - 1)
            => s[i] \in S /\ Cardinality({d \in S : <<d, s[i]>> \in R}) = i - 1
  PROVE  Arranged(s, S, R)
<1>1. Cardinality(S) \in Nat
  BY FS_CardinalityType
<1>2. \A i \in 1..Cardinality(S) : s[i] \in S /\ Cardinality({d \in S : <<d, s[i]>> \in R}) = i - 1
  <2> TAKE i \in 1..Cardinality(S)
  <2>1. i - 1 \in 0..Cardinality(S) - 1
    BY <1>1
  <2>2. PICK e \in S : Place(R, S)[e] = i - 1
    BY <2>1, EveryPlace
  <2>3. Cardinality({d \in S : <<d, e>> \in R}) = i - 1
    BY <2>2 DEF Place
  <2> QED BY <2>3
<1>3. s \in [1..Cardinality(S) -> S]
  BY <1>2
<1>4. s \in Seq(S) /\ ToSet(s) = S
  <2>1. \A i \in 1..Cardinality(S) : Cardinality({d \in S : <<d, s[i]>> \in R}) = i - 1
    BY <1>2
  <2> QED BY <1>3, <2>1, Sorted
<1>5. Len(s) = Cardinality(S)
  BY <1>1, <1>3, <1>4
<1>6. \A i \in 1..Len(s) : s[i] \in S /\ Place(R, S)[s[i]] = i - 1
  BY <1>2, <1>5 DEF Place
<1>7. \A i, j \in 1..Len(s) : i < j => <<s[i], s[j]>> \in R
  <2> SUFFICES ASSUME NEW i \in 1..Len(s), NEW j \in 1..Len(s), i < j, <<s[i], s[j]>> \notin R PROVE FALSE
    OBVIOUS
  <2> DEFINE place == Place(R, S)
  <2>0. i \in Nat /\ j \in Nat /\ place[s[i]] = i - 1 /\ place[s[j]] = j - 1
    <3>1. i \in Nat /\ j \in Nat
      BY <1>1, <1>5
    <3>2. place[s[i]] = i - 1 /\ place[s[j]] = j - 1
      BY <1>6, Zenon
    <3> QED BY <3>1, <3>2
  <2> HIDE DEF place
  <2>1. s[i] # s[j]
    BY <2>0
  <2>2. <<s[j], s[i]>> \in R
    BY <1>6, <2>1 DEF StrictOrder
  <2>3. Place(R, S)[s[j]] < Place(R, S)[s[i]]
    BY <1>6, <2>2, LaterPlace
  <2> QED BY <2>0, <2>3 DEF place
<1> QED BY <1>4, <1>5, <1>6, <1>7 DEF Arranged

\* s goes up in R.
Rising(s, R) ==
    /\ DOMAIN s = 1..Len(s) /\ Len(s) \in Nat
    /\ \A i, j \in 1..Len(s) : i < j => <<s[i], s[j]>> \in R

\* A set can be put in order in one way only.
LEMMA OneOrder ==
  ASSUME NEW s, NEW t, NEW R, Rising(s, R), Rising(t, R), ToSet(s) = ToSet(t), s = [i \in DOMAIN s |-> s[i]],
         t = [i \in DOMAIN t |-> t[i]],
         \A x \in ToSet(s) : <<x, x>> \notin R,
         \A x, y, z \in ToSet(s) : <<x, y>> \in R /\ <<y, z>> \in R => <<x, z>> \in R
  PROVE  s = t
<1>1. /\ DOMAIN s = 1..Len(s) /\ DOMAIN t = 1..Len(t) /\ Len(s) \in Nat /\ Len(t) \in Nat
      /\ \A i, j \in DOMAIN s : i < j => <<s[i], s[j]>> \in R
      /\ \A i, j \in DOMAIN t : i < j => <<t[i], t[j]>> \in R
  BY DEF Rising
<1>2. /\ \A i \in DOMAIN s : s[i] \in ToSet(s) /\ \E j \in DOMAIN t : t[j] = s[i]
      /\ \A i \in DOMAIN t : t[i] \in ToSet(s) /\ \E j \in DOMAIN s : s[j] = t[i]
  BY DEF ToSet
<1>3. /\ \A i, j \in DOMAIN s : s[i] = s[j] => i = j
      /\ \A i, j \in DOMAIN t : t[i] = t[j] => i = j
  <2>1. \A i, j \in DOMAIN s : i \in Int /\ j \in Int
    BY <1>1
  <2>2. \A i, j \in DOMAIN t : i \in Int /\ j \in Int
    BY <1>1
  <2>3. ASSUME NEW i \in DOMAIN s, NEW j \in DOMAIN s, s[i] = s[j], i # j PROVE FALSE
    <3>1. i < j \/ j < i
      BY <2>1, <2>3
    <3>2. s[i] \in ToSet(s)
      BY <1>2
    <3> QED BY <1>1, <2>3, <3>1, <3>2
  <2>4. ASSUME NEW i \in DOMAIN t, NEW j \in DOMAIN t, t[i] = t[j], i # j PROVE FALSE
    <3>1. i < j \/ j < i
      BY <2>2, <2>4
    <3>2. t[i] \in ToSet(s)
      BY <1>2
    <3> QED BY <1>1, <2>4, <3>1, <3>2
  <2> QED BY <2>3, <2>4
<1> DEFINE D == {i \in DOMAIN s \cup DOMAIN t : ~(i \in DOMAIN s /\ i \in DOMAIN t /\ s[i] = t[i])}
<1>4. SUFFICES ASSUME D # {} PROVE FALSE
  <2>1. DOMAIN s = DOMAIN t /\ \A i \in DOMAIN s : s[i] = t[i]
    BY <1>4
  <2> QED BY <2>1
<1>5. IsFiniteSet(D) /\ D \subseteq Int
  <2>1. IsFiniteSet(1..Len(s)) /\ IsFiniteSet(1..Len(t))
    <3>1. \A n \in Nat : IsFiniteSet(1..n)
      <4> TAKE n \in Nat
      <4>1. 1 \in Int /\ n \in Int
        OBVIOUS
      <4> QED BY <4>1, FS_Interval
    <3> QED BY <1>1, <3>1
  <2>2. IsFiniteSet(1..Len(s) \cup 1..Len(t))
    BY <2>1, FS_Union
  <2>3. D \in SUBSET (1..Len(s) \cup 1..Len(t))
    BY <1>1
  <2> QED BY <2>2, <2>3, FS_Subset
<1>6. PICK i \in D : \A j \in D : i <= j
  <2> DEFINE m == Min(D)
  <2>1. m \in D /\ \A j \in D : m <= j
    BY <1>4, <1>5, Least
  <2> QED BY <2>1
<1>7. \A j \in (DOMAIN s \cup DOMAIN t) : j < i => j \in DOMAIN s /\ j \in DOMAIN t /\ s[j] = t[j]
  <2>1. i \in Int /\ \A j \in DOMAIN s \cup DOMAIN t : j \in Int
    BY <1>1
  <2> QED BY <1>6, <2>1
<1>8. CASE i \in DOMAIN s
  <2>1. PICK j \in DOMAIN t : t[j] = s[i]
    BY <1>2, <1>8
  <2>2. ~(j < i)
    <3>1. ASSUME j < i PROVE FALSE
      <4>1. j \in DOMAIN s /\ s[j] = s[i]
        BY <1>7, <2>1, <3>1
      <4>2. i = j
        BY <1>3, <1>8, <4>1
      <4> QED BY <1>1, <1>8, <3>1, <4>2
    <3> QED BY <3>1
  <2>3. i \in DOMAIN t
    BY <1>1, <1>8, <2>2
  <2>4. i # j
    BY <1>6, <1>8, <2>1, <2>3
  <2>5. i < j
    BY <1>1, <1>8, <2>2, <2>4
  <2>6. PICK k \in DOMAIN s : s[k] = t[i]
    BY <1>2, <2>3
  <2>7. ~(k < i)
    <3>1. ASSUME k < i PROVE FALSE
      <4>1. k \in DOMAIN t /\ t[k] = t[i]
        BY <1>7, <2>6, <3>1
      <4>2. i = k
        BY <1>3, <2>3, <4>1
      <4> QED BY <1>1, <2>3, <3>1, <4>2
    <3> QED BY <3>1
  <2>8. i # k
    BY <1>6, <1>8, <2>3, <2>6
  <2>9. i < k
    BY <1>1, <1>8, <2>7, <2>8
  <2>10. <<s[i], t[i]>> \in R /\ <<t[i], s[i]>> \in R
    BY <1>1, <1>8, <2>1, <2>3, <2>5, <2>6, <2>9
  <2> QED BY <1>2, <1>8, <2>3, <2>10
<1>9. CASE i \notin DOMAIN s
  <2>1. i \in DOMAIN t
    BY <1>6, <1>9
  <2>2. PICK k \in DOMAIN s : s[k] = t[i]
    BY <1>2, <2>1
  <2>3. k < i
    BY <1>1, <1>9, <2>1
  <2>4. k \in DOMAIN t /\ t[k] = t[i]
    BY <1>7, <2>2, <2>3
  <2> QED BY <1>1, <1>3, <2>1, <2>3, <2>4
<1> QED BY <1>8, <1>9

\* What has its place in an order is at it.
LEMMA AtItsPlace ==
  ASSUME NEW S, IsFiniteSet(S), NEW R, StrictOrder(R, S), NEW s, Arranged(s, S, R), NEW e \in S
  PROVE  Place(R, S)[e] + 1 \in 1..Len(s) /\ s[Place(R, S)[e] + 1] = e
<1>1. DOMAIN s = 1..Len(s) /\ Len(s) \in Nat /\ ToSet(s) = S
  BY DEF Arranged
<1>2. PICK i \in 1..Len(s) : s[i] = e
  BY <1>1 DEF ToSet
<1>3. Place(R, S)[e] = i - 1
  BY <1>2 DEF Arranged
<1>4. Place(R, S)[e] + 1 = i
  BY <1>1, <1>3
<1> QED BY <1>2, <1>4

\* t has as many of s as k says.
Begins(t, s, k) ==
    /\ Len(s) \in Nat /\ Len(t) \in Nat /\ Len(t) <= Len(s)
    /\ \A j \in 1..Len(s) : j <= k => j <= Len(t) /\ t[j] = s[j]

\* The first k of a set of two parts are among the first k of either part.
LEMMA FirstOfBoth ==
  ASSUME NEW R, NEW P, NEW V, IsFiniteSet(P \cup V), StrictOrder(R, P \cup V), NEW k \in Nat,
         NEW s, Arranged(s, P \cup V, R), NEW t, Arranged(t, FirstOf(P, R, k) \cup FirstOf(V, R, k), R)
  PROVE  Begins(t, s, k)
<1> DEFINE E == P \cup V
           U == FirstOf(P, R, k) \cup FirstOf(V, R, k)
<1>0. /\ IsFiniteSet(E) /\ StrictOrder(R, E) /\ Arranged(s, E, R) /\ Arranged(t, U, R)
      /\ E = P \cup V /\ U = FirstOf(P, R, k) \cup FirstOf(V, R, k)
  OBVIOUS
<1> HIDE DEF E, U
<1>1. U \in SUBSET E /\ P \subseteq E /\ V \subseteq E
  BY <1>0 DEF FirstOf
<1>2. IsFiniteSet(U) /\ Cardinality(U) <= Cardinality(E) /\ StrictOrder(R, U)
  BY <1>0, <1>1, FS_Subset, PartOrder
<1>3. Len(t) <= Len(s) /\ Len(s) \in Nat /\ Len(t) \in Nat
  BY <1>0, <1>2, FS_CardinalityType DEF Arranged
<1>4. ASSUME NEW e \in E, Place(R, E)[e] < k PROVE e \in U
  <2>1. CASE e \in P
    <3>1. Place(R, P)[e] <= Place(R, E)[e] /\ Place(R, P)[e] \in Nat /\ Place(R, E)[e] \in Nat
      BY <1>0, <1>1, <2>1, PartPlace
    <3>2. Place(R, P)[e] < k
      BY <1>0, <1>4, <3>1
    <3> QED BY <1>0, <2>1, <3>2 DEF FirstOf
  <2>2. CASE e \in V
    <3>1. Place(R, V)[e] <= Place(R, E)[e] /\ Place(R, V)[e] \in Nat /\ Place(R, E)[e] \in Nat
      BY <1>0, <1>1, <2>2, PartPlace
    <3>2. Place(R, V)[e] < k
      BY <1>0, <1>4, <3>1
    <3> QED BY <1>0, <2>2, <3>2 DEF FirstOf
  <2> QED BY <1>0, <2>1, <2>2
<1>5. ASSUME NEW j \in 1..Len(s), j <= k PROVE j <= Len(t) /\ t[j] = s[j]
  <2> DEFINE e == s[j]
  <2>1. e \in E /\ Place(R, E)[e] = j - 1
    <3>1. DOMAIN s = 1..Len(s) /\ ToSet(s) = E
      BY <1>0 DEF Arranged
    <3>2. e \in E
      BY <1>0, <3>1 DEF ToSet
    <3>3. Place(R, E)[e] = j - 1
      BY <1>0 DEF Arranged
    <3> QED BY <1>0, <3>2, <3>3
  <2> HIDE DEF e
  <2>2. j \in Nat
    BY <1>0, <1>3
  <2>3. e \in U
    <3>1. Place(R, E)[e] < k
      BY <1>0, <1>5, <2>1, <2>2
    <3> QED BY <1>0, <1>4, <2>1, <3>1
  <2>4. \A d \in E : <<d, e>> \in R => d \in U
    <3> SUFFICES ASSUME NEW d \in E, <<d, e>> \in R PROVE d \in U
      OBVIOUS
    <3>1. Place(R, E)[d] < Place(R, E)[e]
      BY <1>0, <2>1, LaterPlace
    <3>2. Place(R, E)[d] \in Nat
      BY <1>0, PartPlace
    <3>3. Place(R, E)[d] < k
      BY <1>0, <1>5, <2>1, <2>2, <3>1, <3>2
    <3> QED BY <1>0, <1>4, <3>3
  <2>5. Place(R, U)[e] = j - 1
    BY <1>0, <1>1, <2>1, <2>3, <2>4, PartPlace
  <2>6. Place(R, U)[e] + 1 \in 1..Len(t) /\ t[Place(R, U)[e] + 1] = e
    BY <1>0, <1>2, <2>3, AtItsPlace
  <2>7. Place(R, U)[e] + 1 = j
    BY <1>0, <2>2, <2>5
  <2>8. j \in 1..Len(t) /\ t[j] = e
    BY <1>0, <2>6, <2>7
  <2> QED BY <1>0, <1>3, <2>8 DEF e
<1> QED BY <1>3, <1>5 DEF Begins

\* The smaller of two numbers.
LEMMA Smaller ==
  ASSUME NEW m \in Nat, NEW n \in Nat
  PROVE  Min({m, n}) = IF m <= n THEN m ELSE n
<1>1. IsFiniteSet({m, n}) /\ {m, n} \subseteq Int /\ {m, n} # {}
  <2>1. IsFiniteSet({m}) /\ {m, n} = {m} \cup {n}
    BY FS_Singleton
  <2>2. IsFiniteSet({m} \cup {n})
    BY <2>1, FS_AddElement
  <2> QED BY <2>1, <2>2
<1>2. Min({m, n}) \in {m, n} /\ \A y \in {m, n} : Min({m, n}) <= y
  BY <1>1, Least
<1> QED BY <1>2

\* A part of a sequence.
LEMMA Part ==
  ASSUME NEW S, NEW s \in Seq(S), NEW a \in Nat, NEW b \in Nat, b <= Len(s)
  PROVE  /\ SubSeq(s, a + 1, b) \in Seq(S)
         /\ DOMAIN SubSeq(s, a + 1, b) = 1..(b - a)
         /\ \A i \in 1..(b - a) : SubSeq(s, a + 1, b)[i] = s[a + i]
<1> DEFINE t == SubSeq(s, a + 1, b)
           c == a + 1
<1>1. c \in Int /\ b \in Int /\ \A i \in c..b : s[i] \in S
  OBVIOUS
<1>2. /\ SubSeq(s, c, b) \in Seq(S)
      /\ Len(SubSeq(s, c, b)) = IF c <= b THEN b - c + 1 ELSE 0
      /\ \A i \in 1..(b - c + 1) : SubSeq(s, c, b)[i] = s[c + i - 1]
  <2> HIDE DEF c
  <2> QED BY <1>1, SubSeqProperties
<1>3. t \in Seq(S) /\ DOMAIN t = 1..Len(t)
  BY <1>2
<1>4. 1..Len(t) = 1..(b - a) /\ b - c + 1 = b - a
  BY <1>2
<1>5. \A i \in 1..(b - a) : t[i] = s[a + i]
  <2>1. \A i \in 1..(b - a) : c + i - 1 = a + i
    OBVIOUS
  <2> QED BY <1>2, <1>4, <2>1
<1> QED BY <1>3, <1>4, <1>5

\* The first k of an order.
LEMMA FirstOfOrder ==
  ASSUME NEW S, IsFiniteSet(S), NEW R, StrictOrder(R, S), NEW s, Arranged(s, S, R), NEW k \in Nat
  PROVE  ToSet(Top(s, k)) = FirstOf(S, R, k)
<1>1. s \in Seq(S) /\ DOMAIN s = 1..Len(s) /\ Len(s) \in Nat /\ ToSet(s) = S
  BY DEF Arranged
<1>2. PICK m \in Nat : m = Min({k, Len(s)}) /\ m = IF k <= Len(s) THEN k ELSE Len(s)
  BY <1>1, Smaller
<1>3. Top(s, k) = SubSeq(s, 1, m)
  BY <1>2 DEF Top
<1> DEFINE t == SubSeq(s, 1, m)
<1>4. DOMAIN t = 1..m /\ \A i \in 1..m : i \in 1..Len(s) /\ t[i] = s[i]
  <2>1. m <= Len(s)
    BY <1>1, <1>2
  <2>2. 1 \in Int /\ m \in Int /\ \A i \in 1..m : s[i] \in S
    <3>1. \A i \in 1..m : i \in 1..Len(s)
      BY <1>1, <2>1
    <3>2. \A i \in 1..Len(s) : s[i] \in S
      BY <1>1
    <3> QED BY <3>1, <3>2
  <2>3. /\ t \in Seq(S) /\ Len(t) = IF 1 <= m THEN m - 1 + 1 ELSE 0
        /\ \A i \in 1..(m - 1 + 1) : t[i] = s[1 + i - 1]
    BY <2>2, SubSeqProperties
  <2> HIDE DEF t
  <2>4. DOMAIN t = 1..m
    <3>1. DOMAIN t = 1..Len(t)
      BY <2>3
    <3>2. Len(t) = m
      BY <1>2, <2>3
    <3> QED BY <3>1, <3>2
  <2>5. \A i \in 1..m : t[i] = s[i]
    <3>1. m - 1 + 1 = m /\ \A i \in 1..m : 1 + i - 1 = i
      BY <1>2
    <3> QED BY <2>3, <3>1
  <2>6. \A i \in 1..m : i \in 1..Len(s)
    BY <1>1, <2>1
  <2> QED BY <2>4, <2>5, <2>6
<1>5. \A i \in 1..Len(s) : s[i] \in S /\ Place(R, S)[s[i]] = i - 1
  BY <1>1 DEF Arranged
<1>6. ToSet(t) = {t[i] : i \in 1..m}
  BY <1>4 DEF ToSet
<1> HIDE DEF t
<1>7. ASSUME NEW i \in 1..m PROVE t[i] \in S /\ Place(R, S)[t[i]] < k
  <2>1. i <= k /\ i \in Nat
    BY <1>2
  <2>2. t[i] = s[i] /\ i \in 1..Len(s)
    BY <1>4
  <2>3. Place(R, S)[t[i]] = i - 1 /\ t[i] \in S
    BY <1>5, <2>2
  <2> QED BY <2>1, <2>3
<1>8. ASSUME NEW e \in S, Place(R, S)[e] < k PROVE \E i \in 1..m : t[i] = e
  <2>1. Place(R, S)[e] + 1 \in 1..Len(s) /\ s[Place(R, S)[e] + 1] = e
    BY AtItsPlace
  <2>2. Place(R, S)[e] \in Nat
    BY PartPlace
  <2>3. Place(R, S)[e] + 1 \in 1..m
    BY <1>1, <1>2, <1>8, <2>1, <2>2
  <2> QED BY <1>4, <2>1, <2>3
<1> QED BY <1>3, <1>6, <1>7, <1>8 DEF t, FirstOf

\* The keys of the first k of M.
FirstKeys(M, R, key, k) == {key[e] : e \in FirstOf(M, R, k)}
AllKeys(M, key) == {key[e] : e \in M}

\* One key comes before another if it is met before it in M.
KeyOrder(M, R, key) ==
    {x \in AllKeys(M, key) \X AllKeys(M, key) :
        \E d \in M : key[d] = x[1] /\ \A e \in M : key[e] = x[2] => <<d, e>> \in R}

\* It goes nowhere back and skips nothing.
LEMMA KeysOrdered ==
  ASSUME NEW M, NEW R, StrictOrder(R, M), NEW key
  PROVE  /\ \A x \in AllKeys(M, key) : <<x, x>> \notin KeyOrder(M, R, key)
         /\ \A x, y, z \in AllKeys(M, key) :
               <<x, y>> \in KeyOrder(M, R, key) /\ <<y, z>> \in KeyOrder(M, R, key) => <<x, z>> \in KeyOrder(M, R, key)
<1> DEFINE Ks == AllKeys(M, key)
           L  == KeyOrder(M, R, key)
<1>1. \A x, y \in Ks : <<x, y>> \in L <=> \E d \in M : key[d] = x /\ \A e \in M : key[e] = y => <<d, e>> \in R
  BY DEF KeyOrder
<1>2. \A x \in Ks : \E d \in M : key[d] = x
  BY DEF AllKeys
<1> HIDE DEF Ks, L
<1>3. ASSUME NEW x \in Ks, <<x, x>> \in L PROVE FALSE
  BY <1>1, <1>3 DEF StrictOrder
<1>4. ASSUME NEW x \in Ks, NEW y \in Ks, NEW z \in Ks, <<x, y>> \in L, <<y, z>> \in L PROVE <<x, z>> \in L
  <2>1. PICK d \in M : key[d] = x /\ \A e \in M : key[e] = y => <<d, e>> \in R
    BY <1>1, <1>4
  <2>2. PICK c \in M : key[c] = y /\ \A e \in M : key[e] = z => <<c, e>> \in R
    BY <1>1, <1>4
  <2>3. \A e \in M : key[e] = z => <<d, e>> \in R
    BY <2>1, <2>2 DEF StrictOrder
  <2> QED BY <1>1, <2>1, <2>3
<1> QED BY <1>3, <1>4 DEF Ks, L

\* The first n elements of s, and the places of what is not in keys and is met for the first time.
Elements(s, n) == {s[i] : i \in 1..n}
Unseen(s, keys) == {j \in DOMAIN s : s[j] \notin ToSet(keys) \cup Elements(s, j - 1)}

\* t goes through s at the places I, in order.
Picks(t, s, I) ==
    \E at \in Seq(I) : /\ Len(at) = Len(t) /\ ToSet(at) = I /\ DOMAIN at = 1..Len(at)
                       /\ \A k \in 1..Len(at) : t[k] = s[at[k]]
                       /\ \A i, j \in 1..Len(at) : i < j => at[i] < at[j]

\* Those does.
LEMMA Counted ==
  ASSUME NEW I, IsFiniteSet(I), I \subseteq Int, NEW s, NEW S, \A i \in I : s[i] \in S
  PROVE  Those(s, I) \in Seq(S) /\ Picks(Those(s, I), s, I)
<1> DEFINE R  == {x \in I \X I : x[1] < x[2]}
           at == InOrder(I, LAMBDA i, j : i < j)
           lower(e) == {d \in I : d < e}
<1>1. \A i, j \in I : <<i, j>> \in R <=> i < j
  OBVIOUS
<1>2. at = [k \in 1..Cardinality(I) |-> CHOOSE e \in I : Cardinality(lower(e)) = k - 1]
  BY DEF InOrder
<1>3. Those(s, I) = [k \in DOMAIN at |-> s[at[k]]]
  BY DEF Those
<1> HIDE DEF R, at
<1>4. \A e \in I : lower(e) = {d \in I : <<d, e>> \in R}
  BY <1>1
<1> HIDE DEF lower
<1>5. ASSUME NEW k \in 1..Cardinality(I), \E e \in I : Cardinality({d \in I : <<d, e>> \in R}) = k - 1
      PROVE  at[k] \in I /\ Cardinality({d \in I : <<d, at[k]>> \in R}) = k - 1
  <2>1. \E e \in I : Cardinality(lower(e)) = k - 1
    BY <1>4, <1>5
  <2>2. at[k] \in I /\ Cardinality(lower(at[k])) = k - 1
    BY <1>2, <2>1
  <2> QED BY <1>4, <2>2
<1>6. StrictOrder(R, I) /\ at = [k \in 1..Cardinality(I) |-> at[k]]
  BY <1>1, <1>2 DEF StrictOrder
<1>7. Arranged(at, I, R)
  BY <1>5, <1>6, Arranging
<1>8. at \in Seq(I) /\ ToSet(at) = I /\ DOMAIN at = 1..Len(at) /\ Len(at) \in Nat
  BY <1>7 DEF Arranged
<1>9. \A i, j \in 1..Len(at) : i < j => at[i] < at[j]
  <2>1. \A i, j \in 1..Len(at) : i < j => <<at[i], at[j]>> \in R
    BY <1>7 DEF Arranged
  <2>2. \A i \in 1..Len(at) : at[i] \in I
    BY <1>8
  <2> QED BY <1>1, <2>1, <2>2
<1> DEFINE t == Those(s, I)
<1>10. t = [k \in 1..Len(at) |-> s[at[k]]]
  BY <1>3, <1>8
<1> HIDE DEF t
<1>11. \A k \in 1..Len(at) : at[k] \in I /\ s[at[k]] \in S
  <2>1. \A k \in 1..Len(at) : at[k] \in I
    BY <1>8
  <2> QED BY <2>1
<1>12. t \in Seq(S) /\ Len(t) = Len(at) /\ \A k \in 1..Len(at) : t[k] = s[at[k]]
  <2>1. t \in [1..Len(at) -> S]
    BY <1>10, <1>11
  <2>2. t \in Seq(S) /\ DOMAIN t = 1..Len(at)
    BY <1>8, <2>1
  <2>3. Len(t) = Len(at)
    BY <1>8, <2>2
  <2> QED BY <1>10, <2>2, <2>3
<1> QED BY <1>8, <1>9, <1>12 DEF t, Picks

\* The keys are those of the first k of M, in their order.
KeysUpTo(M, R, key, keys, k) ==
    keys \in Seq(AllKeys(M, key)) /\ Rising(keys, KeyOrder(M, R, key)) /\ ToSet(keys) = FirstKeys(M, R, key, k)

\* From a up to c, or the end of s, and k between them.
Span(s, a, b, k, c) ==
    a \in Nat /\ k \in Nat /\ c \in Nat /\ a <= k /\ k <= c /\ b = IF c <= Len(s) THEN c ELSE Len(s)

\* ks has the keys of s in such a span.
CutOut(ks, s, key, a, b, k, c) ==
    /\ Span(s, a, b, k, c)
    /\ DOMAIN ks = 1..(b - a) /\ \A i \in 1..(b - a) : ks[i] = key[s[a + i]]

\* Up to where the keys go then.
LEMMA FirstsGrow ==
  ASSUME NEW M, IsFiniteSet(M), NEW R, StrictOrder(R, M), NEW key, NEW s, Arranged(s, M, R),
         NEW a, NEW b, NEW k, NEW c, NEW ks, CutOut(ks, s, key, a, b, k, c)
  PROVE  FirstKeys(M, R, key, k) \cup ToSet(ks) = FirstKeys(M, R, key, c)
<1>0. /\ a \in Nat /\ k \in Nat /\ c \in Nat /\ a <= k /\ k <= c /\ b = IF c <= Len(s) THEN c ELSE Len(s)
      /\ DOMAIN ks = 1..(b - a) /\ \A i \in 1..(b - a) : ks[i] = key[s[a + i]]
  BY DEF CutOut, Span
<1>1. Len(s) \in Nat /\ \A i \in 1..Len(s) : s[i] \in M /\ Place(R, M)[s[i]] = i - 1
  BY DEF Arranged
<1>2. \A e \in M : Place(R, M)[e] \in Nat
  BY PartPlace
<1>3. \A x : x \in FirstKeys(M, R, key, k) <=> \E d \in M : Place(R, M)[d] < k /\ x = key[d]
  BY DEF FirstKeys, FirstOf
<1>4. \A x : x \in FirstKeys(M, R, key, c) <=> \E d \in M : Place(R, M)[d] < c /\ x = key[d]
  BY DEF FirstKeys, FirstOf
<1>5. FirstKeys(M, R, key, k) \subseteq FirstKeys(M, R, key, c)
  BY <1>0, <1>2, <1>3, <1>4
<1>6. ASSUME NEW i \in 1..(b - a) PROVE ks[i] \in FirstKeys(M, R, key, c)
  <2>1. a + i \in 1..Len(s) /\ a + i - 1 < c
    BY <1>0, <1>1
  <2>2. s[a + i] \in M /\ Place(R, M)[s[a + i]] = a + i - 1
    <3>1. PICK p \in 1..Len(s) : p = a + i
      BY <2>1
    <3>2. s[p] \in M /\ Place(R, M)[s[p]] = p - 1
      BY <1>1
    <3> QED BY <1>0, <3>1, <3>2
  <2> QED BY <1>0, <1>4, <2>1, <2>2
<1>7. ASSUME NEW d \in M, Place(R, M)[d] < c, ~(Place(R, M)[d] < k)
      PROVE  \E i \in 1..(b - a) : ks[i] = key[d]
  <2> DEFINE p == Place(R, M)[d]
  <2>1. p \in Nat /\ p + 1 \in 1..Len(s) /\ s[p + 1] = d
    BY <1>2, AtItsPlace
  <2>2. p + 1 - a \in 1..(b - a) /\ a + (p + 1 - a) = p + 1
    BY <1>0, <1>1, <1>7, <2>1
  <2>3. ks[p + 1 - a] = key[d]
    BY <1>0, <2>1, <2>2
  <2> QED BY <2>2, <2>3
<1>8. \A x : x \in ToSet(ks) <=> \E i \in 1..(b - a) : x = ks[i]
  BY <1>0 DEF ToSet
<1>9. \A x : x \in FirstKeys(M, R, key, c) => x \in FirstKeys(M, R, key, k) \/ x \in ToSet(ks)
  <2> SUFFICES ASSUME NEW d \in M, Place(R, M)[d] < c PROVE key[d] \in FirstKeys(M, R, key, k) \/ key[d] \in ToSet(ks)
    BY <1>4
  <2>1. CASE Place(R, M)[d] < k
    BY <1>3, <2>1
  <2>2. CASE ~(Place(R, M)[d] < k)
    BY <1>7, <1>8, <2>2
  <2> QED BY <2>1, <2>2
<1>10. \A x : x \in ToSet(ks) => x \in FirstKeys(M, R, key, c)
  BY <1>6, <1>8
<1> QED BY <1>5, <1>9, <1>10
\* A part of the list, without what is there already, goes on with the order of the keys.
LEMMA GoesOn ==
  ASSUME NEW M, IsFiniteSet(M), NEW R, StrictOrder(R, M), NEW key, NEW s, Arranged(s, M, R),
         NEW a, NEW b, NEW k, NEW c, NEW keys, KeysUpTo(M, R, key, keys, k), NEW ks, CutOut(ks, s, key, a, b, k, c)
  PROVE  KeysUpTo(M, R, key, keys \o Those(ks, Unseen(ks, keys)), c)
<1>0. Len(s) \in Nat /\ a \in Nat /\ b \in Nat /\ k \in Nat /\ c \in Nat /\ a <= k /\ k <= c /\ b <= Len(s) /\ b <= c
  <2>1. Len(s) \in Nat
    BY DEF Arranged
  <2> QED BY <2>1 DEF CutOut, Span
<1>d. keys \in Seq(AllKeys(M, key)) /\ Rising(keys, KeyOrder(M, R, key)) /\ ToSet(keys) = FirstKeys(M, R, key, k)
  BY DEF KeysUpTo
<1>e. DOMAIN ks = 1..(b - a) /\ \A i \in 1..(b - a) : ks[i] = key[s[a + i]]
  BY DEF CutOut
<1> DEFINE K  == KeyOrder(M, R, key)
           new == Unseen(ks, keys)
           Ks == AllKeys(M, key)
           t  == Those(ks, new)
           u  == keys \o t
<1>a. /\ \A e \in M : key[e] \in Ks
      /\ \A x \in Ks : \E e \in M : x = key[e]
  BY DEF AllKeys
<1>b. \A j : j \in new <=> j \in 1..(b - a) /\ ks[j] \notin ToSet(keys) /\ \A i \in 1..(j - 1) : ks[j] # ks[i]
  BY <1>e DEF Unseen, Elements
<1>f. new \in SUBSET (1..(b - a))
  BY <1>b
<1>1. \A x, y \in Ks : <<x, y>> \in K <=> \E d \in M : key[d] = x /\ \A e \in M : key[e] = y => <<d, e>> \in R
  BY DEF KeyOrder
<1>k. keys \in Seq(Ks)
  BY <1>d
<1> HIDE DEF Ks, new
<1>2. Len(s) \in Nat /\ \A i \in 1..(b - a) : a + i \in 1..Len(s) /\ s[a + i] \in M /\ Place(R, M)[s[a + i]] = a + i - 1
  <2>1. Len(s) \in Nat /\ \A i \in 1..Len(s) : s[i] \in M /\ Place(R, M)[s[i]] = i - 1
    BY DEF Arranged
  <2>2. \A i \in 1..(b - a) : a + i \in 1..Len(s)
    BY <1>0, <2>1
  <2>3. ASSUME NEW i \in 1..(b - a) PROVE s[a + i] \in M /\ Place(R, M)[s[a + i]] = a + i - 1
    <3>1. PICK p \in 1..Len(s) : p = a + i
      BY <2>2
    <3>2. s[p] \in M /\ Place(R, M)[s[p]] = p - 1
      BY <2>1
    <3> QED BY <1>0, <3>1, <3>2
  <2> QED BY <2>1, <2>2, <2>3
<1>3. \A i \in 1..(b - a) : ks[i] \in Ks
  BY <1>2, <1>a, <1>e
<1>4. \A e \in M : Place(R, M)[e] \in Nat /\ (Place(R, M)[e] < k => key[e] \in ToSet(keys))
  <2>1. \A e \in M : Place(R, M)[e] \in Nat
    BY PartPlace
  <2> QED BY <1>d, <2>1 DEF FirstKeys, FirstOf
<1>5. ASSUME NEW j \in new, NEW e \in M, key[e] = ks[j]
      PROVE  k <= Place(R, M)[e] /\ a + j - 1 <= Place(R, M)[e]
  <2> DEFINE p == Place(R, M)[e]
  <2>1. p \in Nat /\ j \in 1..(b - a) /\ ks[j] \notin ToSet(keys)
    BY <1>4, <1>b
  <2>2. k <= p
    BY <1>0, <1>4, <1>5, <2>1
  <2>3. ASSUME p < a + j - 1 PROVE FALSE
    <3>1. PICK i \in 1..(j - 1) : a + i = p + 1
      <4>1. p + 1 - a \in 1..(j - 1) /\ a + (p + 1 - a) = p + 1
        BY <1>0, <2>1, <2>2, <2>3
      <4> QED BY <4>1
    <3>2. s[p + 1] = e
      BY AtItsPlace
    <3>3. i \in 1..(b - a)
      BY <1>0, <2>1
    <3>4. ks[i] = key[e]
      BY <1>e, <3>1, <3>2, <3>3
    <3> QED BY <1>5, <1>b, <3>1, <3>4
  <2> QED BY <1>0, <2>1, <2>2, <2>3
<1>6. ASSUME NEW x \in ToSet(keys), NEW j \in new PROVE <<x, ks[j]>> \in K
  <2>1. PICK d \in M : key[d] = x /\ Place(R, M)[d] < k
    BY <1>d DEF FirstKeys, FirstOf
  <2>2. ASSUME NEW e \in M, key[e] = ks[j] PROVE <<d, e>> \in R
    <3>1. k <= Place(R, M)[e]
      BY <1>5, <2>2
    <3>2. Place(R, M)[d] < Place(R, M)[e]
      BY <1>0, <1>4, <2>1, <3>1
    <3> QED BY <3>2, PlaceLess
  <2>3. x \in Ks /\ ks[j] \in Ks
    BY <1>3, <1>a, <1>f, <2>1
  <2> QED BY <1>1, <2>1, <2>2, <2>3
<1>7. ASSUME NEW i \in new, NEW j \in new, i < j PROVE <<ks[i], ks[j]>> \in K
  <2>1. i \in 1..(b - a) /\ j \in 1..(b - a)
    BY <1>f
  <2>2. ASSUME NEW e \in M, key[e] = ks[j] PROVE <<s[a + i], e>> \in R
    <3>1. a + j - 1 <= Place(R, M)[e]
      BY <1>5, <2>2
    <3>2. Place(R, M)[s[a + i]] = a + i - 1 /\ s[a + i] \in M
      BY <1>2, <2>1
    <3>3. Place(R, M)[s[a + i]] < Place(R, M)[e]
      BY <1>0, <1>4, <1>7, <2>1, <3>1, <3>2
    <3> QED BY <3>2, <3>3, PlaceLess
  <2>3. ks[i] \in Ks /\ ks[j] \in Ks /\ s[a + i] \in M /\ key[s[a + i]] = ks[i]
    BY <1>2, <1>3, <1>e, <2>1
  <2> QED BY <1>1, <2>2, <2>3
<1>8. IsFiniteSet(new) /\ new \subseteq Int
  <2> DEFINE l == b - a
  <2>1. 1 \in Int /\ l \in Int /\ new \in SUBSET (1..l)
    BY <1>0, <1>f
  <2> HIDE DEF l
  <2>2. IsFiniteSet(1..l)
    BY <2>1, FS_Interval
  <2>3. IsFiniteSet(new)
    BY <2>1, <2>2, FS_Subset
  <2>4. new \subseteq Int
    BY <2>1
  <2> QED BY <2>3, <2>4
<1>9. t \in Seq(Ks) /\ Picks(t, ks, new)
  <2> DEFINE I == new
             S == Ks
  <2>1. IsFiniteSet(I) /\ I \subseteq Int /\ \A i \in I : ks[i] \in S
    BY <1>3, <1>8, <1>f
  <2> HIDE DEF I, S
  <2>2. Those(ks, I) \in Seq(S) /\ Picks(Those(ks, I), ks, I)
    BY <2>1, Counted
  <2> QED BY <2>2 DEF I, S
<1> HIDE DEF t, K
<1>p. PICK at \in Seq(new) :
            /\ Len(at) = Len(t) /\ ToSet(at) = new /\ DOMAIN at = 1..Len(at)
            /\ \A h \in 1..Len(at) : t[h] = ks[at[h]]
            /\ \A i, j \in 1..Len(at) : i < j => at[i] < at[j]
  BY <1>9 DEF Picks
<1>c. PICK z \in Nat : z = Len(at)
  OBVIOUS
<1>10. (\A i \in 1..z : at[i] \in new) /\ \A j \in new : \E i \in 1..z : at[i] = j
  <2>1. \A i \in 1..Len(at) : at[i] \in new
    OBVIOUS
  <2>3. \A j \in ToSet(at) : \E i \in DOMAIN at : at[i] = j
    BY DEF ToSet
  <2> QED BY <1>p, <1>c, <2>1, <2>3
<1>11. t \in Seq(Ks) /\ Len(t) = z /\ DOMAIN t = 1..z /\ \A i \in 1..z : t[i] = ks[at[i]]
  <2>1. DOMAIN t = 1..Len(t)
    BY <1>9
  <2> QED BY <1>9, <1>p, <1>c, <2>1
<1>12. u \in Seq(Ks) /\ Len(u) = Len(keys) + z /\ DOMAIN u = 1..Len(u) /\ Len(keys) \in Nat
       /\ \A i \in 1..Len(u) : u[i] = IF i <= Len(keys) THEN keys[i] ELSE t[i - Len(keys)]
  <2>1. keys \in Seq(Ks) /\ t \in Seq(Ks) /\ Len(t) = z
    BY <1>k, <1>11
  <2>2. \A x, y \in Seq(Ks) : /\ x \o y \in Seq(Ks) /\ Len(x \o y) = Len(x) + Len(y) /\ Len(x) \in Nat
                              /\ DOMAIN (x \o y) = 1..Len(x \o y)
                              /\ \A i \in 1..Len(x \o y) : (x \o y)[i] = IF i <= Len(x) THEN x[i] ELSE y[i - Len(x)]
    OBVIOUS
  <2> QED BY <2>1, <2>2
<1> HIDE DEF u
<1>13. \A i \in 1..Len(keys) : keys[i] \in ToSet(keys)
  BY DEF ToSet
<1>14. ASSUME NEW i \in 1..Len(u), NEW j \in 1..Len(u), i < j PROVE <<u[i], u[j]>> \in K
  <2> DEFINE n == Len(keys)
  <2>1. n \in Nat /\ i \in Nat /\ j \in Nat
    BY <1>12
  <2>2. CASE j <= n
    <3>1. i \in 1..n /\ j \in 1..n /\ u[i] = keys[i] /\ u[j] = keys[j]
      BY <1>12, <1>14, <2>1, <2>2
    <3>2. \A g, h \in 1..n : g < h => <<keys[g], keys[h]>> \in K
      BY <1>d DEF Rising, K
    <3> QED BY <1>14, <3>1, <3>2
  <2>3. CASE ~(j <= n)
    <3>1. j - n \in 1..z /\ u[j] = ks[at[j - n]] /\ at[j - n] \in new
      <4>1. j - n \in 1..z
        BY <1>12, <2>1, <2>3
      <4>2. u[j] = t[j - n]
        BY <1>12, <2>3
      <4>3. t[j - n] = ks[at[j - n]] /\ at[j - n] \in new
        BY <1>10, <1>11, <4>1
      <4> QED BY <4>1, <4>2, <4>3
    <3>2. CASE i <= n
      <4>1. i \in 1..n /\ u[i] = keys[i]
        BY <1>12, <2>1, <3>2
      <4>2. u[i] \in ToSet(keys)
        BY <1>13, <4>1
      <4> QED BY <1>6, <3>1, <4>2
    <3>3. CASE ~(i <= n)
      <4>1. i - n \in 1..z /\ u[i] = ks[at[i - n]] /\ at[i - n] \in new
        <5>1. i - n \in 1..z
          BY <1>12, <2>1, <3>3
        <5>2. u[i] = t[i - n]
          BY <1>12, <3>3
        <5>3. t[i - n] = ks[at[i - n]] /\ at[i - n] \in new
          BY <1>10, <1>11, <5>1
        <5> QED BY <5>1, <5>2, <5>3
      <4>2. i - n < j - n
        BY <1>14, <2>1
      <4>3. at[i - n] < at[j - n]
        BY <1>p, <1>c, <3>1, <4>1, <4>2
      <4> QED BY <1>7, <3>1, <4>1, <4>3
    <3> QED BY <3>2, <3>3
  <2> QED BY <2>2, <2>3
<1>15. Rising(u, K)
  <2>1. DOMAIN u = 1..Len(u) /\ Len(u) \in Nat
    BY <1>12
  <2> QED BY <1>14, <2>1 DEF Rising
<1>16. ToSet(t) = {ks[j] : j \in new}
  <2>1. \A x : x \in ToSet(t) <=> \E i \in 1..z : x = t[i]
    BY <1>11 DEF ToSet
  <2>2. \A i \in 1..z : t[i] = ks[at[i]] /\ at[i] \in new
    BY <1>10, <1>11
  <2>3. ASSUME NEW j \in new PROVE ks[j] \in ToSet(t)
    <3>1. PICK i \in 1..z : at[i] = j
      BY <1>10
    <3>2. t[i] = ks[j]
      BY <2>2, <3>1
    <3> QED BY <2>1, <3>2
  <2>4. \A x : x \in ToSet(t) <=> \E j \in new : x = ks[j]
    <3>1. ASSUME NEW x, x \in ToSet(t) PROVE \E j \in new : x = ks[j]
      <4>1. PICK i \in 1..z : x = t[i]
        BY <2>1, <3>1
      <4> QED BY <2>2, <4>1
    <3> QED BY <2>3, <3>1
  <2> QED BY <2>4
<1>17. ToSet(u) = ToSet(keys) \cup {ks[j] : j \in new}
  <2>1. ToSet(u) = ToSet(keys) \cup ToSet(t)
    BY <1>k, <1>11, Joined DEF u
  <2> QED BY <1>16, <2>1
<1>18. ASSUME NEW j \in 1..(b - a) PROVE ks[j] \in ToSet(keys) \cup {ks[i] : i \in new}
  <2> DEFINE same == {i \in 1..(b - a) : ks[i] = ks[j]}
             l == b - a
  <2>1. 1 \in Int /\ l \in Int /\ same \in SUBSET (1..l) /\ j \in same
    BY <1>0
  <2>2. \A i : i \in same <=> i \in 1..(b - a) /\ ks[i] = ks[j]
    OBVIOUS
  <2> HIDE DEF l, same
  <2>3. IsFiniteSet(1..l)
    BY <2>1, FS_Interval
  <2>4. IsFiniteSet(same) /\ same \subseteq Int /\ same # {}
    <3>1. IsFiniteSet(same)
      BY <2>1, <2>3, FS_Subset
    <3>2. same \subseteq Int /\ same # {}
      BY <2>1
    <3> QED BY <3>1, <3>2
  <2>5. PICK i \in same : \A h \in same : i <= h
    <3>1. Min(same) \in same /\ \A h \in same : Min(same) <= h
      BY <2>4, Least
    <3> QED BY <3>1
  <2>6. i \in 1..(b - a) /\ ks[i] = ks[j]
    BY <2>2, <2>5
  <2>7. ASSUME NEW h \in 1..(i - 1), ks[i] = ks[h] PROVE FALSE
    <3>1. h \in 1..(b - a) /\ h \in Int /\ i \in Int /\ h < i
      BY <1>0, <2>6
    <3>2. h \in same
      BY <2>2, <2>6, <2>7, <3>1
    <3> QED BY <2>5, <3>1, <3>2
  <2>8. ks[i] \notin ToSet(keys) => i \in new
    BY <1>b, <2>6, <2>7
  <2> QED BY <2>6, <2>8
<1>19. ToSet(u) = ToSet(keys) \cup ToSet(ks)
  <2>1. \A x : x \in ToSet(ks) <=> \E i \in 1..(b - a) : x = ks[i]
    BY <1>e DEF ToSet
  <2>2. \A x : x \in ToSet(u) <=> x \in ToSet(keys) \/ \E j \in new : x = ks[j]
    BY <1>17
  <2>3. \A x : x \in ToSet(ks) => x \in ToSet(u)
    <3> SUFFICES ASSUME NEW i \in 1..(b - a) PROVE ks[i] \in ToSet(u)
      BY <2>1
    <3> QED BY <1>17, <1>18
  <2>4. \A x : x \in ToSet(u) => x \in ToSet(keys) \/ x \in ToSet(ks)
    BY <1>f, <2>1, <2>2
  <2> QED BY <2>2, <2>3, <2>4
<1>20. ToSet(u) = FirstKeys(M, R, key, c)
  <2>1. FirstKeys(M, R, key, k) \cup ToSet(ks) = FirstKeys(M, R, key, c)
    BY FirstsGrow
  <2> QED BY <1>d, <1>19, <2>1
<1> QED BY <1>12, <1>15, <1>20 DEF u, t, K, Ks, KeysUpTo, new

EntryRows == [kind : {"photo", "version"}, of : Nat \X Nat, n : Nat, key : Int]

Rel(f) == {x \in EntryRows \X EntryRows : Before(f, x[1], x[2])}

\* Before is an order of entries, the ties included.
LEMMA EntryOrder ==
  ASSUME NEW f, NEW E, E \subseteq EntryRows
  PROVE  StrictOrder(Rel(f), E)
<1>1. \A x, y \in E : <<x, y>> \in Rel(f) <=> Before(f, x, y)
  BY DEF Rel
<1>2. \A x \in E : /\ x.kind \in {"photo", "version"} /\ x.of[1] \in Nat /\ x.of[2] \in Nat
                   /\ x.n \in Nat /\ x.key \in Int /\ x.of = <<x.of[1], x.of[2]>>
                   /\ x = [kind |-> x.kind, of |-> x.of, n |-> x.n, key |-> x.key]
  BY DEF EntryRows
<1> DEFINE better(x, y) == IF f.descending \/ Searching(f) THEN x.key > y.key ELSE x.key < y.key
<1>3. /\ \A x \in E : ~better(x, x)
      /\ \A x, y, z \in E : /\ better(x, y) /\ (better(y, z) \/ y.key = z.key) => better(x, z)
                            /\ x.key = y.key /\ better(y, z) => better(x, z)
      /\ \A x, y \in E : better(x, y) \/ better(y, x) \/ x.key = y.key
  <2>1. CASE f.descending \/ Searching(f)
    BY <1>2, <2>1
  <2>2. CASE ~(f.descending \/ Searching(f))
    BY <1>2, <2>2
  <2> QED BY <2>1, <2>2
<1>4. /\ \A x \in E : ~Earlier(x, x)
      /\ \A x, y, z \in E : Earlier(x, y) /\ Earlier(y, z) => Earlier(x, z)
      /\ \A x, y \in E : Earlier(x, y) \/ Earlier(y, x) \/ (x.of = y.of /\ x.n = y.n)
  <2>1. \A x \in E : ~Earlier(x, x)
    BY <1>2 DEF Earlier
  <2>2. ASSUME NEW x \in E, NEW y \in E, NEW z \in E, Earlier(x, y), Earlier(y, z) PROVE Earlier(x, z)
    BY <1>2, <2>2 DEF Earlier
  <2>3. ASSUME NEW x \in E, NEW y \in E, ~Earlier(x, y), ~Earlier(y, x) PROVE x.of = y.of /\ x.n = y.n
    <3>1. x.of[1] = y.of[1] /\ x.of[2] = y.of[2]
      BY <1>2, <2>3 DEF Earlier
    <3>2. x.of = y.of
      BY <1>2, <3>1
    <3> QED BY <1>2, <2>3, <3>2 DEF Earlier
  <2> QED BY <2>1, <2>2, <2>3
<1>5. \A x, y \in E : Before(f, x, y) <=> \/ better(x, y)
                                          \/ x.key = y.key /\ x.kind = "photo" /\ y.kind = "version"
                                          \/ x.key = y.key /\ x.kind = y.kind /\ Earlier(x, y)
  BY DEF Before
<1> HIDE DEF better
<1>6. \A x \in E : ~Before(f, x, x)
  BY <1>3, <1>4, <1>5
<1>7. ASSUME NEW x \in E, NEW y \in E, NEW z \in E, Before(f, x, y), Before(f, y, z) PROVE Before(f, x, z)
  BY <1>3, <1>4, <1>5, <1>7
<1>8. ASSUME NEW x \in E, NEW y \in E, ~Before(f, x, y), ~Before(f, y, x) PROVE x = y
  <2>1. x.key = y.key
    BY <1>3, <1>5, <1>8
  <2>2. x.kind = y.kind
    BY <1>2, <1>5, <1>8, <2>1
  <2>3. x.of = y.of /\ x.n = y.n
    BY <1>4, <1>5, <1>8, <2>1, <2>2
  <2> QED BY <1>2, <2>1, <2>2, <2>3
<1> QED BY <1>1, <1>6, <1>7, <1>8 DEF StrictOrder

\* Order puts entries in it.
LEMMA InTheOrder ==
  ASSUME NEW f, NEW E, E \subseteq EntryRows, IsFiniteSet(E)
  PROVE  Arranged(Order(f, E), E, Rel(f))
<1> DEFINE R == Rel(f)
           s == Order(f, E)
           lower(e) == {d \in E : Before(f, d, e)}
<1>1. \A x, y \in E : <<x, y>> \in R <=> Before(f, x, y)
  BY DEF Rel
<1>2. s = [k \in 1..Cardinality(E) |-> CHOOSE e \in E : Cardinality(lower(e)) = k - 1]
  BY DEF Order, InOrder
<1>3. StrictOrder(R, E)
  BY EntryOrder
<1> HIDE DEF R, s
<1>4. \A e \in E : lower(e) = {d \in E : <<d, e>> \in R}
  BY <1>1
<1> HIDE DEF lower
<1>5. ASSUME NEW k \in 1..Cardinality(E), \E e \in E : Cardinality({d \in E : <<d, e>> \in R}) = k - 1
      PROVE  s[k] \in E /\ Cardinality({d \in E : <<d, s[k]>> \in R}) = k - 1
  <2>1. \E e \in E : Cardinality(lower(e)) = k - 1
    BY <1>4, <1>5
  <2>2. s[k] \in E /\ Cardinality(lower(s[k])) = k - 1
    BY <1>2, <2>1
  <2> QED BY <1>4, <2>2
<1>6. s = [k \in 1..Cardinality(E) |-> s[k]]
  BY <1>2
<1>7. Arranged(s, E, R)
  BY <1>3, <1>5, <1>6, Arranging
<1> QED BY <1>7 DEF s, R

\* What the versions are.
VersionsTyped == IsFiniteSet(version) /\ version \subseteq VersionRows

\* A filter is one of the user's or none.
LEMMA FilterTyped ==
  ASSUME NEW f \in Filters \cup {NoFilter}
  PROVE  f.query \in Pictures \cup {None} /\ f.similar \in Seq(Ids)
<1>1. CASE f \in Filters
  BY <1>1, FilterAssumption
<1>2. CASE f = NoFilter
  BY <1>2 DEF NoFilter
<1> QED BY <1>1, <1>2

\* Scores are numbers.
LEMMA ScoresTyped ==
  ASSUME VType, NEW f \in Filters \cup {NoFilter}, NEW p \in DOMAIN Scores(f)
  PROVE  Scores(f)[p] \in Int
<1>1. f.query \in Pictures \cup {None} /\ f.similar \in Seq(Ids)
  BY FilterTyped
<1>2. CASE f.query # None
  <2> DEFINE near == Closest(f.query, SearchMost)
             at   == index["semantic"]
  <2>1. Scores(f) = [q \in near |-> Alike[f.query][at[q]]]
    BY <1>2 DEF Scores
  <2>2. at \in Vectors0 /\ f.query \in Pictures
    BY <1>1, <1>2 DEF VType, Spaces
  <2>3. \A q \in near : q \in Ids /\ at[q] # None
    BY DEF Closest, Topmost, Indexed
  <2> HIDE DEF near, at
  <2>4. p \in near /\ Scores(f)[p] = Alike[f.query][at[p]]
    BY <2>1
  <2>5. at[p] \in Pictures
    BY <2>2, <2>3, <2>4 DEF Vectors0
  <2>6. Alike[f.query][at[p]] \in Nat
    BY <2>2, <2>5, AlikeAssumption
  <2> QED BY <2>4, <2>6
<1>3. CASE f.query = None
  <2> DEFINE first(q) == CHOOSE i \in DOMAIN f.similar : f.similar[i] = q
  <2>1. Scores(f) = [q \in ToSet(f.similar) |-> 1 + Len(f.similar) - first(q)]
    BY <1>3 DEF Scores
  <2>2. p \in ToSet(f.similar)
    BY <2>1
  <2>3. first(p) \in DOMAIN f.similar
    BY <2>2 DEF ToSet
  <2>4. Len(f.similar) \in Nat /\ DOMAIN f.similar = 1..Len(f.similar)
    BY <1>1
  <2>5. Scores(f)[p] = 1 + Len(f.similar) - first(p)
    BY <2>1, <2>2
  <2> HIDE DEF first
  <2> QED BY <2>3, <2>4, <2>5
<1> QED BY <1>2, <1>3

\* The instances of the filter are finite, and known.
LEMMA InstancesTyped ==
  ASSUME NEW f
  PROVE  /\ Instances(f) \subseteq OfInstance(f) /\ OfInstance(f) \subseteq Ids \X People
         /\ IsFiniteSet(OfInstance(f)) /\ IsFiniteSet(Instances(f))
<1>1. Instances(f) \in SUBSET OfInstance(f) /\ OfInstance(f) \in SUBSET (Ids \X People)
  BY DEF Instances, OfInstance, Live, There
<1>2. IsFiniteSet(Ids \X People)
  BY IdAssumption, FS_Product
<1> QED BY <1>1, <1>2, FS_Subset

\* What it is listed by is a number.
LEMMA KeyTyped ==
  ASSUME VType, NEW f \in Filters \cup {NoFilter}, NEW i \in Instances(f), NEW date \in Int
  PROVE  KeyOf(f, i[1], date) \in Int /\ i[1] \in Ids /\ i[2] \in People /\ photo[i[1]] \in PhotoRows
<1>1. i \in OfInstance(f) /\ i[1] \in OfPhoto(f)
  BY DEF Instances
<1>2. i[1] \in Live /\ i[2] \in People
  BY <1>1 DEF OfInstance
<1>3. i[1] \in Ids /\ photo[i[1]] \in PhotoRows
  BY <1>2 DEF Live, There, VType
<1>4. Searching(f) => Scores(f)[i[1]] \in Int
  <2>1. Searching(f) => i[1] \in DOMAIN Scores(f)
    BY <1>1 DEF OfPhoto
  <2> QED BY <2>1, ScoresTyped
<1>5. SizeOf[photo[i[1]].pic] \in Int
  BY <1>3, ValueAssumption DEF PhotoRows
<1> QED BY <1>2, <1>3, <1>4, <1>5 DEF KeyOf

\* What matches is a finite set of entries, photos and versions apart.
LEMMA MatchingTyped ==
  ASSUME VType, VersionsTyped, NEW f \in Filters \cup {NoFilter}
  PROVE  /\ Photos(f) \subseteq EntryRows /\ Versions(f) \subseteq EntryRows /\ Matching(f) \subseteq EntryRows
         /\ IsFiniteSet(Photos(f)) /\ Cardinality(Photos(f)) <= Cardinality(Instances(f))
         /\ IsFiniteSet(Versions(f))
         /\ IsFiniteSet({w \in version : w.of \in Instances(f)})
         /\ Cardinality(Versions(f)) <= Cardinality({w \in version : w.of \in Instances(f)})
         /\ IsFiniteSet(Matching(f)) /\ Cardinality(Matching(f)) = Cardinality(Photos(f)) + Cardinality(Versions(f))
<1> DEFINE P(i) == [kind |-> "photo", of |-> i, n |-> 0, key |-> KeyOf(f, i[1], DateOf[photo[i[1]].pic])]
           V(v) == [kind |-> "version", of |-> v.of, n |-> v.n, key |-> KeyOf(f, v.of[1], v.date)]
           I == Instances(f)
           W == {w \in version : w.of \in I}
<1>1. Photos(f) = {P(i) : i \in I} /\ Versions(f) = {V(v) : v \in W}
  BY DEF Photos, Versions
<1>2. /\ \A i \in I : i \in Nat \X Nat
      /\ \A v \in W : v.of \in Nat \X Nat /\ v.n \in Nat
  <2>1. I \subseteq Ids \X People
    BY InstancesTyped
  <2>2. Ids \subseteq Nat /\ People \subseteq Nat
    BY IdAssumption
  <2>3. \A i \in I : i \in Nat \X Nat
    BY <2>1, <2>2
  <2>4. \A v \in W : v.of \in I /\ v.n \in Nat
    BY DEF VersionsTyped, VersionRows
  <2> HIDE DEF I, W
  <2> QED BY <2>3, <2>4
<1>3. \A i \in I : P(i) \in EntryRows
  <2> TAKE i \in I
  <2>1. photo[i[1]] \in PhotoRows
    <3>1. 0 \in Int
      OBVIOUS
    <3> QED BY <3>1, KeyTyped
  <2>2. DateOf[photo[i[1]].pic] \in Int
    BY <2>1, ValueAssumption DEF PhotoRows
  <2>3. KeyOf(f, i[1], DateOf[photo[i[1]].pic]) \in Int
    BY <2>2, KeyTyped
  <2> QED BY <1>2, <2>3 DEF EntryRows
<1>4. \A v \in W : V(v) \in EntryRows
  <2> TAKE v \in W
  <2>1. v.date \in Int /\ v.of \in I
    BY DEF VersionsTyped, VersionRows
  <2>2. KeyOf(f, v.of[1], v.date) \in Int
    BY <2>1, KeyTyped
  <2> QED BY <1>2, <2>2 DEF EntryRows
<1>5. IsFiniteSet(I) /\ IsFiniteSet(W)
  <2>1. W \in SUBSET version
    OBVIOUS
  <2> QED BY <2>1, InstancesTyped, FS_Subset DEF VersionsTyped
<1>6. \A x \in Photos(f), y \in Versions(f) : x # y
  <2>1. \A x \in Photos(f) : x.kind = "photo"
    BY <1>1
  <2>2. \A x \in Versions(f) : x.kind = "version"
    BY <1>1
  <2> QED BY <2>1, <2>2
<1>7. Photos(f) \subseteq EntryRows /\ Versions(f) \subseteq EntryRows
  BY <1>1, <1>3, <1>4
<1>8. IsFiniteSet(Photos(f)) /\ Cardinality(Photos(f)) <= Cardinality(I)
  <2> DEFINE g == [i \in I |-> P(i)]
  <2>1. g \in [I -> Photos(f)] /\ \A x \in Photos(f) : \E i \in I : g[i] = x
    BY <1>1
  <2> HIDE DEF g, I
  <2>2. g \in Surjection(I, Photos(f))
    BY <2>1 DEF Surjection
  <2> QED BY <1>5, <2>2, FS_Surjection
<1>9. IsFiniteSet(Versions(f)) /\ Cardinality(Versions(f)) <= Cardinality(W)
  <2> DEFINE g == [v \in W |-> V(v)]
  <2>1. g \in [W -> Versions(f)] /\ \A x \in Versions(f) : \E v \in W : g[v] = x
    BY <1>1
  <2> HIDE DEF g, W
  <2>2. g \in Surjection(W, Versions(f))
    BY <2>1 DEF Surjection
  <2> QED BY <1>5, <2>2, FS_Surjection
<1>10. IsFiniteSet(Matching(f)) /\ Cardinality(Matching(f)) = Cardinality(Photos(f)) + Cardinality(Versions(f))
  <2>1. Photos(f) \cap Versions(f) = {} /\ Matching(f) = Photos(f) \cup Versions(f)
    BY <1>6 DEF Matching
  <2>2. /\ IsFiniteSet(Photos(f) \cup Versions(f))
        /\ Cardinality(Photos(f) \cup Versions(f)) =
              Cardinality(Photos(f)) + Cardinality(Versions(f)) - Cardinality(Photos(f) \cap Versions(f))
    BY <1>8, <1>9, FS_Union
  <2>3. Cardinality(Photos(f) \cap Versions(f)) = 0
    BY <2>1, FS_EmptySet
  <2>4. Cardinality(Photos(f)) \in Nat /\ Cardinality(Versions(f)) \in Nat
    BY <1>8, <1>9, FS_CardinalityType
  <2> QED BY <2>1, <2>2, <2>3, <2>4
<1> QED BY <1>5, <1>7, <1>8, <1>9, <1>10 DEF Matching

\* The backend's count is enough, also where it leaves the photos' conditions out.
LEMMA TotalEnough ==
  ASSUME VType, VersionsTyped, NEW f \in Filters \cup {NoFilter}
  PROVE  Total(f) \in Nat /\ Cardinality(Matching(f)) \in Nat /\ Cardinality(Matching(f)) <= Total(f)
<1>1. /\ Cardinality(Photos(f)) \in Nat /\ Cardinality(Versions(f)) \in Nat /\ Cardinality(Instances(f)) \in Nat
      /\ Cardinality({w \in version : w.of \in Instances(f)}) \in Nat
  BY MatchingTyped, InstancesTyped, FS_CardinalityType
<1>2. CASE Touches(f)
  BY <1>1, <1>2, MatchingTyped DEF Total
<1>3. CASE ~Touches(f)
  <2>1. f.sources = {} /\ f.labels = {} /\ ~Searching(f)
    BY <1>3 DEF Touches
  <2>3. OfPhoto(f) = Live
    BY <2>1 DEF OfPhoto, HasLabels
  <2>4. Instances(f) = OfInstance(f)
    BY <2>3 DEF Instances, OfInstance
  <2>5. Total(f) = Cardinality(Instances(f)) + Cardinality({w \in version : w.of \in Instances(f)})
    BY <1>3, <2>4 DEF Total
  <2>6. /\ Cardinality(Matching(f)) = Cardinality(Photos(f)) + Cardinality(Versions(f))
        /\ Cardinality(Photos(f)) <= Cardinality(Instances(f))
        /\ Cardinality(Versions(f)) <= Cardinality({w \in version : w.of \in Instances(f)})
    BY MatchingTyped
  <2> QED BY <1>1, <2>5, <2>6
<1> QED BY <1>2, <1>3

\* What a page shows is the same part of the whole list, although it is cut out of less.
LEMMA PageIsPart ==
  ASSUME VType, VersionsTyped, NEW f \in Filters \cup {NoFilter}, NEW n \in Nat \ {0},
         NEW s, s = Order(f, Matching(f)), NEW a, a = (n - 1) * PageSize,
         NEW k, k = n * PageSize, NEW b, b = IF k <= Len(s) THEN k ELSE Len(s)
  PROVE  /\ a \in Nat /\ k \in Nat /\ a <= k /\ b \in Nat /\ b <= Len(s)
         /\ DOMAIN PageOf(f, n) = 1..(b - a)
         /\ \A i \in 1..(b - a) : PageOf(f, n)[i] = s[a + i]
<1> DEFINE M   == Matching(f)
           R   == Rel(f)
           all == Merged(f, n)
<1>1. IsFiniteSet(M) /\ M \subseteq EntryRows /\ Arranged(s, M, R) /\ StrictOrder(R, M)
  BY MatchingTyped, InTheOrder, EntryOrder
<1>2. Len(s) \in Nat /\ s \in Seq(M)
  BY <1>1 DEF Arranged
<1>3. a \in Nat /\ k \in Nat /\ a <= k
  <2>1. PageSize \in Nat /\ PageSize > 0 /\ n \in Nat /\ n > 0
    BY PageAssumption
  <2>2. k = a + PageSize /\ a \in Nat
    BY <2>1
  <2> QED BY <2>1, <2>2
<1> HIDE DEF M, R, all
<1>4. /\ all \in Seq(M) /\ Len(all) \in Nat /\ Len(all) <= Len(s)
      /\ \A j \in 1..Len(s) : j <= k => j <= Len(all) /\ all[j] = s[j]
  <2>1. CASE Searching(f)
    <3>1. all = s
      BY <2>1 DEF Merged, all
    <3> QED BY <1>2, <3>1
  <2>2. CASE ~Searching(f)
    <3> DEFINE P == Photos(f)
               V == Versions(f)
               U == ToSet(Top(Order(f, P), k)) \cup ToSet(Top(Order(f, V), k))
    <3>1. all = Order(f, U)
      BY <2>2 DEF Merged, all
    <3>2. /\ P \subseteq EntryRows /\ IsFiniteSet(P) /\ V \subseteq EntryRows /\ IsFiniteSet(V) /\ M = P \cup V
      BY MatchingTyped DEF Matching, M
    <3> HIDE DEF P, V
    <3>3. /\ Arranged(Order(f, P), P, R) /\ StrictOrder(R, P)
          /\ Arranged(Order(f, V), V, R) /\ StrictOrder(R, V)
      BY <3>2, InTheOrder, EntryOrder DEF R
    <3>4. /\ ToSet(Top(Order(f, P), k)) = FirstOf(P, R, k)
          /\ ToSet(Top(Order(f, V), k)) = FirstOf(V, R, k)
      BY <1>3, <3>2, <3>3, FirstOfOrder
    <3>5. U = FirstOf(P, R, k) \cup FirstOf(V, R, k)
      BY <3>4
    <3> HIDE DEF U
    <3>6. U \in SUBSET M
      BY <3>2, <3>5 DEF FirstOf
    <3>7. IsFiniteSet(U) /\ U \subseteq EntryRows
      BY <1>1, <3>6, FS_Subset
    <3>8. Arranged(all, U, R)
      BY <3>1, <3>7, InTheOrder DEF R
    <3>9. /\ Len(all) \in Nat /\ Len(all) <= Len(s)
          /\ \A j \in 1..Len(s) : j <= k => j <= Len(all) /\ all[j] = s[j]
      <4>1. IsFiniteSet(P \cup V) /\ StrictOrder(R, P \cup V) /\ Arranged(s, P \cup V, R)
        BY <1>1, <3>2
      <4>2. Arranged(all, FirstOf(P, R, k) \cup FirstOf(V, R, k), R)
        BY <3>5, <3>8
      <4>3. Begins(all, s, k)
        BY <1>3, <4>1, <4>2, FirstOfBoth
      <4> QED BY <4>3 DEF Begins
    <3>10. all \in Seq(M)
      <4>1. all \in Seq(U)
        BY <3>8 DEF Arranged
      <4> QED BY <3>6, <4>1
    <3> QED BY <3>9, <3>10
  <2> QED BY <2>1, <2>2
<1>5. b \in Nat /\ b <= Len(s) /\ b <= k /\ b <= Len(all)
  <2>1. b \in Nat /\ b <= Len(s) /\ b <= k
    BY <1>2, <1>3
  <2>2. b \in 1..Len(s) \/ b = 0
    BY <1>2, <2>1
  <2> QED BY <1>4, <2>1, <2>2
<1>6. Min({k, Len(all)}) = b
  <2>1. Min({k, Len(all)}) = IF k <= Len(all) THEN k ELSE Len(all)
    BY <1>3, <1>4, Smaller
  <2> QED BY <1>2, <1>3, <1>4, <1>5, <2>1
<1>7. PageOf(f, n) = SubSeq(all, a + 1, b)
  BY <1>6 DEF PageOf, all
<1>8. DOMAIN PageOf(f, n) = 1..(b - a) /\ \A i \in 1..(b - a) : PageOf(f, n)[i] = all[a + i]
  <2>1. /\ DOMAIN SubSeq(all, a + 1, b) = 1..(b - a)
        /\ \A i \in 1..(b - a) : SubSeq(all, a + 1, b)[i] = all[a + i]
    BY <1>3, <1>4, <1>5, Part
  <2> QED BY <1>7, <2>1
<1>9. ASSUME NEW i \in 1..(b - a) PROVE PageOf(f, n)[i] = s[a + i]
  <2>1. a + i \in 1..Len(s) /\ a + i <= k
    BY <1>2, <1>3, <1>5
  <2> QED BY <1>4, <1>8, <2>1
<1> QED BY <1>3, <1>5, <1>8, <1>9

\* The keys the page has are those of the first k of M, in their order.
KeysOf(M) == [e \in M |-> Key(e)]
KeysTo(M, f, keys, k) == KeysUpTo(M, Rel(f), KeysOf(M), keys, k)

\* At the beginning it has none.
LEMMA NoKeys ==
  ASSUME NEW M, IsFiniteSet(M), NEW f
  PROVE  KeysTo(M, f, <<>>, 0)
<1>1. \A e \in M : Place(Rel(f), M)[e] \in Nat
  BY PartPlace
<1>2. FirstKeys(M, Rel(f), KeysOf(M), 0) = {}
  BY <1>1 DEF FirstKeys, FirstOf
<1>3. ToSet(<<>>) = {}
  BY DEF ToSet
<1>4. Rising(<<>>, KeyOrder(M, Rel(f), KeysOf(M)))
  <2>1. DOMAIN <<>> = 1..Len(<<>>) /\ Len(<<>>) = 0
    OBVIOUS
  <2> QED BY <2>1 DEF Rising
<1>5. <<>> \in Seq(AllKeys(M, KeysOf(M)))
  OBVIOUS
<1> QED BY <1>2, <1>3, <1>4, <1>5 DEF KeysTo, KeysUpTo

\* Entries a+1 to b of s.
PartFrom(entries, s, a, b) == DOMAIN entries = 1..(b - a) /\ \A i \in 1..(b - a) : entries[i] = s[a + i]

\* Entries a+1 to b of the list are put to the keys of the first k.
LEMMA EntriesAdd ==
  ASSUME NEW f, NEW M, M \subseteq EntryRows, IsFiniteSet(M), NEW s, s = Order(f, M),
         NEW keys, NEW entries, NEW a, NEW b, NEW k, NEW c,
         KeysTo(M, f, keys, k), Span(s, a, b, k, c), PartFrom(entries, s, a, b)
  PROVE  KeysTo(M, f, With(keys, entries), c)
<1> DEFINE R   == Rel(f)
           key == KeysOf(M)
           ks  == [j \in DOMAIN entries |-> Key(entries[j])]
           new == Unseen(ks, keys)
           old == {j \in DOMAIN entries : Key(entries[j]) \notin ToSet(keys) \cup {Key(entries[i]) : i \in 1..(j - 1)}}
<1>1. StrictOrder(R, M) /\ Arranged(s, M, R)
  BY EntryOrder, InTheOrder
<1>0. DOMAIN entries = 1..(b - a) /\ \A i \in 1..(b - a) : entries[i] = s[a + i]
  BY DEF PartFrom
<1>2. b <= Len(s) /\ Len(s) \in Nat /\ a \in Nat /\ b \in Nat
  <2>1. Len(s) \in Nat
    BY <1>1 DEF Arranged
  <2> QED BY <2>1 DEF Span
<1>3. \A i \in 1..(b - a) : s[a + i] \in M
  <2>1. \A i \in 1..(b - a) : a + i \in 1..Len(s)
    BY <1>2
  <2>2. \A i \in 1..Len(s) : s[i] \in M
    BY <1>1 DEF Arranged
  <2> QED BY <2>1, <2>2
<1>4. DOMAIN ks = 1..(b - a) /\ \A i \in 1..(b - a) : ks[i] = Key(entries[i]) /\ ks[i] = key[s[a + i]]
  BY <1>0, <1>3 DEF KeysOf
<1>5. old = new
  <2> DEFINE had(j) == {Key(entries[i]) : i \in 1..(j - 1)}
             hadk(j) == {ks[i] : i \in 1..(j - 1)}
  <2>1. ASSUME NEW j \in 1..(b - a) PROVE had(j) = hadk(j)
    <3>1. \A i \in 1..(j - 1) : i \in 1..(b - a)
      BY <1>2
    <3>2. \A i \in 1..(j - 1) : ks[i] = Key(entries[i])
      BY <1>4, <3>1
    <3> QED BY <3>2
  <2>2. new = {j \in 1..(b - a) : ks[j] \notin ToSet(keys) \cup hadk(j)}
    BY <1>4 DEF Unseen, Elements
  <2>3. old = {j \in 1..(b - a) : Key(entries[j]) \notin ToSet(keys) \cup had(j)}
    BY <1>0
  <2> HIDE DEF had, hadk, ks, new, old
  <2> QED BY <1>4, <2>1, <2>2, <2>3
<1>6. With(keys, entries) = keys \o Those(ks, new)
  <2>1. With(keys, entries) = keys \o Those(ks, old)
    BY DEF With
  <2> QED BY <1>5, <2>1
<1> HIDE DEF R, key, ks, old
<1>7. KeysUpTo(M, R, key, keys, k)
  BY DEF KeysTo, R, key
<1>8. CutOut(ks, s, key, a, b, k, c)
  BY <1>4 DEF CutOut
<1>9. KeysUpTo(M, R, key, keys \o Those(ks, Unseen(ks, keys)), c)
  BY <1>1, <1>7, <1>8, GoesOn
<1> QED BY <1>6, <1>9 DEF KeysTo, R, key

\* With as many entries as there are, these are all keys, and there is one order of them.
LEMMA Settled ==
  ASSUME NEW f, NEW M, M \subseteq EntryRows, IsFiniteSet(M), NEW keys, NEW k \in Nat,
         KeysTo(M, f, keys, k), Cardinality(M) <= k
  PROVE  keys = With(<<>>, Order(f, M))
<1> DEFINE s == Order(f, M)
           t == With(<<>>, s)
           key == KeysOf(M)
           L == KeyOrder(M, Rel(f), key)
           Ks == AllKeys(M, key)
<1>1. StrictOrder(Rel(f), M) /\ Arranged(s, M, Rel(f))
  BY EntryOrder, InTheOrder
<1>2. Len(s) = Cardinality(M) /\ Len(s) \in Nat /\ DOMAIN s = 1..Len(s)
  BY <1>1, FS_CardinalityType DEF Arranged
<1>3. KeysTo(M, f, t, k)
  <2>1. KeysTo(M, f, <<>>, 0)
    BY NoKeys
  <2>2. Span(s, 0, Len(s), 0, k)
    <3>1. k \in Nat /\ Len(s) = IF k <= Len(s) THEN k ELSE Len(s)
      BY <1>2
    <3> QED BY <3>1 DEF Span
  <2>3. PartFrom(s, s, 0, Len(s))
    <3>1. Len(s) - 0 = Len(s) /\ \A i \in 1..Len(s) : 0 + i = i
      BY <1>2
    <3> QED BY <1>2, <3>1 DEF PartFrom
  <2> HIDE DEF s
  <2>4. s = Order(f, M)
    BY DEF s
  <2> QED BY <2>1, <2>2, <2>3, <2>4, EntriesAdd
<1>4. /\ \A x \in Ks : <<x, x>> \notin L
      /\ \A x, y, z \in Ks : <<x, y>> \in L /\ <<y, z>> \in L => <<x, z>> \in L
  BY <1>1, KeysOrdered
<1> HIDE DEF s, t, key, L, Ks
<1>5. ToSet(keys) = ToSet(t) /\ Rising(keys, L) /\ Rising(t, L) /\ keys \in Seq(Ks) /\ t \in Seq(Ks)
  BY <1>3 DEF KeysTo, KeysUpTo, L, Ks, key
<1>6. \A x \in ToSet(keys) : x \in Ks
  BY <1>5 DEF ToSet
<1>7. keys = [i \in DOMAIN keys |-> keys[i]] /\ t = [i \in DOMAIN t |-> t[i]]
  BY <1>5
<1>8. /\ \A x \in ToSet(keys) : <<x, x>> \notin L
      /\ \A x, y, z \in ToSet(keys) : <<x, y>> \in L /\ <<y, z>> \in L => <<x, z>> \in L
  BY <1>4, <1>6
<1>9. keys = t
  BY <1>5, <1>7, <1>8, OneOrder
<1> QED BY <1>9 DEF s, t

\* The scores are those of the index.
LEMMA ScoresSame ==
  ASSUME NEW CONSTANT f, index' = index
  PROVE  Scores(f)' = Scores(f)
BY DEF Scores, Closest, Topmost, Nearer, Indexed

\* The labels of a photo are those of the catalog and of the job's rows.
LEMMA LabelsSame ==
  ASSUME NEW CONSTANT p, NEW CONSTANT labels, class' = class, label' = label
  PROVE  HasLabels(p, labels)' <=> HasLabels(p, labels)
BY DEF HasLabels, LabelsOf

\* Where instances go and pictures stay, the list loses the entries of those instances.
LEMMA ListFrom ==
  ASSUME NEW CONSTANT f, index' = index, version' = version,
         Instances(f)' \subseteq Instances(f), \A i \in Instances(f)' : photo'[i[1]].pic = photo[i[1]].pic
  PROVE  Matching(f)' = {e \in Matching(f) : e.of \in Instances(f)'}
<1> DEFINE P(i) == [kind |-> "photo", of |-> i, n |-> 0, key |-> KeyOf(f, i[1], DateOf[photo[i[1]].pic])]
           V(v) == [kind |-> "version", of |-> v.of, n |-> v.n, key |-> KeyOf(f, v.of[1], v.date)]
           P2(i) == [kind |-> "photo", of |-> i, n |-> 0, key |-> KeyOf(f, i[1], DateOf[photo[i[1]].pic])']
           V2(v) == [kind |-> "version", of |-> v.of, n |-> v.n, key |-> KeyOf(f, v.of[1], v.date)']
           I == Instances(f)
           J == Instances(f)'
<1>1. Scores(f)' = Scores(f)
  BY ScoresSame
<1>2. ASSUME NEW CONSTANT i \in J, NEW CONSTANT date PROVE KeyOf(f, i[1], date)' = KeyOf(f, i[1], date)
  <2>1. photo'[i[1]].pic = photo[i[1]].pic
    OBVIOUS
  <2> HIDE DEF J
  <2> QED BY <1>1, <2>1 DEF KeyOf
<1>3. \A i \in J : P2(i) = P(i)
  <2> SUFFICES ASSUME NEW CONSTANT i \in J PROVE P2(i) = P(i)
    OBVIOUS
  <2>1. photo'[i[1]].pic = photo[i[1]].pic
    OBVIOUS
  <2> HIDE DEF J
  <2>2. KeyOf(f, i[1], DateOf[photo[i[1]].pic])' = KeyOf(f, i[1], DateOf[photo[i[1]].pic])
    BY <1>1, <2>1 DEF KeyOf
  <2> QED BY <2>2
<1>4. \A v : v.of \in J => V2(v) = V(v)
  <2> SUFFICES ASSUME NEW CONSTANT v, v.of \in J PROVE V2(v) = V(v)
    OBVIOUS
  <2>1. KeyOf(f, v.of[1], v.date)' = KeyOf(f, v.of[1], v.date)
    BY <1>2
  <2> QED BY <2>1
<1>5. Matching(f) = {P(i) : i \in I} \cup {V(v) : v \in {w \in version : w.of \in I}}
  BY DEF Matching, Photos, Versions
<1>6. Matching(f)' = {P2(i) : i \in J} \cup {V2(v) : v \in {w \in version : w.of \in J}}
  BY DEF Matching, Photos, Versions
<1>7. /\ \A i : P(i).of = i
      /\ \A v : V(v).of = v.of
  OBVIOUS
<1>8. J \subseteq I
  OBVIOUS
<1> HIDE DEF P, V, P2, V2, I, J
<1>9. \A e : e \in Matching(f)' <=> \/ \E i \in J : e = P(i)
                                    \/ \E v \in version : v.of \in J /\ e = V(v)
  BY <1>3, <1>4, <1>6
<1>10. \A e : e \in Matching(f) <=> \/ \E i \in I : e = P(i)
                                    \/ \E v \in version : v.of \in I /\ e = V(v)
  BY <1>5
<1>11. \A e : e \in Matching(f)' <=> e \in Matching(f) /\ e.of \in J
  BY <1>7, <1>8, <1>9, <1>10
<1> QED BY <1>11 DEF J

\* What is listed is of an instance.
LEMMA ListedOf ==
  ASSUME NEW f, NEW e \in Matching(f)
  PROVE  e.of \in Instances(f)
BY DEF Matching, Photos, Versions

\* Photos that keep their picture, their people and, if it is asked for, their hearts leave the list as it is.
LEMMA SameList ==
  ASSUME NEW CONSTANT f, index' = index, version' = version, class' = class, label' = label,
         \A q \in Ids : /\ photo'[q] # None <=> photo[q] # None
                        /\ photo'[q].pic = photo[q].pic /\ photo'[q].people = photo[q].people
                        /\ f.favourite # None => photo'[q].favourite = photo[q].favourite
  PROVE  Matching(f)' = Matching(f)
<1>1. Live' = Live /\ Live \subseteq Ids
  BY DEF Live, There
<1>2. OfInstance(f)' = OfInstance(f)
  <2> DEFINE A(i) == /\ i[2] \in photo[i[1]].people
                     /\ f.favourite # None => f.favourite = (i[2] \in photo[i[1]].favourite)
                     /\ f.person # None => f.person = i[2]
             B(i) == /\ i[2] \in photo'[i[1]].people
                     /\ f.favourite # None => f.favourite = (i[2] \in photo'[i[1]].favourite)
                     /\ f.person # None => f.person = i[2]
  <2>1. \A i \in Live \X People : A(i) <=> B(i)
    BY <1>1
  <2>2. OfInstance(f) = {i \in Live \X People : A(i)} /\ OfInstance(f)' = {i \in Live \X People : B(i)}
    BY <1>1 DEF OfInstance
  <2> HIDE DEF A, B
  <2> QED BY <2>1, <2>2
<1>3. OfPhoto(f)' = OfPhoto(f)
  <2> DEFINE A(q) == /\ f.sources # {} => SourceOf[photo[q].pic] \in f.sources
                     /\ HasLabels(q, f.labels)
                     /\ Searching(f) => q \in DOMAIN Scores(f)
             B(q) == /\ f.sources # {} => SourceOf[photo'[q].pic] \in f.sources
                     /\ HasLabels(q, f.labels)'
                     /\ Searching(f) => q \in DOMAIN Scores(f)'
  <2>1. ASSUME NEW CONSTANT q \in Live PROVE A(q) <=> B(q)
    <3>1. photo'[q].pic = photo[q].pic
      BY <1>1
    <3>2. HasLabels(q, f.labels)' <=> HasLabels(q, f.labels)
      BY LabelsSame
    <3>3. Scores(f)' = Scores(f)
      BY ScoresSame
    <3> QED BY <3>1, <3>2, <3>3
  <2>2. OfPhoto(f) = {q \in Live : A(q)} /\ OfPhoto(f)' = {q \in Live : B(q)}
    BY <1>1 DEF OfPhoto
  <2>3. \A q \in Live : A(q) <=> B(q)
    BY <2>1
  <2> HIDE DEF A, B
  <2> QED BY <2>2, <2>3
<1>4. Instances(f)' = Instances(f)
  BY <1>2, <1>3 DEF Instances
<1>5. \A i \in Instances(f)' : photo'[i[1]].pic = photo[i[1]].pic
  <2>1. \A i \in Instances(f) : i[1] \in Ids
    BY <1>1 DEF Instances, OfInstance
  <2> QED BY <1>4, <2>1
<1>6. Matching(f)' = {e \in Matching(f) : e.of \in Instances(f)'}
  BY <1>4, <1>5, ListFrom
<1>7. \A e \in Matching(f) : e.of \in Instances(f)'
  BY <1>4, ListedOf
<1> QED BY <1>6, <1>7

\* A photo goes, with its last instance, which no version is of: so does its entry, and no other.
LEMMA TrashedList ==
  ASSUME VType, NEW CONSTANT f, NEW CONSTANT p \in Live, NEW CONSTANT who, photo[p].people = {who},
         photo' = [photo EXCEPT ![p].people = @ \ {who}],
         index' = index, version' = version, class' = class, label' = label,
         \A v \in version : v.of # <<p, who>>
  PROVE  Matching(f)' = {e \in Matching(f) : Key(e) # <<"photo", p>>}
<1>1. p \in Ids /\ photo[p] \in PhotoRows /\ Live \subseteq Ids
  BY DEF Live, There, VType
<1>2. /\ \A q \in Ids : q # p => photo'[q] = photo[q]
      /\ photo'[p].people = {}
  BY <1>1 DEF VType, PhotoRows
<1>3. Live' = Live \ {p}
  <2>1. \A q \in Ids : q # p => (q \in Live' <=> q \in Live)
    BY <1>2 DEF Live, There
  <2>2. p \notin Live' /\ Live' \subseteq Ids
    BY <1>2 DEF Live, There
  <2> QED BY <1>1, <2>1, <2>2
<1>4. OfInstance(f)' = {i \in OfInstance(f) : i[1] # p}
  <2> DEFINE A(i) == /\ i[2] \in photo[i[1]].people
                     /\ f.favourite # None => f.favourite = (i[2] \in photo[i[1]].favourite)
                     /\ f.person # None => f.person = i[2]
             B(i) == /\ i[2] \in photo'[i[1]].people
                     /\ f.favourite # None => f.favourite = (i[2] \in photo'[i[1]].favourite)
                     /\ f.person # None => f.person = i[2]
  <2>1. \A i \in (Live \ {p}) \X People : A(i) <=> B(i)
    BY <1>1, <1>2
  <2>2. OfInstance(f) = {i \in Live \X People : A(i)} /\ OfInstance(f)' = {i \in (Live \ {p}) \X People : B(i)}
    BY <1>3 DEF OfInstance
  <2>3. \A i : i \in (Live \ {p}) \X People <=> i \in Live \X People /\ i[1] # p
    OBVIOUS
  <2> HIDE DEF A, B
  <2> QED BY <2>1, <2>2, <2>3
<1>5. OfPhoto(f)' = OfPhoto(f) \ {p}
  <2> DEFINE A(q) == /\ f.sources # {} => SourceOf[photo[q].pic] \in f.sources
                     /\ HasLabels(q, f.labels)
                     /\ Searching(f) => q \in DOMAIN Scores(f)
             B(q) == /\ f.sources # {} => SourceOf[photo'[q].pic] \in f.sources
                     /\ HasLabels(q, f.labels)'
                     /\ Searching(f) => q \in DOMAIN Scores(f)'
  <2>1. ASSUME NEW CONSTANT q \in Live \ {p} PROVE A(q) <=> B(q)
    <3>1. photo'[q].pic = photo[q].pic
      BY <1>1, <1>2
    <3>2. HasLabels(q, f.labels)' <=> HasLabels(q, f.labels)
      BY LabelsSame
    <3>3. Scores(f)' = Scores(f)
      BY ScoresSame
    <3> QED BY <3>1, <3>2, <3>3
  <2>2. OfPhoto(f) = {q \in Live : A(q)} /\ OfPhoto(f)' = {q \in Live \ {p} : B(q)}
    BY <1>3 DEF OfPhoto
  <2>3. \A q \in Live \ {p} : A(q) <=> B(q)
    BY <2>1
  <2> HIDE DEF A, B
  <2> QED BY <2>2, <2>3
<1>6. Instances(f)' = {i \in Instances(f) : i[1] # p}
  BY <1>4, <1>5 DEF Instances
<1>7. \A i \in Instances(f)' : photo'[i[1]].pic = photo[i[1]].pic
  <2>1. \A i \in Instances(f) : i[1] \in Ids
    BY <1>1 DEF Instances, OfInstance
  <2> QED BY <1>2, <1>6, <2>1
<1>8. Matching(f)' = {e \in Matching(f) : e.of \in Instances(f)'}
  BY <1>6, <1>7, ListFrom
<1>9. \A e \in Matching(f) : e.of \in Instances(f)' <=> e.of[1] # p
  BY <1>6, ListedOf
<1>10. ASSUME NEW e \in Matching(f) PROVE e.of[1] # p <=> Key(e) # <<"photo", p>>
  <2>1. CASE e \in Photos(f)
    <3>1. e.kind = "photo"
      BY <2>1 DEF Photos
    <3> QED BY <3>1 DEF Key
  <2>2. CASE e \in Versions(f)
    <3>1. e.kind = "version" /\ \E v \in version : v.of = e.of
      BY <2>2 DEF Versions
    <3>2. Key(e) # <<"photo", p>>
      BY <3>1 DEF Key
    <3>3. e.of[1] # p
      <4>1. e.of \in OfInstance(f)
        BY ListedOf DEF Instances
      <4>2. e.of = <<e.of[1], e.of[2]>> /\ e.of[2] \in photo[e.of[1]].people
        BY <4>1 DEF OfInstance
      <4>3. e.of # <<p, who>>
        BY <3>1
      <4> QED BY <4>2, <4>3
    <3> QED BY <3>2, <3>3
  <2> QED BY <2>1, <2>2 DEF Matching
<1> QED BY <1>8, <1>9, <1>10

\* As many as there are, and more, are all.
LEMMA AllFirst ==
  ASSUME NEW M, IsFiniteSet(M), NEW R, StrictOrder(R, M), NEW key, NEW c \in Nat, Cardinality(M) <= c
  PROVE  FirstKeys(M, R, key, c) = AllKeys(M, key)
<1>1. Cardinality(M) \in Nat
  BY FS_CardinalityType
<1>2. \A e \in M : Place(R, M)[e] \in 0..Cardinality(M) - 1
  BY Places DEF Bijection, Surjection
<1>3. \A e \in M : Place(R, M)[e] < c
  BY <1>1, <1>2
<1>4. FirstOf(M, R, c) = M
  BY <1>3 DEF FirstOf
<1> QED BY <1>4 DEF FirstKeys, AllKeys

\* The keys but for x.
Without(keys, x) == Those(keys, {j \in DOMAIN keys : keys[j] # x})

\* An entry goes from the list and its key from the keys.
LEMMA KeyGoes ==
  ASSUME NEW f, NEW M, M \subseteq EntryRows, IsFiniteSet(M), NEW keys, NEW c \in Nat,
         KeysTo(M, f, keys, c), Cardinality(M) <= c, NEW x, NEW N, N = {e \in M : Key(e) # x}
  PROVE  /\ KeysTo(N, f, Without(keys, x), c)
         /\ Cardinality(N) <= Cardinality(M)
<1> DEFINE R  == Rel(f)
           K  == KeysOf(M)
           L  == KeysOf(N)
           A  == AllKeys(N, L)
           I  == {j \in DOMAIN keys : keys[j] # x}
           t  == Those(keys, I)
<1>1. IsFiniteSet(N) /\ Cardinality(N) <= Cardinality(M) /\ Cardinality(N) \in Nat /\ Cardinality(M) \in Nat /\ N \subseteq M
  <2>1. N \in SUBSET M
    OBVIOUS
  <2> QED BY <2>1, FS_Subset, FS_CardinalityType
<1>2. StrictOrder(R, M) /\ StrictOrder(R, N)
  BY <1>1, EntryOrder
<1>3. /\ keys \in Seq(AllKeys(M, K)) /\ Rising(keys, KeyOrder(M, R, K)) /\ ToSet(keys) = AllKeys(M, K)
  BY <1>2, AllFirst DEF KeysTo, KeysUpTo
<1>4. /\ \A y : y \in AllKeys(M, K) <=> \E e \in M : y = Key(e)
      /\ \A y : y \in A <=> \E e \in N : y = Key(e)
      /\ \A e \in M : K[e] = Key(e)
      /\ \A e \in N : L[e] = Key(e)
  BY DEF AllKeys, KeysOf
<1>5. \A y : y \in A <=> y \in AllKeys(M, K) /\ y # x
  BY <1>4
<1>6. DOMAIN keys = 1..Len(keys) /\ Len(keys) \in Nat /\ \A j \in 1..Len(keys) : keys[j] \in AllKeys(M, K)
  BY <1>3
<1>7. (\A j : j \in I <=> j \in 1..Len(keys) /\ keys[j] # x) /\ I \in SUBSET (1..Len(keys))
  BY <1>6
<1>8. \A y, z \in A : <<y, z>> \in KeyOrder(M, R, K) => <<y, z>> \in KeyOrder(N, R, L)
  <2>1. \A y, z \in AllKeys(M, K) : <<y, z>> \in KeyOrder(M, R, K)
           <=> \E d \in M : K[d] = y /\ \A e \in M : K[e] = z => <<d, e>> \in R
    BY DEF KeyOrder
  <2>2. \A y, z \in A : <<y, z>> \in KeyOrder(N, R, L)
           <=> \E d \in N : L[d] = y /\ \A e \in N : L[e] = z => <<d, e>> \in R
    BY DEF KeyOrder
  <2> HIDE DEF A, K, L, R
  <2> SUFFICES ASSUME NEW y \in A, NEW z \in A, <<y, z>> \in KeyOrder(M, R, K) PROVE <<y, z>> \in KeyOrder(N, R, L)
    OBVIOUS
  <2>3. PICK d \in M : K[d] = y /\ \A e \in M : K[e] = z => <<d, e>> \in R
    BY <1>5, <2>1
  <2>4. d \in N /\ L[d] = y
    BY <1>4, <1>5, <2>3
  <2>5. \A e \in N : L[e] = z => <<d, e>> \in R
    BY <1>1, <1>4, <2>3
  <2> QED BY <2>2, <2>4, <2>5
<1> HIDE DEF K, L, A, R, I, t
<1>9. IsFiniteSet(I) /\ I \subseteq Int /\ \A j \in I : keys[j] \in A
  <2>1. IsFiniteSet(1..Len(keys))
    <3> DEFINE l == Len(keys)
    <3>1. 1 \in Int /\ l \in Int
      BY <1>6
    <3> HIDE DEF l
    <3>2. IsFiniteSet(1..l)
      BY <3>1, FS_Interval
    <3> QED BY <3>2 DEF l
  <2>2. IsFiniteSet(I)
    BY <1>7, <2>1, FS_Subset
  <2>3. I \subseteq Int
    BY <1>6, <1>7
  <2>4. \A j \in I : keys[j] \in A
    BY <1>5, <1>6, <1>7
  <2> QED BY <2>2, <2>3, <2>4
<1>10. t \in Seq(A) /\ Picks(t, keys, I)
  BY <1>9, Counted DEF t
<1>11. PICK at \in Seq(I) : /\ Len(at) = Len(t) /\ ToSet(at) = I /\ DOMAIN at = 1..Len(at)
                            /\ \A k \in 1..Len(at) : t[k] = keys[at[k]]
                            /\ \A i, j \in 1..Len(at) : i < j => at[i] < at[j]
  BY <1>10 DEF Picks
<1>12. \A k \in 1..Len(at) : at[k] \in I
  OBVIOUS
<1>13. Len(t) \in Nat /\ DOMAIN t = 1..Len(t)
  BY <1>10
<1>14. ASSUME NEW i \in 1..Len(t), NEW j \in 1..Len(t), i < j PROVE <<t[i], t[j]>> \in KeyOrder(N, R, L)
  <2>1. at[i] \in I /\ at[j] \in I /\ at[i] < at[j] /\ t[i] = keys[at[i]] /\ t[j] = keys[at[j]]
    BY <1>11, <1>12, <1>14
  <2>2. <<keys[at[i]], keys[at[j]]>> \in KeyOrder(M, R, K)
    BY <1>3, <1>7, <2>1 DEF Rising
  <2>3. keys[at[i]] \in A /\ keys[at[j]] \in A
    BY <1>9, <2>1
  <2> QED BY <1>8, <2>1, <2>2, <2>3
<1>15. Rising(t, KeyOrder(N, R, L))
  BY <1>13, <1>14 DEF Rising
<1>16. ToSet(t) = A
  <2>1. \A y : y \in ToSet(t) <=> \E k \in 1..Len(t) : y = t[k]
    BY <1>13 DEF ToSet
  <2>2. \A y : y \in ToSet(keys) <=> \E j \in 1..Len(keys) : y = keys[j]
    BY <1>6 DEF ToSet
  <2>3. ASSUME NEW y \in A PROVE y \in ToSet(t)
    <3>1. PICK j \in 1..Len(keys) : y = keys[j]
      BY <1>3, <1>5, <2>2
    <3>2. j \in I
      BY <1>5, <1>7, <3>1
    <3>3. PICK k \in 1..Len(at) : at[k] = j
      BY <1>11, <3>2 DEF ToSet
    <3> QED BY <1>11, <2>1, <3>1, <3>3
  <2>4. ASSUME NEW k \in 1..Len(t) PROVE t[k] \in A
    BY <1>10
  <2> QED BY <2>1, <2>3, <2>4
<1>17. FirstKeys(N, R, L, c) = A
  <2>1. Cardinality(N) <= c
    BY <1>1
  <2> QED BY <1>1, <1>2, <2>1, AllFirst DEF A
<1>18. KeysUpTo(N, R, L, t, c)
  BY <1>10, <1>15, <1>16, <1>17 DEF KeysUpTo, A
<1> QED BY <1>1, <1>18 DEF KeysTo, R, L, t, I, Without

\* All that a filter can find is a finite set of entries.
Listable == \A f \in Filters \cup {NoFilter} : Matching(f) \subseteq EntryRows /\ IsFiniteSet(Matching(f))

GalleryTyped ==
    /\ gallery = [filter |-> gallery.filter, page |-> gallery.page, total |-> gallery.total,
                  keys |-> gallery.keys, loading |-> gallery.loading]
    /\ gallery.filter \in Filters \cup {NoFilter} /\ gallery.page \in Nat \ {0}
    /\ gallery.total \in Nat /\ gallery.loading \in BOOLEAN /\ disturbed \in BOOLEAN

\* The page g has m pages of M, and m is all it has asked for, or one less while it waits.
Scrolled(M, g) ==
    \E m \in {g.page - 1, g.page} :
        /\ g.loading \/ m = g.page
        /\ m = g.page => Cardinality(M) <= g.total
        /\ KeysTo(M, g.filter, g.keys, m * PageSize)

\* The invariant.
ScrollInv == GalleryTyped /\ (~disturbed => Scrolled(Matching(gallery.filter), gallery))

\* What types and the versions say of it.
LEMMA ListTyped == VType /\ VersionsTyped => Listable
BY MatchingTyped DEF Listable

\* It is what the property needs.
LEMMA ScrollEnough == Listable /\ ScrollInv => ScrollsThrough
<1> SUFFICES ASSUME Listable, ScrollInv, ~gallery.loading, ~HasMore, ~disturbed
             PROVE  gallery.keys = Listed(gallery.filter)
  BY DEF ScrollsThrough
<1> DEFINE f == gallery.filter
           M == Matching(f)
           k == gallery.page * PageSize
<1>1. f \in Filters \cup {NoFilter} /\ M \subseteq EntryRows /\ IsFiniteSet(M)
  BY DEF Listable, ScrollInv, GalleryTyped
<1>2. gallery.page \in Nat /\ gallery.total \in Nat /\ PageSize \in Nat
  BY PageAssumption DEF ScrollInv, GalleryTyped
<1>3. k \in Nat
  BY <1>2
<1>4. Cardinality(M) <= gallery.total /\ KeysTo(M, f, gallery.keys, k)
  BY DEF ScrollInv, Scrolled
<1>5. Cardinality(M) <= k
  <2>1. gallery.total <= k
    BY <1>2, <1>3 DEF HasMore
  <2>2. Cardinality(M) \in Nat
    BY <1>1, FS_CardinalityType
  <2> QED BY <1>2, <1>3, <1>4, <2>1, <2>2
<1> HIDE DEF f, M, k
<1>6. gallery.keys = With(<<>>, Order(f, M))
  BY <1>1, <1>3, <1>4, <1>5, Settled
<1> QED BY <1>6 DEF f, M, Listed

\* A list that is begun.
LEMMA BegunScrolls ==
  ASSUME Listable', NEW CONSTANT f \in Filters \cup {NoFilter}, gallery' = Begun(f), disturbed' = FALSE
  PROVE  ScrollInv'
<1>1. GalleryTyped'
  <2>1. gallery' = [filter |-> f, page |-> 1, total |-> 0, keys |-> <<>>, loading |-> TRUE]
    BY DEF Begun
  <2>2. gallery'.filter = f /\ gallery'.page = 1 /\ gallery'.total = 0 /\ gallery'.keys = <<>> /\ gallery'.loading = TRUE
    BY <2>1
  <2>3. gallery' = [filter |-> gallery'.filter, page |-> gallery'.page, total |-> gallery'.total,
                    keys |-> gallery'.keys, loading |-> gallery'.loading]
    BY <2>1, <2>2
  <2>4. 1 \in Nat \ {0} /\ 0 \in Nat /\ TRUE \in BOOLEAN /\ FALSE \in BOOLEAN
    OBVIOUS
  <2> QED BY <2>2, <2>3, <2>4 DEF GalleryTyped
<1>2. Scrolled(Matching(gallery.filter), gallery)'
  <2>1. gallery'.filter = f /\ gallery'.page = 1 /\ gallery'.keys = <<>> /\ gallery'.loading
    BY DEF Begun
  <2> DEFINE M == Matching(f)'
  <2>2. IsFiniteSet(M)
    BY DEF Listable
  <2> HIDE DEF M
  <2>3. KeysTo(M, f, <<>>, 0)
    BY <2>2, NoKeys
  <2>4. 0 * PageSize = 0 /\ 1 - 1 = 0
    BY PageAssumption
  <2>5. Scrolled(M, gallery')
    BY <2>1, <2>3, <2>4 DEF Scrolled
  <2>6. Matching(gallery.filter)' = M
    BY <2>1 DEF M
  <2> QED BY <2>5, <2>6
<1> QED BY <1>1, <1>2 DEF ScrollInv

\* Nothing of the list changes: what else does is the page's waiting.
LEMMA SameScrolls ==
  ASSUME ScrollInv, gallery' = gallery, disturbed' \in BOOLEAN,
         ~disturbed' => ~disturbed /\ Matching(gallery.filter)' = Matching(gallery.filter)
  PROVE  ScrollInv'
<1>1. GalleryTyped'
  BY DEF ScrollInv, GalleryTyped
<1>2. ASSUME ~disturbed' PROVE Scrolled(Matching(gallery.filter), gallery)'
  BY <1>2 DEF ScrollInv
<1> QED BY <1>1, <1>2 DEF ScrollInv

\* The list stays if the photos, the index and the catalog do.
LEMMA Stays ==
  ASSUME NEW CONSTANT f, UNCHANGED <<photo, index, version, class, label>>
  PROVE  Matching(f)' = Matching(f)
<1>1. \A q \in Ids : /\ photo'[q] # None <=> photo[q] # None
                     /\ photo'[q].pic = photo[q].pic /\ photo'[q].people = photo[q].people
                     /\ f.favourite # None => photo'[q].favourite = photo[q].favourite
  OBVIOUS
<1> QED BY <1>1, SameList

\* Who comes back to the page asks again for the page it has.
LEMMA EnterScrolls ==
  ASSUME ScrollInv, Enter
  PROVE  ScrollInv'
<1> USE DEF Enter
<1>1. gallery' = [filter |-> gallery.filter, page |-> gallery.page, total |-> gallery.total,
                  keys |-> gallery.keys, loading |-> TRUE] /\ disturbed' = disturbed
  BY DEF ScrollInv, GalleryTyped
<1>2. GalleryTyped'
  BY <1>1 DEF ScrollInv, GalleryTyped
<1>3. ASSUME ~disturbed PROVE Scrolled(Matching(gallery.filter), gallery)'
  <2>1. PICK f : f = gallery.filter
    OBVIOUS
  <2>2. gallery'.filter = f /\ Matching(gallery.filter)' = Matching(f)'
    BY <1>1, <2>1
  <2>3. Matching(f)' = Matching(f)
    BY Stays DEF vectors, stored, classes, catalog
  <2>4. Scrolled(Matching(f), gallery)
    BY <1>3, <2>1 DEF ScrollInv
  <2>5. Scrolled(Matching(f), gallery')
    BY <1>1, <2>4 DEF Scrolled
  <2> QED BY <2>2, <2>3, <2>5
<1> QED BY <1>1, <1>2, <1>3 DEF ScrollInv

\* Who scrolls asks for the next page.
LEMMA LoadMoreScrolls ==
  ASSUME ScrollInv, LoadMore
  PROVE  ScrollInv'
<1> USE DEF LoadMore
<1>1. gallery' = [filter |-> gallery.filter, page |-> gallery.page + 1, total |-> gallery.total,
                  keys |-> gallery.keys, loading |-> TRUE] /\ disturbed' = disturbed /\ ~gallery.loading
  BY DEF ScrollInv, GalleryTyped
<1>2. GalleryTyped'
  <2>1. gallery.page + 1 \in Nat \ {0} /\ gallery.filter \in Filters \cup {NoFilter} /\ gallery.total \in Nat /\ disturbed \in BOOLEAN
    BY DEF ScrollInv, GalleryTyped
  <2>2. /\ gallery'.filter = gallery.filter /\ gallery'.page = gallery.page + 1 /\ gallery'.total = gallery.total
        /\ gallery'.keys = gallery.keys /\ gallery'.loading = TRUE
    BY <1>1
  <2>3. gallery' = [filter |-> gallery'.filter, page |-> gallery'.page, total |-> gallery'.total,
                    keys |-> gallery'.keys, loading |-> gallery'.loading]
    BY <1>1, <2>2
  <2> QED BY <1>1, <2>1, <2>2, <2>3 DEF GalleryTyped
<1>3. ASSUME ~disturbed PROVE Scrolled(Matching(gallery.filter), gallery)'
  <2>1. PICK f : f = gallery.filter
    OBVIOUS
  <2>2. gallery'.filter = f /\ Matching(gallery.filter)' = Matching(f)'
    BY <1>1, <2>1
  <2>3. Matching(f)' = Matching(f)
    BY Stays DEF Still, vectors, stored, classes, catalog
  <2>4. KeysTo(Matching(f), f, gallery.keys, gallery.page * PageSize)
    BY <1>1, <1>3, <2>1 DEF ScrollInv, Scrolled
  <2>5. gallery.page \in Nat /\ gallery'.page = gallery.page + 1
    BY <1>1 DEF ScrollInv, GalleryTyped
  <2>6. gallery.page = gallery'.page - 1 /\ gallery.page # gallery'.page
    BY <2>5
  <2>7. gallery'.filter = f /\ gallery'.keys = gallery.keys /\ gallery'.loading
    BY <1>1, <2>1
  <2>8. Scrolled(Matching(f), gallery')
    BY <2>4, <2>6, <2>7 DEF Scrolled
  <2> QED BY <2>2, <2>3, <2>8
<1> QED BY <1>1, <1>2, <1>3 DEF ScrollInv

\* The answer that arrives goes on where the keys end.
LEMMA ArrivesScrolls ==
  ASSUME VType, VersionsTyped, Listable, ScrollInv, PageArrives
  PROVE  ScrollInv'
<1> USE DEF PageArrives
<1> DEFINE f == gallery.filter
           n == gallery.page
<1>0. f \in Filters \cup {NoFilter} /\ n \in Nat \ {0} /\ gallery.loading
  BY DEF ScrollInv, GalleryTyped
<1>1. CASE Answered(f)
  <2>1. gallery' = [filter |-> f, page |-> n, total |-> Total(f),
                    keys |-> With(gallery.keys, PageOf(f, n)), loading |-> FALSE] /\ disturbed' = disturbed
    BY <1>1 DEF ScrollInv, GalleryTyped, Shown
  <2>2. Total(f) \in Nat /\ Cardinality(Matching(f)) <= Total(f)
    BY <1>0, TotalEnough
  <2>3. GalleryTyped'
    BY <1>0, <2>1, <2>2 DEF ScrollInv, GalleryTyped
  <2>4. ASSUME ~disturbed PROVE Scrolled(Matching(gallery.filter), gallery)'
    <3>1. PICK g : g = gallery.filter
      OBVIOUS
    <3>2. gallery'.filter = g /\ Matching(gallery.filter)' = Matching(g)'
      BY <2>1, <3>1
    <3>3. Matching(g)' = Matching(g)
      BY Stays DEF vectors, stored, classes, catalog
    <3> DEFINE M == Matching(g)
               s == Order(g, M)
               a == (n - 1) * PageSize
               c == n * PageSize
               b == IF c <= Len(s) THEN c ELSE Len(s)
               entries == PageOf(g, n)
    <3>4. /\ a \in Nat /\ c \in Nat /\ a <= c /\ b \in Nat /\ b <= Len(s)
          /\ PartFrom(entries, s, a, b)
      BY <1>0, <3>1, PageIsPart DEF PartFrom
    <3>5. PICK m \in {n - 1, n} : KeysTo(M, g, gallery.keys, m * PageSize)
      BY <2>4, <3>1 DEF ScrollInv, Scrolled
    <3>6. Span(s, a, b, m * PageSize, c)
      <4>1. m * PageSize = a \/ m * PageSize = c
        OBVIOUS
      <4> QED BY <3>4, <4>1 DEF Span
    <3>7. M \subseteq EntryRows /\ IsFiniteSet(M)
      BY <1>0, <3>1 DEF Listable
    <3> DEFINE k == m * PageSize
    <3>8. s = Order(g, M) /\ KeysTo(M, g, gallery.keys, k) /\ Span(s, a, b, k, c)
      BY <3>5, <3>6
    <3> HIDE DEF M, s, a, b, c, entries, k
    <3>9. KeysTo(M, g, With(gallery.keys, entries), c)
      BY <3>4, <3>7, <3>8, EntriesAdd
    <3>10. gallery'.page = n /\ gallery'.filter = g /\ gallery'.keys = With(gallery.keys, entries) /\ gallery'.total = Total(g)
      BY <2>1, <3>1 DEF entries
    <3>11. Cardinality(M) <= Total(g)
      BY <2>2, <3>1 DEF M
    <3>12. Scrolled(M, gallery')
      BY <3>9, <3>10, <3>11 DEF Scrolled, c
    <3> QED BY <3>2, <3>3, <3>12 DEF M
  <2> QED BY <2>1, <2>3, <2>4 DEF ScrollInv
<1>2. CASE ~Answered(f)
  <2>1. gallery' = [filter |-> f, page |-> n, total |-> gallery.total,
                    keys |-> gallery.keys, loading |-> FALSE] /\ disturbed' = TRUE
    BY <1>2 DEF ScrollInv, GalleryTyped
  <2> QED BY <2>1 DEF ScrollInv, GalleryTyped
<1> QED BY <1>1, <1>2

\* A photo goes from the end of the list, or the list is not one that is looked through any more.
LEMMA TrashScrolls ==
  ASSUME VType, Listable, ScrollInv, NEW CONSTANT p \in Ids, TrashShown(p)
  PROVE  ScrollInv'
<1> DEFINE x == <<"photo", p>>
           kept == Without(gallery.keys, x)
<1>1. /\ p \in Live /\ photo' = [photo EXCEPT ![p].people = @ \ {Min(photo[p].people)}]
      /\ index' = index /\ version' = version /\ class' = class /\ label' = label
      /\ disturbed' = (disturbed \/ gallery.loading \/ HasMore \/ photo[p].people # {Min(photo[p].people)}
                          \/ Entries(<<p, Min(photo[p].people)>>) # {x})
  BY DEF TrashShown, classes, catalog
<1>2. gallery' = [filter |-> gallery.filter, page |-> gallery.page, total |-> gallery.total,
                  keys |-> kept, loading |-> gallery.loading]
  BY DEF Without, TrashShown, ScrollInv, GalleryTyped
<1>3. GalleryTyped'
  BY <1>1, <1>2 DEF ScrollInv, GalleryTyped
<1>4. ASSUME ~disturbed' PROVE Scrolled(Matching(gallery.filter), gallery)'
  <2>1. PICK f : f = gallery.filter
    OBVIOUS
  <2>2. PICK who : who = Min(photo[p].people)
    OBVIOUS
  <2>3. ~disturbed /\ ~gallery.loading /\ ~HasMore /\ photo[p].people = {who} /\ Entries(<<p, who>>) = {x}
    BY <1>1, <1>4, <2>2
  <2>4. \A v \in version : v.of # <<p, who>>
    <3> SUFFICES ASSUME NEW v \in version, v.of = <<p, who>> PROVE FALSE
      OBVIOUS
    <3>1. <<"version", v.n>> \in Entries(<<p, who>>)
      BY DEF Entries
    <3>2. <<"version", v.n>> # x
      OBVIOUS
    <3> QED BY <2>3, <3>1, <3>2
  <2>5. Matching(f)' = {e \in Matching(f) : Key(e) # x}
    BY <1>1, <2>2, <2>3, <2>4, TrashedList
  <2> DEFINE M == Matching(f)
             N == Matching(f)'
             c == gallery.page * PageSize
  <2>6. gallery.page \in Nat /\ gallery.total \in Nat /\ PageSize \in Nat /\ c \in Nat
    <3>1. gallery.page \in Nat /\ gallery.total \in Nat /\ PageSize \in Nat
      BY PageAssumption DEF ScrollInv, GalleryTyped
    <3> QED BY <3>1
  <2>7. M \subseteq EntryRows /\ IsFiniteSet(M)
    BY <2>1 DEF Listable, ScrollInv, GalleryTyped
  <2>8. KeysTo(M, f, gallery.keys, c) /\ Cardinality(M) <= gallery.total
    BY <2>1, <2>3 DEF ScrollInv, Scrolled
  <2>9. gallery.total <= c
    BY <2>3, <2>6 DEF HasMore
  <2>10. Cardinality(M) \in Nat
    BY <2>7, FS_CardinalityType
  <2>11. Cardinality(M) <= c
    BY <2>6, <2>8, <2>9, <2>10
  <2>12. N = {e \in M : Key(e) # x}
    BY <2>5
  <2> HIDE DEF M, N, c, x
  <2>13. KeysTo(N, f, Without(gallery.keys, x), c)
         /\ Cardinality(N) <= Cardinality(M)
    BY <2>6, <2>7, <2>8, <2>11, <2>12, KeyGoes
  <2>14. IsFiniteSet(N)
    <3>1. N \in SUBSET M
      BY <2>12
    <3> QED BY <2>7, <3>1, FS_Subset
  <2>15. Cardinality(N) <= gallery.total
    <3>1. Cardinality(N) \in Nat
      BY <2>14, FS_CardinalityType
    <3> QED BY <2>6, <2>8, <2>10, <2>13, <3>1
  <2>16. gallery'.page = gallery.page /\ gallery'.filter = f /\ gallery'.keys = kept /\ gallery'.total = gallery.total
    BY <1>2, <2>1
  <2>17. KeysTo(N, f, kept, gallery.page * PageSize)
    BY <2>13 DEF c
  <2> HIDE DEF kept
  <2>18. Scrolled(N, gallery')
    BY <2>15, <2>16, <2>17 DEF Scrolled
  <2>19. Matching(gallery.filter)' = N
    BY <2>16 DEF N
  <2> QED BY <2>18, <2>19
<1> QED BY <1>3, <1>4 DEF ScrollInv

\* A heart is given or taken: only who lists by hearts sees it.
LEMMA HeartScrolls ==
  ASSUME VType, ScrollInv, NEW CONSTANT p \in Ids, ToggleFavourite(p)
  PROVE  ScrollInv'
<1>1. /\ photo' = [photo EXCEPT ![p].favourite = (@ \ {Min(photo[p].people)}) \cup ({Min(photo[p].people)} \ @)]
      /\ p \in Live /\ index' = index /\ version' = version /\ class' = class /\ label' = label /\ gallery' = gallery
      /\ disturbed' = (disturbed \/ gallery.filter.favourite # None)
  BY DEF ToggleFavourite, classes, catalog
<1>2. disturbed' \in BOOLEAN
  BY <1>1
<1>3. ASSUME ~disturbed' PROVE ~disturbed /\ Matching(gallery.filter)' = Matching(gallery.filter)
  <2>1. PICK f : f = gallery.filter
    OBVIOUS
  <2>2. ~disturbed /\ f.favourite = None
    BY <1>1, <1>3, <2>1
  <2>3. photo \in [Ids -> PhotoRows \cup {None}] /\ photo[p] \in PhotoRows
    BY <1>1 DEF VType, Live, There
  <2>4. \A q \in Ids : q # p => photo'[q] = photo[q]
    BY <1>1, <2>3
  <2>5. photo'[p] \in [pic : Pictures, people : SUBSET People, favourite : {photo'[p].favourite}, done : SUBSET Flags]
        /\ photo'[p].pic = photo[p].pic /\ photo'[p].people = photo[p].people
    BY <1>1, <2>3 DEF PhotoRows
  <2>6. photo'[p] # None
    <3>1. Min(photo[p].people) \in People
      <4>1. photo[p].people # {} /\ photo[p].people \in SUBSET People
        BY <1>1, <2>3 DEF Live, PhotoRows
      <4>2. IsFiniteSet(photo[p].people) /\ photo[p].people \subseteq Int
        <5>1. People \subseteq Int /\ IsFiniteSet(People)
          BY IdAssumption
        <5>2. IsFiniteSet(photo[p].people)
          BY <4>1, <5>1, FS_Subset
        <5> QED BY <4>1, <5>1, <5>2
      <4> QED BY <4>1, <4>2, Smallest
    <3>2. photo'[p] \in PhotoRows
      BY <1>1, <2>3, <3>1 DEF PhotoRows
    <3> QED BY <3>2, NoneAssumption
  <2>7. \A q \in Ids : /\ photo'[q] # None <=> photo[q] # None
                       /\ photo'[q].pic = photo[q].pic /\ photo'[q].people = photo[q].people
                       /\ f.favourite # None => photo'[q].favourite = photo[q].favourite
    BY <1>1, <2>2, <2>3, <2>4, <2>5, <2>6, NoneAssumption
  <2>8. Matching(f)' = Matching(f)
    BY <1>1, <2>7, SameList
  <2>9. Matching(gallery.filter)' = Matching(f)'
    BY <1>1, <2>1
  <2> QED BY <2>1, <2>2, <2>8, <2>9
<1> QED BY <1>1, <1>2, <1>3, SameScrolls

\* The backend ends: a list that waits will not have its page.
LEMMA StoppedScrolls ==
  ASSUME ScrollInv, Stopped
  PROVE  ScrollInv'
<1>1. gallery' = [filter |-> gallery.filter, page |-> gallery.page, total |-> gallery.total,
                  keys |-> gallery.keys, loading |-> FALSE] /\ disturbed' = (disturbed \/ gallery.loading)
      /\ UNCHANGED <<photo, index, version, class, label>>
  BY DEF Stopped, ScrollInv, GalleryTyped, stored, catalog
<1>2. GalleryTyped'
  BY <1>1 DEF ScrollInv, GalleryTyped
<1>3. ASSUME ~disturbed' PROVE Scrolled(Matching(gallery.filter), gallery)'
  <2>1. PICK f : f = gallery.filter
    OBVIOUS
  <2>2. gallery'.filter = f /\ Matching(gallery.filter)' = Matching(f)'
    BY <1>1, <2>1
  <2>3. Matching(f)' = Matching(f)
    BY <1>1, Stays
  <2>4. ~disturbed /\ ~gallery.loading /\ Scrolled(Matching(f), gallery)
    BY <1>1, <1>3, <2>1 DEF ScrollInv
  <2>5. Scrolled(Matching(f), gallery')
    BY <1>1, <2>4 DEF Scrolled
  <2> QED BY <2>2, <2>3, <2>5
<1> QED BY <1>2, <1>3 DEF ScrollInv

\* A page that is lost leaves a hole, which is noted.
LEMMA LostScrolls ==
  ASSUME ScrollInv, PageLost
  PROVE  ScrollInv'
<1>1. gallery' = [filter |-> gallery.filter, page |-> gallery.page, total |-> gallery.total,
                  keys |-> gallery.keys, loading |-> FALSE] /\ disturbed' = TRUE
  BY DEF PageLost, ScrollInv, GalleryTyped
<1> QED BY <1>1 DEF ScrollInv, GalleryTyped

\* What others do is noted when it changes the list.
LEMMA BesideScrolls ==
  ASSUME ScrollInv, Beside
  PROVE  ScrollInv'
BY SameScrolls DEF Beside

\* Versions are made elsewhere: here they stay.
LEMMA VersionsStay == GSpec => []VersionsTyped
<1>1. GInit => VersionsTyped
  BY WorldAssumption DEF GInit, VersionsTyped
<1>2. VersionsTyped /\ [GNext]_All => VersionsTyped'
  <2> SUFFICES ASSUME VersionsTyped, [GNext]_All PROVE VersionsTyped'
    OBVIOUS
  <2>1. version' = version
    BY DEF GNext, All, browsing, ModelRuns, Stopped, Beside, Browse, Choose, Reload, Enter, LoadMore, Still, PageArrives,
           PageLost, BulkTrash, TrashShown, ToggleFavourite
  <2> QED BY <2>1 DEF VersionsTyped
<1> QED BY <1>1, <1>2, PTL DEF GSpec

\* The list is begun at the start, or nobody asks for it.
LEMMA ScrollsInit == GInit /\ Listable => ScrollInv
<1> SUFFICES ASSUME GInit, Listable PROVE ScrollInv
  OBVIOUS
<1>1. gallery = [filter |-> NoFilter, page |-> 1, total |-> 0, keys |-> <<>>, loading |-> left.filters > 0]
      /\ disturbed = ~gallery.loading
  BY DEF GInit, Begun
<1>2. GalleryTyped
  <2>1. 1 \in Nat \ {0} /\ 0 \in Nat /\ (left.filters > 0) \in BOOLEAN
    OBVIOUS
  <2>2. gallery.filter = NoFilter /\ gallery.page = 1 /\ gallery.total = 0 /\ gallery.keys = <<>>
        /\ gallery.loading = (left.filters > 0)
    BY <1>1
  <2>3. gallery.loading \in BOOLEAN /\ disturbed \in BOOLEAN
    BY <1>1, <2>1, <2>2
  <2>4. gallery = [filter |-> gallery.filter, page |-> gallery.page, total |-> gallery.total,
                   keys |-> gallery.keys, loading |-> gallery.loading]
    BY <1>1, <2>2
  <2> QED BY <2>1, <2>2, <2>3, <2>4 DEF GalleryTyped
<1>3. ASSUME ~disturbed PROVE Scrolled(Matching(gallery.filter), gallery)
  <2>1. gallery.filter = NoFilter /\ gallery.page = 1 /\ gallery.keys = <<>> /\ gallery.loading
    BY <1>1, <1>3
  <2> DEFINE M == Matching(NoFilter)
  <2>2. IsFiniteSet(M)
    BY DEF Listable
  <2> HIDE DEF M
  <2>3. KeysTo(M, NoFilter, <<>>, 0)
    BY <2>2, NoKeys
  <2>4. 0 * PageSize = 0 /\ 1 - 1 = 0
    BY PageAssumption
  <2>5. Scrolled(M, gallery)
    BY <2>1, <2>3, <2>4 DEF Scrolled
  <2> QED BY <2>1, <2>5 DEF M
<1> QED BY <1>2, <1>3 DEF ScrollInv

\* Every step of the page, and of all beside it, keeps it.
LEMMA ScrollStep ==
  ASSUME VType, VersionsTyped, Listable, Listable', ScrollInv, [GNext]_All
  PROVE  ScrollInv'
<1>1. CASE UNCHANGED browsing /\ UNCHANGED vectors /\ UNCHANGED classes
  <2>1. PICK f : f = gallery.filter
    OBVIOUS
  <2>2. Matching(f)' = Matching(f)
    BY <1>1, Stays DEF vectors, stored, classes, catalog, browsing
  <2>3. gallery' = gallery /\ disturbed' = disturbed
    BY <1>1 DEF browsing
  <2>4. Matching(gallery.filter)' = Matching(gallery.filter)
    BY <2>1, <2>2, <2>3
  <2> QED BY <2>3, <2>4, SameScrolls DEF ScrollInv, GalleryTyped
<1>2. CASE Browse
  <2>1. ASSUME NEW f \in Filters, Choose(f) PROVE ScrollInv'
    BY <2>1, BegunScrolls DEF Choose
  <2>2. ASSUME Reload \/ BulkTrash PROVE ScrollInv'
    <3>1. PICK f : f = gallery.filter
      OBVIOUS
    <3>2. f \in Filters \cup {NoFilter} /\ gallery' = Begun(f) /\ disturbed' = FALSE
      BY <2>2, <3>1 DEF Reload, BulkTrash, ScrollInv, GalleryTyped
    <3> QED BY <3>2, BegunScrolls
  <2>3. ASSUME NEW p \in Ids, TrashShown(p) \/ ToggleFavourite(p) PROVE ScrollInv'
    BY <2>3, TrashScrolls, HeartScrolls
  <2> QED BY <1>2, <2>1, <2>2, <2>3, EnterScrolls, LoadMoreScrolls, ArrivesScrolls, LostScrolls DEF Browse
<1> QED BY <1>1, <1>2, StoppedScrolls, BesideScrolls DEF GNext, All, ModelRuns

\* The gallery's invariant holds as long as the system runs.
THEOREM GalleryInvariant == GSpec => []ScrollInv
<1>1. GSpec => []Listable
  <2>1. VInv => VType
    BY DEF VInv
  <2> QED BY <2>1, ListTyped, VectorInvariant, VersionsStay, PTL
<1>2. VInv /\ VersionsTyped /\ Listable /\ Listable' /\ ScrollInv /\ [GNext]_All => ScrollInv'
  BY ScrollStep DEF VInv
<1> QED BY <1>1, <1>2, ScrollsInit, VectorInvariant, VersionsStay, PTL DEF GSpec

\* Scrolled to its end the gallery shows all that matches, each once and in order.
THEOREM GalleryScrolls == GSpec => []ScrollsThrough
<1>1. GSpec => []Listable
  <2>1. VInv => VType
    BY DEF VInv
  <2> QED BY <2>1, ListTyped, VectorInvariant, VersionsStay, PTL
<1> QED BY <1>1, ScrollEnough, GalleryInvariant, PTL
===============================================================================
