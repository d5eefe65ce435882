------------------------------ MODULE WalksProofs ------------------------------
(***************************************************************************)
(* For any rows, samples, limits and bounds: what a walk through pages cut *)
(* by offset misses, and what it is given twice, however the rows move     *)
(* while it walks.  The argument is about places: every row has a place of *)
(* its own, the places have no gaps, and a row that enters or leaves moves *)
(* the ones behind it by one, so it takes at most one row past the place   *)
(* the next page starts at.                                                *)
(***************************************************************************)
EXTENDS Walks, FiniteSetTheorems, WellFoundedInduction, TLAPS

Orders == {"newest", "oldest"}

\* x comes before r in a list, where the newest or the oldest row is first.
Before(x, r, first) == IF first = "newest" THEN x > r ELSE x < r

\* Those of S that come before r, and how many they are.
Ahead(S, r, first) == {x \in S : Before(x, r, first)}
Place(S, r, first) == Cardinality(Ahead(S, r, first))

\* Those of S whose place is at least o and below o + n.
Page(S, o, n, first) ==
    {x \in S : o <= Place(S, x, first) /\ Place(S, x, first) < o + n}

\* Those of some rows that stand in S before place o, and from it on.
UpTo(rows, S, o, first) == {x \in rows \cap S : Place(S, x, first) < o}
From(rows, S, o, first) == {x \in rows \cap S : Place(S, x, first) >= o}

\* The rows and samples of a walk.
Numbers(S) == S \in SUBSET Nat /\ IsFiniteSet(S)

-----------------------------------------------------------------------------
(* Places *)

\* Of some numbers one is least.
LEMMA LeastExists ==
    ASSUME NEW S \in SUBSET Nat, S # {}
    PROVE  \E m \in S : \A x \in S : m <= x
  <1>1. PICK m \in S : \A x \in S : ~(<<x, m>> \in OpToRel(<, Nat))
    BY WFMin, NatLessThanWellFounded
  <1>2. \A x \in S : ~(x < m)
    BY <1>1 DEF OpToRel
  <1> QED
    BY <1>2

\* At most one element more.
LEMMA OneMore ==
    ASSUME NEW T, IsFiniteSet(T), NEW U, NEW V, U \subseteq T \cup V,
           \A a, b \in V : a = b
    PROVE  IsFiniteSet(U) /\ Cardinality(U) \in Nat /\ Cardinality(T) \in Nat
           /\ Cardinality(U) <= Cardinality(T) + 1
  <1>1. Cardinality(T) \in Nat
    BY FS_CardinalityType
  <1>2. CASE V = {}
    <2>1. U \in SUBSET T
      BY <1>2
    <2> QED
      BY <1>1, <2>1, FS_Subset, FS_CardinalityType
  <1>3. CASE V # {}
    <2>1. PICK v \in V : TRUE
      BY <1>3
    <2>2. U \in SUBSET (T \cup {v})
      BY <2>1
    <2>3. IsFiniteSet(T \cup {v}) /\ Cardinality(T \cup {v}) <= Cardinality(T) + 1
          /\ Cardinality(T \cup {v}) \in Nat
      BY <1>1, FS_AddElement, FS_CardinalityType
    <2>4. IsFiniteSet(U) /\ Cardinality(U) <= Cardinality(T \cup {v}) /\ Cardinality(U) \in Nat
      BY <2>2, <2>3, FS_Subset, FS_CardinalityType
    <2> QED
      BY <1>1, <2>3, <2>4
  <1> QED
    BY <1>2, <1>3

\* Coming before is a strict order of the numbers, in which any two compare.
LEMMA BeforeFacts ==
    ASSUME NEW d \in Orders
    PROVE  /\ \A x, y, z \in Nat : Before(x, y, d) /\ Before(y, z, d) => Before(x, z, d)
           /\ \A x, y \in Nat : x # y => Before(x, y, d) \/ Before(y, x, d)
           /\ \A x, y \in Nat : ~(Before(x, y, d) /\ Before(y, x, d))
           /\ \A x \in Nat : ~Before(x, x, d)
  BY DEF Before, Orders

\* A place is a number; only rows of the list are ahead of a row.
LEMMA PlaceType ==
    ASSUME NEW S, Numbers(S), NEW d \in Orders, NEW r
    PROVE  /\ IsFiniteSet(Ahead(S, r, d))
           /\ Place(S, r, d) \in Nat
           /\ Place(S, r, d) <= Cardinality(S)
           /\ Cardinality(S) \in Nat
  <1>1. Ahead(S, r, d) \in SUBSET S
    BY DEF Ahead
  <1>2. IsFiniteSet(S)
    BY DEF Numbers
  <1> QED
    BY <1>1, <1>2, FS_Subset, FS_CardinalityType DEF Place

\* Of two rows the first has the lower place.
LEMMA PlacesOrdered ==
    ASSUME NEW S, Numbers(S), NEW d \in Orders, NEW q \in S, NEW r \in Nat, Before(q, r, d)
    PROVE  Place(S, q, d) < Place(S, r, d)
  <1>1. S \in SUBSET Nat
    BY DEF Numbers
  <1>2. Ahead(S, q, d) \in SUBSET Ahead(S, r, d)
    BY <1>1, BeforeFacts DEF Ahead
  <1>3. q \in Ahead(S, r, d) /\ q \notin Ahead(S, q, d)
    BY <1>1, BeforeFacts DEF Ahead
  <1>4. /\ IsFiniteSet(Ahead(S, r, d))
        /\ Place(S, q, d) \in Nat /\ Place(S, r, d) \in Nat
    BY PlaceType
  <1>5. /\ Cardinality(Ahead(S, q, d)) <= Cardinality(Ahead(S, r, d))
        /\ Cardinality(Ahead(S, q, d)) # Cardinality(Ahead(S, r, d))
    BY <1>2, <1>3, <1>4, FS_Subset
  <1> QED
    BY <1>4, <1>5 DEF Place

\* No two rows have one place.
LEMMA PlacesDiffer ==
    ASSUME NEW S, Numbers(S), NEW d \in Orders, NEW q \in S, NEW r \in S,
           Place(S, q, d) = Place(S, r, d)
    PROVE  q = r
  <1> SUFFICES ASSUME q # r PROVE FALSE
    OBVIOUS
  <1>1. S \in SUBSET Nat
    BY DEF Numbers
  <1>2. Before(q, r, d) \/ Before(r, q, d)
    BY <1>1, BeforeFacts
  <1>3. Place(S, q, d) \in Nat /\ Place(S, r, d) \in Nat
    BY PlaceType
  <1>4. Place(S, q, d) < Place(S, r, d) \/ Place(S, r, d) < Place(S, q, d)
    BY <1>1, <1>2, PlacesOrdered
  <1> QED
    BY <1>3, <1>4

\* The order of the places is the order of the rows.
LEMMA PlacesReflect ==
    ASSUME NEW S, Numbers(S), NEW d \in Orders, NEW q \in S, NEW r \in S,
           Place(S, q, d) < Place(S, r, d)
    PROVE  Before(q, r, d)
  <1>1. S \in SUBSET Nat
    BY DEF Numbers
  <1>2. Place(S, q, d) \in Nat /\ Place(S, r, d) \in Nat
    BY PlaceType
  <1>3. q # r
    BY <1>2
  <1>4. ~Before(r, q, d)
    <2> SUFFICES ASSUME Before(r, q, d) PROVE FALSE
      OBVIOUS
    <2>1. Place(S, r, d) < Place(S, q, d)
      BY <1>1, PlacesOrdered
    <2> QED
      BY <1>2, <2>1
  <1> QED
    BY <1>1, <1>3, <1>4, BeforeFacts

\* A row that enters moves the rows behind it by one.
LEMMA PlaceAfterEnter ==
    ASSUME NEW S, Numbers(S), NEW d \in Orders, NEW y \in Nat, y \notin S, NEW r \in Nat
    PROVE  /\ Numbers(S \cup {y})
           /\ Place(S \cup {y}, r, d)
                = IF Before(y, r, d) THEN Place(S, r, d) + 1 ELSE Place(S, r, d)
  <1>1. Numbers(S \cup {y})
    BY FS_AddElement DEF Numbers
  <1>2. CASE Before(y, r, d)
    <2>1. Ahead(S \cup {y}, r, d) = Ahead(S, r, d) \cup {y} /\ y \notin Ahead(S, r, d)
      BY <1>2 DEF Ahead
    <2>2. IsFiniteSet(Ahead(S, r, d))
      BY PlaceType
    <2>3. Cardinality(Ahead(S, r, d) \cup {y}) = Cardinality(Ahead(S, r, d)) + 1
      BY <2>1, <2>2, FS_AddElement
    <2> QED
      BY <1>1, <1>2, <2>1, <2>3 DEF Place
  <1>3. CASE ~Before(y, r, d)
    <2>1. Ahead(S \cup {y}, r, d) = Ahead(S, r, d)
      BY <1>3 DEF Ahead
    <2> QED
      BY <1>1, <1>3, <2>1 DEF Place
  <1> QED
    BY <1>2, <1>3

\* A row that leaves moves them back.
LEMMA PlaceAfterLeave ==
    ASSUME NEW S, Numbers(S), NEW d \in Orders, NEW y \in S, NEW r \in Nat
    PROVE  /\ Numbers(S \ {y})
           /\ Place(S \ {y}, r, d)
                = IF Before(y, r, d) THEN Place(S, r, d) - 1 ELSE Place(S, r, d)
  <1> DEFINE T == S \ {y}
  <1>1. Numbers(T) /\ y \in Nat /\ y \notin T /\ T \cup {y} = S
    BY FS_RemoveElement DEF Numbers
  <1>2. Place(T, r, d) \in Nat
    BY <1>1, PlaceType
  <1> HIDE DEF T
  <1>3. Place(T \cup {y}, r, d)
          = IF Before(y, r, d) THEN Place(T, r, d) + 1 ELSE Place(T, r, d)
    BY <1>1, PlaceAfterEnter
  <1>4. Place(T \cup {y}, r, d) = Place(S, r, d)
    BY <1>1
  <1>5. Place(T, r, d) = IF Before(y, r, d) THEN Place(S, r, d) - 1 ELSE Place(S, r, d)
    BY <1>2, <1>3, <1>4
  <1> QED
    BY <1>1, <1>5 DEF T

\* A page has no more rows than its places.
LEMMA PageFits ==
    ASSUME NEW S, Numbers(S), NEW d \in Orders, NEW o \in Int, NEW n \in Nat
    PROVE  IsFiniteSet(Page(S, o, n, d)) /\ Cardinality(Page(S, o, n, d)) <= n
           /\ Cardinality(Page(S, o, n, d)) \in Nat
  <1> DEFINE P == Page(S, o, n, d)
             I == o..o + n - 1
             f == [x \in P |-> Place(S, x, d)]
  <1>1. \A x \in P : x \in S /\ Place(S, x, d) \in I
    BY PlaceType DEF Page
  <1>2. \A x, y \in P : Place(S, x, d) = Place(S, y, d) => x = y
    BY <1>1, PlacesDiffer
  <1>3. f \in Injection(P, I)
    BY <1>1, <1>2, Zenon DEF Injection, IsInjective
  <1>4. IsFiniteSet(I) /\ Cardinality(I) = n
    BY FS_Interval
  <1> HIDE DEF P, I, f
  <1>5. IsFiniteSet(P) /\ Cardinality(P) <= Cardinality(I)
    BY <1>3, <1>4, FS_Injection
  <1> QED
    BY <1>4, <1>5, FS_CardinalityType DEF P

\* Places have no gaps: below the place of a row each place is some row's.
LEMMA NoGaps ==
    ASSUME NEW S, Numbers(S), NEW d \in Orders, NEW r \in S,
           NEW n \in Nat, n <= Place(S, r, d)
    PROVE  \E q \in S : Place(S, q, d) = n
  <1> DEFINE High == {Place(S, x, d) : x \in {x \in S : Place(S, x, d) >= n}}
  <1>1. High \in SUBSET Nat /\ High # {}
    BY PlaceType
  <1>2. PICK m \in High : \A x \in High : m <= x
    BY <1>1, LeastExists
  <1>3. PICK q \in S : Place(S, q, d) = m /\ m >= n /\ m \in Nat
    BY <1>1, <1>2
  <1>4. \A x \in S : Place(S, x, d) >= n => m <= Place(S, x, d)
    BY <1>2
  <1> HIDE DEF High
  <1>5. CASE m = n
    BY <1>3, <1>5
  <1>6. CASE m > n
    <2> DEFINE A == Ahead(S, q, d)
               Backs == {Cardinality(S) - Place(S, x, d) : x \in A}
    <2>1. A \subseteq S /\ IsFiniteSet(A) /\ A # {}
      <3>1. Cardinality(A) # 0
        BY <1>3, <1>6 DEF Place
      <3>2. A \subseteq S /\ IsFiniteSet(A)
        BY PlaceType DEF Ahead
      <3> QED
        BY <3>1, <3>2, FS_EmptySet
    <2> HIDE DEF A
    <2>2. \A x \in A : Cardinality(S) - Place(S, x, d) \in Nat /\ Place(S, x, d) \in Nat
                       /\ Cardinality(S) \in Nat
      BY PlaceType
    <2>3. Backs \in SUBSET Nat /\ Backs # {}
      BY <2>1, <2>2
    <2>4. PICK b \in Backs : \A x \in Backs : b <= x
      BY <2>3, LeastExists
    <2>5. PICK p \in A : Cardinality(S) - Place(S, p, d) = b
      BY <2>4
    <2>6. \A x \in A : b <= Cardinality(S) - Place(S, x, d)
      BY <2>4
    <2> HIDE DEF Backs
    <2>7. \A x \in A : Place(S, x, d) <= Place(S, p, d)
      BY <2>2, <2>5, <2>6
    <2>8. p \in S /\ S \in SUBSET Nat /\ Before(p, q, d)
      BY <2>1 DEF Numbers, A, Ahead
    <2>9. ASSUME NEW x \in A, x # p PROVE x \in Ahead(S, p, d)
      <3>1. x \in S /\ x \in Nat /\ p \in Nat /\ Place(S, x, d) \in Nat /\ Place(S, p, d) \in Nat
        BY <2>1, <2>2, <2>8
      <3>2. Place(S, x, d) # Place(S, p, d)
        BY <2>8, <2>9, <3>1, PlacesDiffer
      <3>3. Place(S, x, d) < Place(S, p, d)
        BY <2>7, <3>1, <3>2
      <3>4. Before(x, p, d)
        BY <2>8, <3>1, <3>3, PlacesReflect
      <3> QED
        BY <3>1, <3>4 DEF Ahead
    <2>10. A \in SUBSET (Ahead(S, p, d) \cup {p})
      BY <2>9
    <2>11. IsFiniteSet(Ahead(S, p, d)) /\ Place(S, p, d) \in Nat
      BY <2>8, PlaceType
    <2>12. IsFiniteSet(Ahead(S, p, d) \cup {p})
           /\ Cardinality(Ahead(S, p, d) \cup {p}) <= Place(S, p, d) + 1
      BY <2>11, FS_AddElement DEF Place
    <2>13. Cardinality(A) <= Cardinality(Ahead(S, p, d) \cup {p})
           /\ Cardinality(Ahead(S, p, d) \cup {p}) \in Nat
      BY <2>10, <2>12, FS_Subset, FS_CardinalityType
    <2>14. Cardinality(A) = m
      BY <1>3 DEF A, Place
    <2>15. m <= Place(S, p, d) + 1
      BY <1>3, <2>11, <2>12, <2>13, <2>14
    <2>16. Place(S, p, d) < m
      BY <1>3, <2>8, PlacesOrdered DEF Numbers
    <2>17. m <= Place(S, p, d)
      BY <1>3, <1>4, <1>6, <2>8, <2>11, <2>15
    <2> QED
      BY <1>3, <2>11, <2>16, <2>17
  <1> QED
    BY <1>3, <1>5, <1>6

\* A page in front of a row is full.
LEMMA PageFull ==
    ASSUME NEW S, Numbers(S), NEW d \in Orders, NEW o \in Nat, NEW n \in Nat,
           NEW r \in S, o + n <= Place(S, r, d) + 1
    PROVE  Cardinality(Page(S, o, n, d)) = n
  <1> DEFINE P == Page(S, o, n, d)
             I == o..o + n - 1
             f == [x \in P |-> Place(S, x, d)]
  <1>0. Place(S, r, d) \in Nat
    BY PlaceType
  <1>1. \A x \in P : Place(S, x, d) \in I
    BY PlaceType DEF Page
  <1>2. ASSUME NEW i \in I PROVE \E x \in P : f[x] = i
    <2>1. i \in Nat /\ i <= Place(S, r, d) /\ o <= i /\ i < o + n
      BY <1>0
    <2>2. PICK q \in S : Place(S, q, d) = i
      BY <2>1, NoGaps
    <2>3. q \in P
      BY <2>1, <2>2 DEF Page
    <2> QED
      BY <2>2, <2>3
  <1>3. f \in Surjection(P, I)
    BY <1>1, <1>2, Zenon DEF Surjection
  <1>4. IsFiniteSet(I) /\ Cardinality(I) = n
    BY FS_Interval
  <1>5. IsFiniteSet(P) /\ Cardinality(P) <= n /\ Cardinality(P) \in Nat
    BY PageFits
  <1> HIDE DEF P, I, f
  <1>6. Cardinality(I) <= Cardinality(P)
    BY <1>3, <1>5, FS_Surjection
  <1> QED
    BY <1>4, <1>5, <1>6 DEF P

-----------------------------------------------------------------------------
(* Rows that stand before a place, or from it on, while the list moves. *)

\* What stands before or from a place can be counted.
LEMMA PartsFinite ==
    ASSUME NEW S, Numbers(S), NEW d \in Orders, NEW rows, NEW o \in Int
    PROVE  /\ IsFiniteSet(UpTo(rows, S, o, d)) /\ Cardinality(UpTo(rows, S, o, d)) \in Nat
           /\ IsFiniteSet(From(rows, S, o, d)) /\ Cardinality(From(rows, S, o, d)) \in Nat
  <1>1. UpTo(rows, S, o, d) \in SUBSET S /\ From(rows, S, o, d) \in SUBSET S
    BY DEF UpTo, From
  <1> QED
    BY <1>1, FS_Subset, FS_CardinalityType DEF Numbers

\* A row that enters pushes rows away from the front, ...
LEMMA EnterUpTo ==
    ASSUME NEW S, Numbers(S), NEW d \in Orders, NEW y \in Nat, y \notin S,
           NEW rows, y \notin rows, NEW o \in Int
    PROVE  Cardinality(UpTo(rows, S \cup {y}, o, d)) <= Cardinality(UpTo(rows, S, o, d))
  <1>1. ASSUME NEW x \in UpTo(rows, S \cup {y}, o, d) PROVE x \in UpTo(rows, S, o, d)
    <2>1. x \in rows /\ x \in S /\ x \in Nat /\ Place(S \cup {y}, x, d) < o
      BY DEF UpTo, Numbers
    <2>2. Place(S \cup {y}, x, d) = IF Before(y, x, d) THEN Place(S, x, d) + 1 ELSE Place(S, x, d)
      BY <2>1, PlaceAfterEnter
    <2>3. Place(S, x, d) \in Nat
      BY PlaceType
    <2>4. Place(S, x, d) < o
      BY <2>1, <2>2, <2>3
    <2> QED
      BY <2>1, <2>4 DEF UpTo
  <1>2. UpTo(rows, S \cup {y}, o, d) \in SUBSET UpTo(rows, S, o, d)
    BY <1>1
  <1> QED
    BY <1>2, PartsFinite, FS_Subset

\* ... and at most one of them over a place: itself, if it enters behind it,
\* else the row just in front of it.
LEMMA EnterFrom ==
    ASSUME NEW S, Numbers(S), NEW d \in Orders, NEW y \in Nat, y \notin S,
           NEW rows, NEW o \in Int
    PROVE  Cardinality(From(rows, S \cup {y}, o, d)) <= Cardinality(From(rows, S, o, d)) + 1
  <1> DEFINE T == S \cup {y}
             New == {x \in T : Place(T, x, d) >= o /\ ~(x \in S /\ Place(S, x, d) >= o)}
  <1>1. Numbers(T) /\ T \subseteq Nat
    BY PlaceAfterEnter DEF Numbers
  <1>2. \A x \in T : /\ Place(T, x, d) \in Nat /\ Place(S, x, d) \in Nat
                     /\ Place(T, x, d) = IF Before(y, x, d) THEN Place(S, x, d) + 1
                                         ELSE Place(S, x, d)
    BY <1>1, PlaceType, PlaceAfterEnter
  <1>3. y \in T /\ \A x \in T : x # y => x \in S
    OBVIOUS
  <1> HIDE DEF T
  <1>4. ASSUME NEW a \in New, NEW b \in New PROVE a = b
    <2>1. CASE Place(T, y, d) >= o
      <3>1. ASSUME NEW x \in New PROVE x = y
        <4> SUFFICES ASSUME x # y PROVE FALSE
          OBVIOUS
        <4>1. x \in T /\ x \in S /\ Place(T, x, d) >= o /\ ~(Place(S, x, d) >= o)
          BY <1>3
        <4>2. Before(y, x, d)
          BY <1>2, <4>1
        <4>3. Place(T, y, d) < Place(T, x, d)
          BY <1>1, <1>3, <4>1, <4>2, PlacesOrdered
        <4> QED
          BY <1>2, <1>3, <2>1, <4>1, <4>2, <4>3
      <3> QED
        BY <3>1
    <2>2. CASE ~(Place(T, y, d) >= o)
      <3>1. ASSUME NEW x \in New PROVE x \in T /\ Place(T, x, d) = o
        <4>1. x \in T /\ x # y /\ x \in S /\ Place(T, x, d) >= o /\ ~(Place(S, x, d) >= o)
          BY <1>3, <2>2
        <4> QED
          BY <1>2, <4>1
      <3> QED
        BY <1>1, <3>1, PlacesDiffer
    <2> QED
      BY <2>1, <2>2
  <1>5. From(rows, T, o, d) \subseteq From(rows, S, o, d) \cup New
    BY DEF From
  <1>6. IsFiniteSet(From(rows, S, o, d))
    BY PartsFinite
  <1> HIDE DEF New
  <1> QED
    BY <1>4, <1>5, <1>6, OneMore DEF T

\* A row that leaves draws rows to the front, ...
LEMMA LeaveFrom ==
    ASSUME NEW S, Numbers(S), NEW d \in Orders, NEW y \in S, NEW rows, NEW o \in Int
    PROVE  Cardinality(From(rows, S \ {y}, o, d)) <= Cardinality(From(rows, S, o, d))
  <1>1. ASSUME NEW x \in From(rows, S \ {y}, o, d) PROVE x \in From(rows, S, o, d)
    <2>1. x \in rows /\ x \in S /\ x \in Nat /\ Place(S \ {y}, x, d) >= o
      BY DEF From, Numbers
    <2>2. Place(S \ {y}, x, d) = IF Before(y, x, d) THEN Place(S, x, d) - 1 ELSE Place(S, x, d)
      BY <2>1, PlaceAfterLeave
    <2>3. Place(S, x, d) \in Nat
      BY PlaceType
    <2>4. Place(S, x, d) >= o
      BY <2>1, <2>2, <2>3
    <2> QED
      BY <2>1, <2>4 DEF From
  <1>2. From(rows, S \ {y}, o, d) \in SUBSET From(rows, S, o, d)
    BY <1>1
  <1> QED
    BY <1>2, PartsFinite, FS_Subset

\* ... and at most one of them over a place: the row that stood there.
LEMMA LeaveUpTo ==
    ASSUME NEW S, Numbers(S), NEW d \in Orders, NEW y \in S, NEW rows, NEW o \in Int
    PROVE  Cardinality(UpTo(rows \ {y}, S \ {y}, o, d)) <= Cardinality(UpTo(rows, S, o, d)) + 1
  <1> DEFINE There == {x \in S : Place(S, x, d) = o}
  <1>1. ASSUME NEW x \in UpTo(rows \ {y}, S \ {y}, o, d)
        PROVE  x \in UpTo(rows, S, o, d) \cup There
    <2>1. x \in rows /\ x \in S /\ x \in Nat /\ Place(S \ {y}, x, d) < o
      BY DEF UpTo, Numbers
    <2>2. Place(S \ {y}, x, d) = IF Before(y, x, d) THEN Place(S, x, d) - 1 ELSE Place(S, x, d)
      BY <2>1, PlaceAfterLeave
    <2>3. Place(S, x, d) \in Nat
      BY PlaceType
    <2>4. Place(S, x, d) < o \/ Place(S, x, d) = o
      BY <2>1, <2>2, <2>3
    <2> QED
      BY <2>1, <2>4 DEF UpTo
  <1>2. \A a, b \in There : a = b
    BY PlacesDiffer
  <1>3. IsFiniteSet(UpTo(rows, S, o, d))
    BY PartsFinite
  <1>4. UpTo(rows \ {y}, S \ {y}, o, d) \subseteq UpTo(rows, S, o, d) \cup There
    BY <1>1
  <1> HIDE DEF There
  <1> QED
    BY <1>2, <1>3, <1>4, OneMore

-----------------------------------------------------------------------------
(* A walk through a list. *)

\* Where the next page starts, and the one after it.
Start == Lists!Offset(page)
NextStart == Lists!Offset(page) + limit

\* Of the rows that lasted, no more are lost in front of the place the next
\* page starts at than rows left.
FewLost ==
    /\ at \in {"asking", "read"} =>
          Cardinality(UpTo(lasting \ seen, listed, Start, "newest")) <= left
    /\ at = "read" =>
          Cardinality(UpTo(lasting \ (seen \cup got), listed, NextStart, "newest")) <= left
    /\ at = "done" /\ ~fallback => Cardinality(lasting \ seen) <= left

\* Rows that were given, and stand where later pages will give them again,
\* count as given again already.
FewAgain ==
    /\ at \in {"asking", "read"} =>
          twice + Cardinality(From(seen, listed, Start, "newest")) <= entered
    /\ at = "read" =>
          twice + Cardinality(seen \cap got)
                + Cardinality(From(seen \cup got, listed, NextStart, "newest")) <= entered
    /\ at = "done" => twice <= entered

ListInv == Lists!TypeOK /\ FewLost /\ FewAgain

\* The list's Cardinality is the library's.
LEMMA SameCardinality ==
    /\ \A S : Lists!Cardinality(S) = Cardinality(S)
    /\ \A S : Lists!IsFiniteSet(S) <=> IsFiniteSet(S)
  <1>1. \A S : Lists!IsFiniteSet(S) <=> IsFiniteSet(S)
    BY Zenon DEF Lists!IsFiniteSet, IsFiniteSet
  <1>2. \A S : Lists!Cardinality(S) = Cardinality(S)
    BY Zenon DEF Lists!Cardinality, Cardinality
  <1> QED
    BY <1>1, <1>2

\* Lists show the newest row first.
LEMMA NewestIsOrder == "newest" \in Orders
  BY DEF Orders

\* What the assumption says of the lists' constants.
LEMMA ListConstants ==
    /\ IsFiniteSet(Times) /\ Times \subseteq Nat
    /\ DefaultLimit \in Nat \ {0}
    /\ Asked \subseteq Int
    /\ MaxOthers \in Nat
  BY WalksAssumption, SameCardinality DEF Lists!PagedListAssumption

\* Offsets go up by a page, and the last of the pages counted ends behind all
\* the rows counted.
LEMMA OffsetFacts ==
    ASSUME NEW l \in Nat \ {0}, NEW p \in Nat \ {0}
    PROVE  /\ (p - 1) * l \in Nat
           /\ (p + 1 - 1) * l = (p - 1) * l + l
           /\ p = 1 => (p - 1) * l = 0
           /\ \A total \in Nat :
                 /\ total \div l + (IF total % l > 0 THEN 1 ELSE 0) \in Nat
                 /\ p >= total \div l + (IF total % l > 0 THEN 1 ELSE 0)
                       => (p - 1) * l + l >= total
  <1>1. (p - 1) * l \in Nat /\ (p + 1 - 1) * l = (p - 1) * l + l /\ (p = 1 => (p - 1) * l = 0)
    OBVIOUS
  <1>2. ASSUME NEW total \in Nat
        PROVE  /\ total \div l + (IF total % l > 0 THEN 1 ELSE 0) \in Nat
               /\ p >= total \div l + (IF total % l > 0 THEN 1 ELSE 0) => (p - 1) * l + l >= total
    <2> DEFINE q == total \div l
               m == total % l
    <2>1. q \in Nat /\ m \in Nat /\ m < l /\ total = l * q + m
      OBVIOUS
    <2> HIDE DEF q, m
    <2>2. q + (IF m > 0 THEN 1 ELSE 0) \in Nat
      BY <2>1
    <2>3. ASSUME p >= q + (IF m > 0 THEN 1 ELSE 0) PROVE (p - 1) * l + l >= total
      <3>1. (p - 1) * l + l = p * l /\ p * l \in Nat
        OBVIOUS
      <3>2. CASE m > 0
        <4>1. p >= q + 1
          BY <2>3, <3>2
        <4>2. p * l >= (q + 1) * l
          BY <2>1, <4>1
        <4>3. (q + 1) * l = l * q + l
          BY <2>1
        <4> QED
          BY <2>1, <3>1, <4>2, <4>3
      <3>3. CASE ~(m > 0)
        <4>1. p >= q
          BY <2>3, <3>3, <2>1
        <4>2. p * l >= l * q
          BY <2>1, <4>1
        <4> QED
          BY <2>1, <3>1, <3>3, <4>2
      <3> QED
        BY <3>2, <3>3
    <2> QED
      BY <2>2, <2>3 DEF q, m
  <1> QED
    BY <1>1, <1>2

\* What the types say of the sets, and of the places a walk is at.
LEMMA ListFacts ==
    ASSUME Lists!TypeOK
    PROVE  /\ Numbers(listed) /\ IsFiniteSet(seen) /\ IsFiniteSet(got) /\ IsFiniteSet(lasting)
           /\ Cardinality(listed) \in Nat
           /\ Start \in Nat /\ NextStart \in Nat /\ limit \in Nat \ {0}
           /\ twice \in Nat /\ entered \in Nat /\ left \in Nat
           /\ NextStart = Start + limit
  <1>1. listed \in SUBSET Times /\ seen \in SUBSET Times /\ got \in SUBSET Times
        /\ lasting \in SUBSET Times
    BY DEF Lists!TypeOK
  <1>2. Start \in Nat /\ limit \in Nat \ {0}
    BY OffsetFacts DEF Lists!TypeOK, Start, Lists!Offset
  <1>3. IsFiniteSet(listed) /\ IsFiniteSet(seen) /\ IsFiniteSet(got) /\ IsFiniteSet(lasting)
    BY <1>1, ListConstants, FS_Subset
  <1>4. Cardinality(listed) \in Nat
    BY <1>3, FS_CardinalityType
  <1>5. Numbers(listed)
    BY <1>1, <1>3, ListConstants DEF Numbers
  <1>6. NextStart = Start + limit
    BY DEF Start, NextStart
  <1> QED
    BY <1>2, <1>3, <1>4, <1>5, <1>6 DEF Lists!TypeOK

\* A page of the list is a page of places.
LEMMA PageOfIsPage ==
    ASSUME Lists!TypeOK
    PROVE  Lists!PageOf(page) = Page(listed, Start, limit, "newest")
  <1>1. ASSUME NEW r PROVE Lists!Rank(r) = Place(listed, r, "newest")
    BY SameCardinality DEF Lists!Rank, Place, Ahead, Before
  <1> QED
    BY <1>1 DEF Lists!PageOf, Page, Start

\* At first no page has been asked for.
LEMMA ListInitially == Lists!Init => ListInv
  <1> SUFFICES ASSUME Lists!Init PROVE ListInv
    OBVIOUS
  <1>1. got = {} /\ Lists!Cardinality(got) = 0 /\ lasting \ seen = {} /\ Cardinality({}) = 0
    BY SameCardinality, FS_EmptySet DEF Lists!Init
  <1>2. Lists!TypeOK
    <2>1. /\ list \in {"alarms", "master"} /\ listed \subseteq Times /\ lasting = {}
          /\ others \in 0..MaxOthers /\ limit = DefaultLimit /\ page = 1 /\ at = "done"
          /\ seen = {} /\ twice = 0 /\ entered = 0 /\ left = 0
      BY DEF Lists!Init
    <2>2. fallback \in BOOLEAN
      BY Zenon DEF Lists!Init
    <2>3. Lists!Cardinality(got) <= limit
      BY <1>1, <2>1, ListConstants
    <2> QED
      BY <1>1, <2>1, <2>2, <2>3, ListConstants DEF Lists!TypeOK
  <1> QED
    BY <1>1, <1>2 DEF Lists!Init, ListInv, FewLost, FewAgain

\* A new walk has missed nothing and was given nothing.
LEMMA WalkKeepsInv == ASSUME ListInv, Lists!Walk PROVE ListInv'
  <1>1. Lists!TypeOK'
    <2>1. limit' \in Nat \ {0} /\ page' = 1
      BY ListConstants DEF Lists!Walk, Lists!Begin, Lists!EffectiveLimit, Lists!EffectivePage
    <2>2. /\ at' = "asking" /\ got' = {} /\ seen' = {} /\ twice' = 0 /\ lasting' = listed
          /\ entered' = 0 /\ left' = 0
          /\ list' = list /\ listed' = listed /\ others' = others
      BY DEF Lists!Walk, Lists!Begin, Lists!table
    <2>3. Lists!Cardinality(got') <= limit'
      BY <2>1, <2>2, SameCardinality, FS_EmptySet
    <2>4. fallback' \in BOOLEAN
      BY Zenon DEF Lists!Walk, Lists!Begin
    <2> QED
      BY <2>1, <2>2, <2>3, <2>4 DEF ListInv, Lists!TypeOK
  <1>2. /\ at' = "asking" /\ page' = 1 /\ seen' = {} /\ got' = {} /\ twice' = 0
        /\ entered' = 0 /\ left' = 0 /\ listed' = listed /\ lasting' = listed
    BY DEF Lists!Walk, Lists!Begin, Lists!table, Lists!EffectivePage
  <1>3. Start' = 0
    BY <1>1, <1>2, OffsetFacts DEF Start, Lists!Offset, Lists!TypeOK
  <1>4. Numbers(listed)
    BY ListFacts DEF ListInv
  <1>5. UpTo(lasting \ seen, listed, Start, "newest")' = {}
    BY NewestIsOrder, <1>2, <1>3, <1>4, PlaceType DEF UpTo
  <1>6. From(seen, listed, Start, "newest")' = {}
    BY <1>2 DEF From
  <1> QED
    BY <1>1, <1>2, <1>5, <1>6, FS_EmptySet DEF ListInv, FewLost, FewAgain

\* The SELECT of a page: what it shows stood in the page, or was shown before.
LEMMA ReadPageKeepsInv == ASSUME ListInv, Lists!ReadPage PROVE ListInv'
  <1> DEFINE P == Page(listed, Start, limit, "newest")
  <1>0. Lists!TypeOK /\ FewLost /\ FewAgain
    BY DEF ListInv
  <1>1. /\ at = "asking" /\ at' = "read" /\ got' = P /\ listed' = listed /\ seen' = seen
        /\ limit' = limit /\ page' = page /\ twice' = twice /\ lasting' = lasting
        /\ entered' = entered /\ left' = left
    BY <1>0, PageOfIsPage DEF Lists!ReadPage, Lists!table, Lists!history
  <1>2. Start' = Start /\ NextStart' = NextStart
    BY <1>1 DEF Start, NextStart, Lists!Offset
  <1>3. /\ Numbers(listed) /\ Start \in Nat /\ limit \in Nat \ {0} /\ NextStart = Start + limit
        /\ IsFiniteSet(seen) /\ twice \in Nat /\ entered \in Nat
    BY <1>0, ListFacts
  <1>4. P \subseteq listed /\ Cardinality(P) <= limit
    BY NewestIsOrder, <1>3, PageFits DEF Page
  <1>5. Lists!TypeOK'
    BY <1>0, <1>1, <1>4, SameCardinality DEF Lists!TypeOK, Lists!ReadPage, Lists!table, Lists!history
  <1>6. \A x \in listed : x \in P <=> Place(listed, x, "newest") >= Start
                                      /\ Place(listed, x, "newest") < NextStart
    BY <1>3 DEF Page
  <1>7. \A x \in listed : Place(listed, x, "newest") \in Nat
    BY NewestIsOrder, <1>3, PlaceType
  <1> HIDE DEF P
  <1>8. UpTo(lasting \ (seen \cup P), listed, NextStart, "newest")
          \in SUBSET UpTo(lasting \ seen, listed, Start, "newest")
    BY <1>3, <1>6, <1>7 DEF UpTo
  <1>9. FewLost'
    <2>1. Cardinality(UpTo(lasting \ (seen \cup P), listed, NextStart, "newest"))
            <= Cardinality(UpTo(lasting \ seen, listed, Start, "newest"))
      <3>1. IsFiniteSet(UpTo(lasting \ seen, listed, Start, "newest"))
        BY NewestIsOrder, <1>3, PartsFinite
      <3> QED
        BY <1>8, <3>1, FS_Subset
    <2>2. Cardinality(UpTo(lasting \ seen, listed, Start, "newest")) <= left
      BY <1>0, <1>1 DEF FewLost
    <2>3. /\ Cardinality(UpTo(lasting \ (seen \cup P), listed, NextStart, "newest")) \in Nat
          /\ Cardinality(UpTo(lasting \ seen, listed, Start, "newest")) \in Nat
          /\ left \in Nat
      BY NewestIsOrder, <1>0, <1>3, PartsFinite, ListFacts
    <2>4. Cardinality(UpTo(lasting \ (seen \cup P), listed, NextStart, "newest")) <= left
      BY <2>1, <2>2, <2>3
    <2> QED
      BY <1>1, <1>2, <2>2, <2>4 DEF FewLost
  <1>10. FewAgain'
    <2> DEFINE Again == seen \cap P
               Later == From(seen \cup P, listed, NextStart, "newest")
               All == From(seen, listed, Start, "newest")
    <2>1. Again \in SUBSET All /\ Later \in SUBSET All /\ Again \cap Later = {}
      BY <1>3, <1>4, <1>6, <1>7 DEF From
    <2>2. IsFiniteSet(All) /\ IsFiniteSet(Again) /\ IsFiniteSet(Later)
      BY NewestIsOrder, <1>3, <2>1, PartsFinite, FS_Subset
    <2> HIDE DEF Again, Later, All
    <2>3. Cardinality(Again \cup Later)
            = Cardinality(Again) + Cardinality(Later) - Cardinality(Again \cap Later)
      BY <2>2, FS_Union
    <2>4. Cardinality(Again \cap Later) = 0
      BY <2>1, FS_EmptySet
    <2>5. Again \cup Later \in SUBSET All
      BY <2>1
    <2>6. Cardinality(Again \cup Later) <= Cardinality(All)
      BY <2>2, <2>5, FS_Subset
    <2>7. Cardinality(Again) \in Nat /\ Cardinality(Later) \in Nat /\ Cardinality(All) \in Nat
      BY <2>2, FS_CardinalityType
    <2>8. twice + Cardinality(All) <= entered
      BY <1>0, <1>1 DEF FewAgain, All
    <2>9. twice + Cardinality(Again) + Cardinality(Later) <= entered
      BY <1>3, <2>3, <2>4, <2>6, <2>7, <2>8
    <2> QED
      BY <1>1, <1>2, <2>8, <2>9 DEF FewAgain, Again, Later, All
  <1> QED
    BY <1>5, <1>9, <1>10 DEF ListInv

\* An answer with a next page: the walk stands where the page ended.
LEMMA GoesOn ==
    ASSUME ListInv, at = "read", at' = "asking", page' = page + 1, limit' = limit,
           seen' = seen \cup got, twice' = twice + Cardinality(seen \cap got),
           listed' = listed, lasting' = lasting, entered' = entered, left' = left
    PROVE  FewLost' /\ FewAgain'
  <1>1. Start' = NextStart
    BY OffsetFacts DEF ListInv, Lists!TypeOK, Start, NextStart, Lists!Offset
  <1>2. FewLost'
    BY <1>1 DEF ListInv, FewLost
  <1>3. FewAgain'
    BY <1>1 DEF ListInv, FewAgain
  <1> QED
    BY <1>2, <1>3

\* The last answer: all rows stand in front of its end, if the total is right.
LEMMA Ends ==
    ASSUME ListInv, at = "read", at' = "done",
           seen' = seen \cup got, twice' = twice + Cardinality(seen \cap got),
           listed' = listed, lasting' = lasting, entered' = entered, left' = left,
           ~fallback' => Cardinality(listed) <= NextStart
    PROVE  FewLost' /\ FewAgain'
  <1>0. Lists!TypeOK /\ FewLost /\ FewAgain
    BY DEF ListInv
  <1>1. /\ Numbers(listed) /\ NextStart \in Nat /\ twice \in Nat /\ entered \in Nat
        /\ left \in Nat /\ IsFiniteSet(seen)
    BY <1>0, ListFacts
  <1>2. ASSUME ~fallback' PROVE Cardinality(lasting \ (seen \cup got)) <= left
    <2>1. \A x \in listed : Place(listed, x, "newest") < NextStart
      <3>1. ASSUME NEW x \in listed PROVE Place(listed, x, "newest") < Cardinality(listed)
        <4>1. Ahead(listed, x, "newest") \in SUBSET listed /\ x \notin Ahead(listed, x, "newest")
          BY NewestIsOrder, <1>1, BeforeFacts DEF Numbers, Ahead
        <4>2. Cardinality(Ahead(listed, x, "newest")) <= Cardinality(listed)
              /\ Cardinality(Ahead(listed, x, "newest")) # Cardinality(listed)
          BY <1>1, <4>1, FS_Subset DEF Numbers
        <4>3. Place(listed, x, "newest") \in Nat /\ Cardinality(listed) \in Nat
          BY NewestIsOrder, <1>1, PlaceType
        <4> QED
          BY <4>2, <4>3 DEF Place
      <3>2. \A x \in listed : Place(listed, x, "newest") \in Nat /\ Cardinality(listed) \in Nat
        BY NewestIsOrder, <1>1, PlaceType
      <3> QED
        BY <1>1, <1>2, <3>1, <3>2
    <2>2. lasting \ (seen \cup got) = UpTo(lasting \ (seen \cup got), listed, NextStart, "newest")
      BY <1>0, <2>1 DEF UpTo, Lists!TypeOK
    <2> QED
      BY <1>0, <2>2 DEF FewLost
  <1>3. twice + Cardinality(seen \cap got) <= entered
    <2>1. /\ Cardinality(seen \cap got) \in Nat
          /\ Cardinality(From(seen \cup got, listed, NextStart, "newest")) \in Nat
      <3>1. IsFiniteSet(seen \cap got)
        BY <1>1, FS_Intersection
      <3> QED
        BY NewestIsOrder, <1>1, <3>1, PartsFinite, FS_CardinalityType
    <2>2. twice + Cardinality(seen \cap got)
            + Cardinality(From(seen \cup got, listed, NextStart, "newest")) <= entered
      BY <1>0 DEF FewAgain
    <2> QED
      BY <1>1, <2>1, <2>2
  <1> QED
    BY <1>2, <1>3 DEF FewLost, FewAgain

\* An answer with a total that is not less than the rows there are, unless it
\* stands for a count that failed.
Answered(total) ==
    /\ at = "read" /\ Lists!Answer(total)
    /\ UNCHANGED <<list, listed, others, limit, lasting, entered, left>>
    /\ fallback' \in BOOLEAN
    /\ ~fallback' => Cardinality(listed) <= total

\* The answer: the client has the page, and goes on to the next or is at its end.
LEMMA AnswerKeepsInv ==
    ASSUME ListInv, NEW total \in Nat, Answered(total)
    PROVE  ListInv'
  <1>0. /\ Lists!TypeOK /\ at = "read" /\ Lists!Answer(total)
        /\ list' = list /\ listed' = listed /\ others' = others /\ limit' = limit
        /\ lasting' = lasting /\ entered' = entered /\ left' = left
        /\ fallback' \in BOOLEAN
        /\ ~fallback' => Cardinality(listed) <= total
    BY DEF ListInv, Answered
  <1>1. limit \in Nat \ {0} /\ page \in Nat \ {0} /\ IsFiniteSet(seen)
        /\ Cardinality(listed) \in Nat /\ NextStart \in Nat
    BY <1>0, ListFacts DEF Lists!TypeOK
  <1>2. Lists!TotalPages(total) \in Nat
        /\ (page >= Lists!TotalPages(total) => NextStart >= total)
    BY <1>1, OffsetFacts DEF Lists!TotalPages, NextStart, Lists!Offset
  <1>3. Cardinality(seen \cap got) \in Nat
    BY <1>1, FS_Intersection, FS_CardinalityType
  <1>4. Lists!TypeOK'
    BY <1>0, <1>1, <1>3, SameCardinality, FS_EmptySet DEF Lists!Answer, Lists!TypeOK
  <1>5. CASE page < Lists!TotalPages(total)
    <2>1. /\ seen' = seen \cup got /\ twice' = twice + Cardinality(seen \cap got)
          /\ page' = page + 1 /\ at' = "asking"
      BY <1>0, <1>5, SameCardinality DEF Lists!Answer
    <2>2. FewLost' /\ FewAgain'
      BY <1>0, <2>1, GoesOn
    <2> QED
      BY <1>4, <2>2 DEF ListInv
  <1>6. CASE ~(page < Lists!TotalPages(total))
    <2>1. ~fallback' => Cardinality(listed) <= NextStart
      BY <1>0, <1>1, <1>2, <1>6
    <2>2. /\ seen' = seen \cup got /\ twice' = twice + Cardinality(seen \cap got)
          /\ at' = "done"
      BY <1>0, <1>6, SameCardinality DEF Lists!Answer
    <2>3. FewLost' /\ FewAgain'
      BY <1>0, <2>1, <2>2, Ends
    <2> QED
      BY <1>4, <2>3 DEF ListInv
  <1> QED
    BY <1>5, <1>6

\* The count of the rows completes an answer, ...
LEMMA CountRowsKeepsInv == ASSUME ListInv, Lists!CountRows PROVE ListInv'
  <1>1. Cardinality(listed) \in Nat /\ others \in Nat /\ fallback \in BOOLEAN
    BY ListFacts DEF ListInv, Lists!TypeOK
  <1>2. Lists!Counted \in Nat /\ Cardinality(listed) <= Lists!Counted
    BY <1>1, SameCardinality DEF Lists!Counted
  <1>3. Answered(Lists!Counted)
    BY <1>1, <1>2, Zenon DEF Lists!CountRows, Lists!table, Lists!history, Answered
  <1> QED
    BY <1>2, <1>3, AnswerKeepsInv

\* ... and so does a count that fails, which makes the page look the last.
LEMMA CountFailsKeepsInv == ASSUME ListInv, Lists!CountFails PROVE ListInv'
  <1>1. CASE list = "alarms"
    <2>1. Answered(0)
      BY <1>1, Zenon DEF Lists!CountFails, Lists!table, Lists!history, Answered
    <2> QED
      BY <2>1, AnswerKeepsInv
  <1>2. CASE list # "alarms"
    <2>1. /\ at = "read" /\ at' = "asking" /\ got' = {}
          /\ UNCHANGED <<list, listed, others, limit, page, seen, twice, lasting, entered, left,
                         fallback>>
      BY <1>2 DEF Lists!CountFails, Lists!table, Lists!history
    <2>2. Lists!TypeOK'
      BY <2>1, SameCardinality, FS_EmptySet DEF ListInv, Lists!TypeOK
    <2>3. Start' = Start
      BY <2>1 DEF Start, Lists!Offset
    <2> QED
      BY <2>1, <2>2, <2>3 DEF ListInv, FewLost, FewAgain
  <1> QED
    BY <1>1, <1>2

\* A row that enters may push one row that was shown to the next page.
LEMMA EnterKeepsInv == ASSUME ListInv, NEW r \in Times, Lists!Enter(r) PROVE ListInv'
  <1>0. Lists!TypeOK /\ FewLost /\ FewAgain
    BY DEF ListInv
  <1>1. /\ r \notin listed /\ listed' = listed \cup {r} /\ entered' = entered + 1
        /\ UNCHANGED <<list, others, limit, page, at, got, seen, twice, lasting, left, fallback>>
    BY DEF Lists!Enter
  <1>2. Lists!TypeOK'
    BY <1>0, <1>1 DEF Lists!TypeOK
  <1>3. Start' = Start /\ NextStart' = NextStart
    BY <1>1 DEF Start, NextStart, Lists!Offset
  <1>4. /\ Numbers(listed) /\ Start \in Nat /\ NextStart \in Nat /\ r \in Nat
        /\ twice \in Nat /\ entered \in Nat /\ left \in Nat /\ Numbers(listed \cup {r})
        /\ IsFiniteSet(seen)
    BY NewestIsOrder, <1>0, <1>1, ListFacts, ListConstants, PlaceAfterEnter
  <1>5. r \notin lasting
    BY <1>0, <1>1 DEF Lists!TypeOK
  <1>6. FewLost'
    <2>1. ASSUME NEW rows \in SUBSET lasting, NEW o \in Nat,
                 Cardinality(UpTo(rows, listed, o, "newest")) <= left
          PROVE  Cardinality(UpTo(rows, listed \cup {r}, o, "newest")) <= left
      <3>1. Cardinality(UpTo(rows, listed \cup {r}, o, "newest"))
              <= Cardinality(UpTo(rows, listed, o, "newest"))
        BY NewestIsOrder, <1>1, <1>4, <1>5, EnterUpTo
      <3>2. /\ Cardinality(UpTo(rows, listed \cup {r}, o, "newest")) \in Nat
            /\ Cardinality(UpTo(rows, listed, o, "newest")) \in Nat
        BY NewestIsOrder, <1>4, PartsFinite
      <3> QED
        BY <1>4, <2>1, <3>1, <3>2
    <2> QED
      BY <1>0, <1>1, <1>3, <1>4, <2>1 DEF FewLost
  <1>7. FewAgain'
    <2>1. ASSUME NEW rows, NEW o \in Nat
          PROVE  /\ Cardinality(From(rows, listed \cup {r}, o, "newest"))
                      <= Cardinality(From(rows, listed, o, "newest")) + 1
                 /\ Cardinality(From(rows, listed \cup {r}, o, "newest")) \in Nat
                 /\ Cardinality(From(rows, listed, o, "newest")) \in Nat
      BY NewestIsOrder, <1>1, <1>4, EnterFrom, PartsFinite
    <2>2. Cardinality(seen \cap got) \in Nat
      BY <1>4, FS_Intersection, FS_CardinalityType
    <2>3. at \in {"asking", "read"}
            => twice + Cardinality(From(seen, listed \cup {r}, Start, "newest")) <= entered + 1
      <3>1. at \in {"asking", "read"}
              => twice + Cardinality(From(seen, listed, Start, "newest")) <= entered
        BY <1>0 DEF FewAgain
      <3>2. /\ Cardinality(From(seen, listed \cup {r}, Start, "newest"))
                 <= Cardinality(From(seen, listed, Start, "newest")) + 1
            /\ Cardinality(From(seen, listed \cup {r}, Start, "newest")) \in Nat
            /\ Cardinality(From(seen, listed, Start, "newest")) \in Nat
        BY <1>4, <2>1
      <3> QED
        BY <1>4, <3>1, <3>2
    <2>4. at = "read"
            => twice + Cardinality(seen \cap got)
                 + Cardinality(From(seen \cup got, listed \cup {r}, NextStart, "newest"))
                 <= entered + 1
      <3>1. at = "read"
              => twice + Cardinality(seen \cap got)
                   + Cardinality(From(seen \cup got, listed, NextStart, "newest")) <= entered
        BY <1>0 DEF FewAgain
      <3>2. /\ Cardinality(From(seen \cup got, listed \cup {r}, NextStart, "newest"))
                 <= Cardinality(From(seen \cup got, listed, NextStart, "newest")) + 1
            /\ Cardinality(From(seen \cup got, listed \cup {r}, NextStart, "newest")) \in Nat
            /\ Cardinality(From(seen \cup got, listed, NextStart, "newest")) \in Nat
        BY <1>4, <2>1
      <3> QED
        BY <1>4, <2>2, <3>1, <3>2
    <2>5. at = "done" => twice <= entered + 1
      BY <1>0, <1>4 DEF FewAgain
    <2> QED
      BY <1>1, <1>3, <2>3, <2>4, <2>5 DEF FewAgain
  <1> QED
    BY <1>2, <1>6, <1>7 DEF ListInv

\* A row that leaves may pull one row into the pages that were shown.
LEMMA LeaveKeepsInv == ASSUME ListInv, NEW r \in Times, Lists!Leave(r) PROVE ListInv'
  <1>0. Lists!TypeOK /\ FewLost /\ FewAgain
    BY DEF ListInv
  <1>1. /\ r \in listed /\ listed' = listed \ {r} /\ lasting' = lasting \ {r} /\ left' = left + 1
        /\ UNCHANGED <<list, others, limit, page, at, got, seen, twice, entered, fallback>>
    BY DEF Lists!Leave
  <1>2. Lists!TypeOK'
    BY <1>0, <1>1 DEF Lists!TypeOK
  <1>3. Start' = Start /\ NextStart' = NextStart
    BY <1>1 DEF Start, NextStart, Lists!Offset
  <1>4. /\ Numbers(listed) /\ Start \in Nat /\ NextStart \in Nat /\ r \in Nat
        /\ twice \in Nat /\ entered \in Nat /\ left \in Nat /\ Numbers(listed \ {r})
        /\ IsFiniteSet(seen) /\ IsFiniteSet(lasting)
    BY NewestIsOrder, <1>0, <1>1, ListFacts, ListConstants, PlaceAfterLeave
  <1>5. FewLost'
    <2>1. ASSUME NEW given, NEW o \in Nat,
                 Cardinality(UpTo(lasting \ given, listed, o, "newest")) <= left
          PROVE  Cardinality(UpTo((lasting \ {r}) \ given, listed \ {r}, o, "newest")) <= left + 1
      <3>1. (lasting \ {r}) \ given = (lasting \ given) \ {r}
        OBVIOUS
      <3>2. Cardinality(UpTo((lasting \ given) \ {r}, listed \ {r}, o, "newest"))
              <= Cardinality(UpTo(lasting \ given, listed, o, "newest")) + 1
        BY NewestIsOrder, <1>1, <1>4, LeaveUpTo
      <3>3. /\ Cardinality(UpTo((lasting \ given) \ {r}, listed \ {r}, o, "newest")) \in Nat
            /\ Cardinality(UpTo(lasting \ given, listed, o, "newest")) \in Nat
        BY NewestIsOrder, <1>4, PartsFinite
      <3> QED
        BY <1>4, <2>1, <3>1, <3>2, <3>3
    <2>2. ASSUME Cardinality(lasting \ seen) <= left
          PROVE  Cardinality((lasting \ {r}) \ seen) <= left + 1
      <3>1. IsFiniteSet(lasting \ seen) /\ (lasting \ {r}) \ seen \in SUBSET (lasting \ seen)
        BY <1>4, FS_Difference
      <3>2. Cardinality((lasting \ {r}) \ seen) <= Cardinality(lasting \ seen)
            /\ Cardinality((lasting \ {r}) \ seen) \in Nat /\ Cardinality(lasting \ seen) \in Nat
        BY <3>1, FS_Subset, FS_CardinalityType
      <3> QED
        BY <1>4, <2>2, <3>2
    <2> QED
      BY <1>0, <1>1, <1>3, <1>4, <2>1, <2>2 DEF FewLost
  <1>6. FewAgain'
    <2>1. ASSUME NEW rows, NEW o \in Nat
          PROVE  /\ Cardinality(From(rows, listed \ {r}, o, "newest"))
                      <= Cardinality(From(rows, listed, o, "newest"))
                 /\ Cardinality(From(rows, listed \ {r}, o, "newest")) \in Nat
                 /\ Cardinality(From(rows, listed, o, "newest")) \in Nat
      BY NewestIsOrder, <1>1, <1>4, LeaveFrom, PartsFinite
    <2>2. Cardinality(seen \cap got) \in Nat
      BY <1>4, FS_Intersection, FS_CardinalityType
    <2>3. at \in {"asking", "read"}
            => twice + Cardinality(From(seen, listed \ {r}, Start, "newest")) <= entered
      BY <1>0, <1>4, <2>1 DEF FewAgain
    <2>4. at = "read"
            => twice + Cardinality(seen \cap got)
                 + Cardinality(From(seen \cup got, listed \ {r}, NextStart, "newest")) <= entered
      <3>1. at = "read"
              => twice + Cardinality(seen \cap got)
                   + Cardinality(From(seen \cup got, listed, NextStart, "newest")) <= entered
        BY <1>0 DEF FewAgain
      <3>2. /\ Cardinality(From(seen \cup got, listed \ {r}, NextStart, "newest"))
                 <= Cardinality(From(seen \cup got, listed, NextStart, "newest"))
            /\ Cardinality(From(seen \cup got, listed \ {r}, NextStart, "newest")) \in Nat
            /\ Cardinality(From(seen \cup got, listed, NextStart, "newest")) \in Nat
        BY <1>4, <2>1
      <3> QED
        BY <1>4, <2>2, <3>1, <3>2
    <2> QED
      BY <1>0, <1>1, <1>3, <2>3, <2>4 DEF FewAgain
  <1> QED
    BY <1>2, <1>5, <1>6 DEF ListInv

\* Every step of a walk through a list keeps its invariant.
LEMMA ListStep == ASSUME ListInv, Lists!Next PROVE ListInv'
  <1>1. CASE Lists!OthersChange
    BY <1>1 DEF Lists!OthersChange, Lists!history, ListInv, Lists!TypeOK, FewLost, FewAgain,
                Start, NextStart, Lists!Offset
  <1> QED
    BY <1>1, WalkKeepsInv, ReadPageKeepsInv, CountRowsKeepsInv, CountFailsKeepsInv,
       EnterKeepsInv, LeaveKeepsInv DEF Lists!Next

-----------------------------------------------------------------------------
(* The records of one answer. *)

\* The rows one query returns, one more than the limit, and the oldest of
\* them, which are the answer.
Returned(S, o, l, d) == Page(S, o, l + 1, d)
Kept(S, o, l, d) == Page(Returned(S, o, l, d), 0, l, "oldest")

\* Where the newest are first, keeping the oldest starts the answer a place late.
Lateness(d) == IF d = "newest" THEN 1 ELSE 0

\* Histories may be read from the oldest sample on.
LEMMA OldestIsOrder == "oldest" \in Orders
  BY DEF Orders

\* Rows of the query that are older than one of them.
LEMMA OlderReturned ==
    ASSUME NEW S, Numbers(S), NEW d \in Orders, NEW o \in Nat, NEW l \in Nat \ {0},
           NEW t \in S, NEW F, F = Returned(S, o, l, d)
    PROVE  /\ F \in SUBSET S /\ Numbers(F) /\ IsFiniteSet(Ahead(F, t, "oldest"))
           /\ d = "oldest" => Ahead(F, t, "oldest")
                                = {x \in F : Place(S, x, d) < Place(S, t, d)}
           /\ d = "newest" => Ahead(F, t, "oldest")
                                = {x \in F : Place(S, x, d) > Place(S, t, d)}
  <1>1. F \in SUBSET S /\ S \in SUBSET Nat /\ IsFiniteSet(S)
    BY DEF Returned, Page, Numbers
  <1>2. Numbers(F)
    BY <1>1, FS_Subset DEF Numbers
  <1>3. IsFiniteSet(Ahead(F, t, "oldest"))
    BY <1>2, OldestIsOrder, PlaceType
  <1>4. \A x \in S : Place(S, x, d) \in Nat
    BY PlaceType
  <1>5. \A x \in S : Before(x, t, d) <=> Place(S, x, d) < Place(S, t, d)
    <2>1. ASSUME NEW x \in S, Before(x, t, d) PROVE Place(S, x, d) < Place(S, t, d)
      BY <1>1, <2>1, PlacesOrdered
    <2>2. ASSUME NEW x \in S, Place(S, x, d) < Place(S, t, d) PROVE Before(x, t, d)
      BY <2>2, PlacesReflect
    <2> QED
      BY <2>1, <2>2
  <1>6. \A x \in S : Before(t, x, d) <=> Place(S, t, d) < Place(S, x, d)
    <2>1. ASSUME NEW x \in S, Before(t, x, d) PROVE Place(S, t, d) < Place(S, x, d)
      BY <1>1, <2>1, PlacesOrdered
    <2>2. ASSUME NEW x \in S, Place(S, t, d) < Place(S, x, d) PROVE Before(t, x, d)
      BY <2>2, PlacesReflect
    <2> QED
      BY <2>1, <2>2
  <1>7. ASSUME d = "oldest"
        PROVE  Ahead(F, t, "oldest") = {x \in F : Place(S, x, d) < Place(S, t, d)}
    BY <1>1, <1>5, <1>7 DEF Ahead
  <1>8. ASSUME d = "newest"
        PROVE  Ahead(F, t, "oldest") = {x \in F : Place(S, x, d) > Place(S, t, d)}
    <2>1. \A x \in F : Before(x, t, "oldest") <=> Before(t, x, "newest")
      BY <1>1 DEF Before
    <2> QED
      BY <1>1, <1>4, <1>6, <1>8, <2>1 DEF Ahead
  <1> QED
    BY <1>1, <1>2, <1>3, <1>7, <1>8

\* The answer has the rows of the page, moved by the lateness.
LEMMA KeptHasPage ==
    ASSUME NEW S, Numbers(S), NEW d \in Orders, NEW o \in Nat, NEW l \in Nat \ {0},
           NEW t \in S, o + Lateness(d) <= Place(S, t, d), Place(S, t, d) < o + l + Lateness(d)
    PROVE  t \in Kept(S, o, l, d)
  <1> DEFINE F == Returned(S, o, l, d)
             p == Place(S, t, d)
             A == Ahead(F, t, "oldest")
  <1>1. p \in Nat /\ Lateness(d) \in {0, 1}
    BY PlaceType DEF Lateness
  <1>2. t \in F
    BY <1>1 DEF Returned, Page
  <1>3. IsFiniteSet(A) /\ Cardinality(A) \in Nat
    BY OlderReturned, FS_CardinalityType
  <1>4. Cardinality(A) < l
    <2>1. CASE d = "oldest"
      <3>1. A \in SUBSET Page(S, o, p - o, d)
        <4>1. A = {x \in F : Place(S, x, d) < p}
          BY <2>1, OlderReturned
        <4>2. \A x \in F : x \in S /\ o <= Place(S, x, d) /\ Place(S, x, d) \in Nat
          BY PlaceType DEF Returned, Page
        <4> HIDE DEF A, F, p
        <4> QED
          BY <1>1, <4>1, <4>2 DEF Page
      <3>2. p - o \in Nat /\ p - o < l
        BY <1>1, <2>1 DEF Lateness
      <3>3. IsFiniteSet(Page(S, o, p - o, d)) /\ Cardinality(Page(S, o, p - o, d)) <= p - o
            /\ Cardinality(Page(S, o, p - o, d)) \in Nat
        BY <3>2, PageFits
      <3>4. Cardinality(A) <= Cardinality(Page(S, o, p - o, d))
        BY <3>1, <3>3, FS_Subset
      <3> HIDE DEF A, F, p
      <3> QED
        BY <1>3, <3>2, <3>3, <3>4
    <2>2. CASE d = "newest"
      <3>1. A \in SUBSET Page(S, p + 1, o + l - p, d)
        <4>1. A = {x \in F : Place(S, x, d) > p}
          BY <2>2, OlderReturned
        <4>2. \A x \in F : x \in S /\ Place(S, x, d) < o + (l + 1) /\ Place(S, x, d) \in Nat
          BY PlaceType DEF Returned, Page
        <4> HIDE DEF A, F, p
        <4> QED
          BY <1>1, <4>1, <4>2 DEF Page
      <3>2. o + l - p \in Nat /\ o + l - p < l
        BY <1>1, <2>2 DEF Lateness
      <3>3. IsFiniteSet(Page(S, p + 1, o + l - p, d))
            /\ Cardinality(Page(S, p + 1, o + l - p, d)) <= o + l - p
            /\ Cardinality(Page(S, p + 1, o + l - p, d)) \in Nat
        BY <1>1, <3>2, PageFits
      <3>4. Cardinality(A) <= Cardinality(Page(S, p + 1, o + l - p, d))
        BY <3>1, <3>3, FS_Subset
      <3> HIDE DEF A, F, p
      <3> QED
        BY <1>1, <1>3, <3>2, <3>3, <3>4
    <2> QED
      BY <2>1, <2>2 DEF Orders
  <1> HIDE DEF F
  <1> QED
    BY <1>2, <1>3, <1>4 DEF Kept, Page, Place, F

\* Where there are not, it has all rows from its start to the end.
LEMMA KeptIsRest ==
    ASSUME NEW S, Numbers(S), NEW d \in Orders, NEW o \in Nat, NEW l \in Nat \ {0},
           ~(Cardinality(Returned(S, o, l, d)) > l), NEW t \in S, Place(S, t, d) >= o
    PROVE  t \in Kept(S, o, l, d)
  <1> DEFINE F == Returned(S, o, l, d)
             p == Place(S, t, d)
             A == Ahead(F, t, "oldest")
  <1>1. p \in Nat /\ p >= o
    BY PlaceType
  <1>2. IsFiniteSet(F) /\ Cardinality(F) \in Nat /\ Cardinality(F) <= l
    BY PageFits DEF Returned
  <1>3. p < o + l
    <2> SUFFICES ASSUME p >= o + l PROVE FALSE
      BY <1>1
    <2>1. Cardinality(F) = l + 1
      BY <1>1, PageFull DEF Returned
    <2> HIDE DEF F
    <2> QED
      BY <1>2, <2>1
  <1>4. t \in F
    BY <1>1, <1>3 DEF Returned, Page
  <1>5. A \in SUBSET (F \ {t})
    <2>1. F \in SUBSET S /\ S \in SUBSET Nat
      BY DEF Returned, Page, Numbers
    <2>2. \A x \in F : Before(x, t, "oldest") => x # t
      BY <2>1 DEF Before
    <2> HIDE DEF F
    <2> QED
      BY <2>2 DEF Ahead
  <1> HIDE DEF F
  <1>6. IsFiniteSet(F \ {t}) /\ Cardinality(F \ {t}) = Cardinality(F) - 1
    BY <1>2, <1>4, FS_RemoveElement
  <1>7. Cardinality(A) <= Cardinality(F \ {t}) /\ Cardinality(A) \in Nat
    BY <1>5, <1>6, FS_Subset, FS_CardinalityType
  <1>8. Cardinality(A) < l
    BY <1>2, <1>6, <1>7
  <1> QED
    BY <1>4, <1>7, <1>8 DEF Kept, Page, Place, F

-----------------------------------------------------------------------------
(* A walk through a history. *)

Samples == History!Samples

Order == IF desc THEN "newest" ELSE "oldest"

\* The place in each table from which the next query reads, and the place from
\* which its answer shows what it read.
ReadPlace == IF at = "asking" THEN History!Offset ELSE History!Offset + limit
NextPlace == ReadPlace + Lateness(Order)

\* There is a next answer.
Open == at = "asking" \/ (at = "answered" /\ more)

\* The tables there are, and those that have no sample at a place or behind it.
Used == {tags[t] : t \in Samples}
Ended(p) == {g \in Used : \A t \in Samples : tags[t] = g => History!Rank(t) < p}

\* Samples the client was given that stand at a place of their table or behind.
Behind(p) == {t \in seen : History!Rank(t) >= p}

\* Samples no answer has read yet stand where the next queries will read them.
AllRead ==
    /\ Open => \A t \in lasting \ (seen \cup cut) : History!Rank(t) >= ReadPlace
    /\ ~Open => lasting \ seen \subseteq cut

\* Samples that may be shown again came there when others arrived, or were the
\* last that was shown of a table.
FewShownAgain ==
    /\ Open => twice + Cardinality(Behind(NextPlace))
                 <= arrived + (IF desc THEN Cardinality(Ended(ReadPlace)) ELSE 0)
    /\ ~Open => twice <= arrived + (IF desc THEN Cardinality(Used) ELSE 0)

\* Samples the walk is to show, other than the one a descending walk misses.
Due == {t \in lasting \ seen : ~(desc /\ t = newest)}

NoneLost ==
    /\ Open /\ (at = "answered" \/ page > 1)
          => \A t \in Due : Place(Samples, t, Order) >= NextPlace
    /\ ~Open => Due = {}

HistoryInv ==
    /\ History!TypeOK
    /\ AllRead
    /\ FewShownAgain
    /\ History!OneTable => NoneLost

\* The history's Cardinality is the library's, too.
LEMMA SameCardinalityInHistory ==
    /\ \A S : History!Cardinality(S) = Cardinality(S)
    /\ \A S : History!IsFiniteSet(S) <=> IsFiniteSet(S)
  <1>1. \A S : History!IsFiniteSet(S) <=> IsFiniteSet(S)
    BY Zenon DEF History!IsFiniteSet, IsFiniteSet
  <1>2. \A S : History!Cardinality(S) = Cardinality(S)
    BY Zenon DEF History!Cardinality, Cardinality
  <1> QED
    BY <1>1, <1>2

\* What the assumption says of the histories' constants.
LEMMA HistoryConstants ==
    /\ IsFiniteSet(Times) /\ Times \subseteq Nat
    /\ MaxLimit \in Nat /\ DefaultLimit \in 1..MaxLimit
    /\ Asked \subseteq Int
    /\ MaxChanges \in Nat
    /\ None \notin Tags
  BY WalksAssumption, SameCardinalityInHistory DEF History!HistoryAssumption

\* What the types say of the sets, and of the places a walk is at.
LEMMA HistoryFacts ==
    ASSUME History!TypeOK
    PROVE  /\ Numbers(Samples) /\ Samples \subseteq Times
           /\ IsFiniteSet(seen) /\ IsFiniteSet(lasting)
           /\ seen \subseteq Samples /\ lasting \subseteq Samples
           /\ limit \in Nat \ {0} /\ page \in Nat \ {0}
           /\ twice \in Nat /\ arrived \in Nat
           /\ History!Offset \in Nat /\ ReadPlace \in Nat /\ NextPlace \in Nat
           /\ Order \in Orders /\ Lateness(Order) \in {0, 1}
           /\ Lateness(Order) = (IF desc THEN 1 ELSE 0)
  <1>1. Samples \subseteq Times /\ seen \subseteq Samples /\ lasting \subseteq Samples
    BY DEF Samples, History!Samples, History!TypeOK
  <1>2. IsFiniteSet(Samples)
    BY <1>1, HistoryConstants, FS_Subset
  <1>3. IsFiniteSet(seen) /\ IsFiniteSet(lasting)
    BY <1>1, <1>2, FS_Subset
  <1>4. Numbers(Samples)
    BY <1>1, <1>2, HistoryConstants DEF Numbers
  <1>5. limit \in Nat \ {0} /\ page \in Nat \ {0} /\ twice \in Nat /\ arrived \in Nat
    BY HistoryConstants DEF History!TypeOK
  <1>6. History!Offset \in Nat
    BY <1>5, OffsetFacts DEF History!Offset
  <1>7. Order \in Orders /\ Lateness(Order) = (IF desc THEN 1 ELSE 0)
    BY DEF Order, Orders, Lateness
  <1>8. ReadPlace \in Nat /\ NextPlace \in Nat
    BY <1>5, <1>6, <1>7 DEF NextPlace, ReadPlace
  <1> QED
    BY <1>1, <1>3, <1>4, <1>5, <1>6, <1>7, <1>8

\* What is kept of the returned rows, whatever the tables.
LEMMA CutRecordsFacts ==
    ASSUME History!TypeOK
    PROVE  /\ History!CutRecords = Page(History!Fetched, 0, limit, "oldest")
           /\ History!CutRecords \in SUBSET Samples
           /\ Cardinality(History!CutRecords) <= limit
  <1>1. History!Fetched \in SUBSET Samples
    BY DEF History!Fetched, Samples
  <1>2. Numbers(History!Fetched)
    BY <1>1, HistoryFacts, FS_Subset DEF Numbers
  <1>3. \A t \in History!Fetched : History!Cardinality({x \in History!Fetched : x < t})
                                     = Place(History!Fetched, t, "oldest")
    BY SameCardinalityInHistory DEF Place, Ahead, Before
  <1>4. \A t \in History!Fetched : Place(History!Fetched, t, "oldest") \in Nat
    BY <1>2, OldestIsOrder, PlaceType
  <1>5. limit \in Nat
    BY HistoryFacts
  <1>6. History!CutRecords = Page(History!Fetched, 0, limit, "oldest")
    BY <1>3, <1>4, <1>5 DEF History!CutRecords, History!Oldest, Page
  <1>7. History!CutRecords \in SUBSET Samples
    BY <1>1, <1>6 DEF Page
  <1>8. Cardinality(Page(History!Fetched, 0, limit, "oldest")) <= limit
    BY <1>2, <1>5, OldestIsOrder, PageFits
  <1> QED
    BY <1>6, <1>7, <1>8

\* Samples with the tags of t.
TableOf(t) == {x \in Samples : tags[x] = tags[t]}

\* A rank is a place in a table.
LEMMA RankFacts ==
    ASSUME History!TypeOK, NEW t \in Samples
    PROVE  /\ Numbers(TableOf(t)) /\ TableOf(t) \subseteq Samples /\ t \in TableOf(t)
           /\ \A x \in TableOf(t) : History!Rank(x) = Place(TableOf(t), x, Order)
           /\ History!Rank(t) \in Nat
  <1>1. TableOf(t) \in SUBSET Samples /\ t \in TableOf(t)
    BY DEF TableOf
  <1>2. Numbers(TableOf(t))
    BY <1>1, HistoryFacts, FS_Subset DEF Numbers
  <1>3. ASSUME NEW x \in TableOf(t) PROVE History!Rank(x) = Place(TableOf(t), x, Order)
    <2>1. {y \in Samples : tags[y] = tags[x] /\ (IF desc THEN y > x ELSE y < x)}
            = Ahead(TableOf(t), x, Order)
      BY <1>3 DEF Ahead, Before, Order, TableOf
    <2> QED
      BY <2>1, SameCardinalityInHistory DEF History!Rank, Place, Samples
  <1>4. Order \in Orders
    BY HistoryFacts
  <1>5. Place(TableOf(t), t, Order) \in Nat
    BY <1>2, <1>4, PlaceType
  <1> QED
    BY <1>1, <1>2, <1>3, <1>5

\* In a table no two samples have one rank, and the ranks order the samples.
LEMMA RanksOrder ==
    ASSUME History!TypeOK, NEW x \in Samples, NEW t \in Samples, tags[x] = tags[t]
    PROVE  /\ History!Rank(x) = History!Rank(t) => x = t
           /\ desc /\ History!Rank(x) > History!Rank(t) => x < t
           /\ ~desc /\ History!Rank(x) < History!Rank(t) => x < t
  <1> DEFINE T == TableOf(t)
  <1>1. x \in T /\ t \in T
    BY DEF TableOf
  <1>2. /\ Numbers(T) /\ Order \in Orders
        /\ History!Rank(x) = Place(T, x, Order) /\ History!Rank(t) = Place(T, t, Order)
        /\ History!Rank(x) \in Nat /\ History!Rank(t) \in Nat
    BY <1>1, RankFacts, HistoryFacts
  <1> HIDE DEF T
  <1>3. History!Rank(x) = History!Rank(t) => x = t
    BY <1>1, <1>2, PlacesDiffer
  <1>4. ASSUME desc, History!Rank(x) > History!Rank(t) PROVE x < t
    <2>1. Before(t, x, Order)
      BY <1>1, <1>2, <1>4, PlacesReflect
    <2> QED
      BY <1>1, <1>2, <1>4, <2>1 DEF Before, Order, Numbers
  <1>5. ASSUME ~desc, History!Rank(x) < History!Rank(t) PROVE x < t
    <2>1. Before(x, t, Order)
      BY <1>1, <1>2, <1>5, PlacesReflect
    <2> QED
      BY <1>5, <2>1 DEF Before, Order
  <1> QED
    BY <1>3, <1>4, <1>5

\* In front of a sample the query reads as many of its table as there are places.
LEMMA ReadInFront ==
    ASSUME History!TypeOK, NEW t \in Samples, NEW p \in Nat, NEW n \in Nat,
           History!Offset <= p, p + n <= History!Offset + limit + 1,
           p + n <= History!Rank(t) + 1
    PROVE  \E P \in SUBSET History!Fetched :
              /\ IsFiniteSet(P) /\ Cardinality(P) = n
              /\ \A x \in P : x \in Samples /\ tags[x] = tags[t]
                              /\ p <= History!Rank(x) /\ History!Rank(x) < p + n
  <1> DEFINE T == TableOf(t)
             P == Page(T, p, n, Order)
  <1>1. /\ Numbers(T) /\ T \subseteq Samples /\ t \in T /\ Order \in Orders
        /\ \A x \in T : History!Rank(x) = Place(T, x, Order)
    BY RankFacts, HistoryFacts
  <1>2. \A x \in T : History!Rank(x) \in Nat /\ tags[x] = tags[t]
    BY <1>1, RankFacts DEF TableOf
  <1>3. History!Offset \in Nat /\ limit \in Nat
    BY HistoryFacts
  <1> HIDE DEF T
  <1>4. IsFiniteSet(P) /\ Cardinality(P) = n
    BY <1>1, PageFits, PageFull
  <1>5. \A x \in P : x \in Samples /\ tags[x] = tags[t]
                     /\ p <= History!Rank(x) /\ History!Rank(x) < p + n
    BY <1>1, <1>2 DEF Page
  <1>6. \A x \in P : x \in T
    BY DEF Page
  <1> HIDE DEF P
  <1>7. P \in SUBSET History!Fetched
    BY <1>2, <1>3, <1>5, <1>6 DEF History!Fetched, History!FetchLimit, Samples
  <1> QED
    BY <1>4, <1>5, <1>7

\* An answer keeps no record that has a page of older ones beside it.
LEMMA FewOlderThanKept ==
    ASSUME History!TypeOK, NEW t \in History!CutRecords,
           NEW P \in SUBSET History!Fetched, \A x \in P : x < t
    PROVE  Cardinality(P) < limit /\ Cardinality(P) \in Nat
  <1> DEFINE F == History!Fetched
  <1>1. F \in SUBSET Samples /\ Numbers(Samples) /\ limit \in Nat
    BY HistoryFacts DEF History!Fetched, Samples
  <1>2. Numbers(F)
    BY <1>1, FS_Subset DEF Numbers
  <1>3. Place(F, t, "oldest") < limit /\ Place(F, t, "oldest") \in Nat
    <2>1. t \in Page(F, 0, limit, "oldest")
      BY CutRecordsFacts
    <2>2. Place(F, t, "oldest") \in Nat
      BY <1>2, OldestIsOrder, PlaceType
    <2> QED
      BY <1>1, <2>1, <2>2 DEF Page
  <1>4. IsFiniteSet(Ahead(F, t, "oldest"))
    BY <1>2, OldestIsOrder, PlaceType
  <1>5. P \in SUBSET Ahead(F, t, "oldest")
    BY DEF Ahead, Before
  <1>6. Cardinality(P) <= Cardinality(Ahead(F, t, "oldest")) /\ Cardinality(P) \in Nat
    BY <1>4, <1>5, FS_Subset, FS_CardinalityType
  <1> QED
    BY <1>1, <1>3, <1>6 DEF Place

\* What an answer keeps of a table: in ascending order never the record beyond
\* the page, ...
LEMMA KeptRanks ==
    ASSUME History!TypeOK, NEW t \in History!CutRecords
    PROVE  /\ t \in Samples /\ History!Rank(t) \in Nat
           /\ History!Offset <= History!Rank(t)
           /\ History!Rank(t) < History!Offset + limit + Lateness(Order)
  <1>1. t \in Samples /\ t \in History!Fetched
    BY CutRecordsFacts DEF Page
  <1>2. /\ History!Rank(t) \in Nat /\ History!Offset \in Nat /\ limit \in Nat
        /\ Lateness(Order) = (IF desc THEN 1 ELSE 0)
    BY <1>1, RankFacts, HistoryFacts
  <1>3. History!Offset <= History!Rank(t) /\ History!Rank(t) < History!Offset + (limit + 1)
    BY <1>1 DEF History!Fetched, History!FetchLimit
  <1>4. ASSUME ~desc, History!Rank(t) = History!Offset + limit PROVE FALSE
    <2>1. PICK P \in SUBSET History!Fetched :
              /\ Cardinality(P) = limit
              /\ \A x \in P : x \in Samples /\ tags[x] = tags[t]
                              /\ History!Rank(x) < History!Offset + limit
      BY <1>1, <1>2, <1>4, ReadInFront
    <2>2. \A x \in P : x < t
      BY <1>1, <1>4, <2>1, RanksOrder
    <2>3. Cardinality(P) < limit
      BY <2>2, FewOlderThanKept
    <2> QED
      BY <1>2, <2>1, <2>3
  <1> QED
    BY <1>1, <1>2, <1>3, <1>4

\* ... and in descending order the first of its page only where the table ends
\* within the page.
LEMMA KeptFirst ==
    ASSUME History!TypeOK, desc, NEW t \in History!CutRecords,
           History!Rank(t) = History!Offset, NEW y \in Samples, tags[y] = tags[t]
    PROVE  History!Rank(y) < History!Offset + limit
  <1> SUFFICES ASSUME ~(History!Rank(y) < History!Offset + limit) PROVE FALSE
    OBVIOUS
  <1>1. t \in Samples
    BY KeptRanks
  <1>2. /\ History!Rank(y) \in Nat /\ History!Offset \in Nat /\ limit \in Nat
    BY RankFacts, HistoryFacts
  <1>3. PICK P \in SUBSET History!Fetched :
            /\ Cardinality(P) = limit
            /\ \A x \in P : x \in Samples /\ tags[x] = tags[y]
                            /\ History!Offset + 1 <= History!Rank(x)
    <2>1. History!Offset + 1 \in Nat /\ History!Offset <= History!Offset + 1
          /\ History!Offset + 1 + limit <= History!Offset + limit + 1
          /\ History!Offset + 1 + limit <= History!Rank(y) + 1
      BY <1>2
    <2> QED
      BY <1>2, <2>1, ReadInFront
  <1>4. \A x \in P : x < t
    <2>1. \A x \in P : x \in Samples /\ tags[x] = tags[t] /\ History!Rank(x) > History!Rank(t)
      BY <1>2, <1>3, RankFacts
    <2> QED
      BY <1>1, <2>1, RanksOrder
  <1>5. Cardinality(P) < limit
    BY <1>4, FewOlderThanKept
  <1> QED
    BY <1>2, <1>3, <1>5

\* Tables and samples behind a place can be counted.
LEMMA Countable ==
    ASSUME History!TypeOK, NEW p
    PROVE  /\ IsFiniteSet(Used) /\ Cardinality(Used) \in Nat
           /\ IsFiniteSet(Ended(p)) /\ Cardinality(Ended(p)) \in Nat
           /\ Cardinality(Ended(p)) <= Cardinality(Used)
           /\ IsFiniteSet(Behind(p)) /\ Cardinality(Behind(p)) \in Nat
  <1>1. IsFiniteSet(Used)
    <2> DEFINE f == [t \in Samples |-> tags[t]]
    <2>1. f \in Surjection(Samples, Used)
      BY Zenon DEF Surjection, Used
    <2>2. IsFiniteSet(Samples)
      BY HistoryFacts DEF Numbers
    <2> HIDE DEF f
    <2> QED
      BY <2>1, <2>2, FS_Surjection
  <1>2. Ended(p) \in SUBSET Used
    BY DEF Ended
  <1>3. Behind(p) \in SUBSET seen /\ IsFiniteSet(seen)
    BY HistoryFacts DEF Behind
  <1>4. IsFiniteSet(Ended(p)) /\ Cardinality(Ended(p)) <= Cardinality(Used)
    BY <1>1, <1>2, FS_Subset
  <1>5. IsFiniteSet(Behind(p))
    BY <1>3, FS_Subset
  <1> QED
    BY <1>1, <1>4, <1>5, FS_CardinalityType

\* What of this holds in the next state, too.
LEMMA NumbersOfWalk ==
    History!TypeOK =>
        /\ \A x \in Samples : History!Rank(x) \in Nat
        /\ IsFiniteSet(Used) /\ IsFiniteSet(Ended(ReadPlace))
        /\ Cardinality(Used) \in Nat /\ Cardinality(Ended(ReadPlace)) \in Nat
  BY RankFacts, Countable

\* While a device has one table a rank is a place, and what a query returns a
\* page of places.
LEMMA OneTableFacts ==
    ASSUME History!TypeOK, History!OneTable
    PROVE  /\ \A t \in Samples : History!Rank(t) = Place(Samples, t, Order)
           /\ History!Fetched = Returned(Samples, History!Offset, limit, Order)
  <1>1. \A a, b \in Used : a = b
    <2>1. IsFiniteSet(Used)
      BY Countable
    <2>2. Cardinality(Used) <= 1 /\ Cardinality(Used) \in Nat
      BY <2>1, SameCardinalityInHistory, FS_CardinalityType DEF History!OneTable, Samples, Used
    <2>3. CASE Cardinality(Used) = 0
      BY <2>1, <2>3, FS_EmptySet
    <2>4. CASE Cardinality(Used) = 1
      <3>1. PICK x : Used = {x}
        BY <2>1, <2>4, FS_Singleton
      <3> QED
        BY <3>1
    <2> QED
      BY <2>2, <2>3, <2>4
  <1>2. \A x, t \in Samples : tags[x] = tags[t]
    BY <1>1 DEF Used
  <1>3. ASSUME NEW t \in Samples PROVE History!Rank(t) = Place(Samples, t, Order)
    <2>1. {x \in Samples : tags[x] = tags[t] /\ (IF desc THEN x > t ELSE x < t)}
            = Ahead(Samples, t, Order)
      BY <1>2, <1>3 DEF Ahead, Before, Order
    <2> QED
      BY <2>1, SameCardinalityInHistory DEF History!Rank, Place, Samples
  <1>4. History!Fetched = Returned(Samples, History!Offset, limit, Order)
    BY <1>3 DEF History!Fetched, History!FetchLimit, Returned, Page, Samples
  <1> QED
    BY <1>3, <1>4

\* The newest sample is the first of a descending order.
LEMMA NewestFacts ==
    ASSUME History!TypeOK, Samples # {}
    PROVE  LET n == CHOOSE t \in History!Newest(Samples, 1) : TRUE
           IN  n \in Samples /\ Place(Samples, n, "newest") = 0
  <1> DEFINE n == CHOOSE t \in History!Newest(Samples, 1) : TRUE
  <1>1. Numbers(Samples)
    BY HistoryFacts
  <1>2. \A t \in Samples : /\ History!Cardinality({x \in Samples : x > t})
                                = Place(Samples, t, "newest")
                           /\ Place(Samples, t, "newest") \in Nat
    BY <1>1, NewestIsOrder, SameCardinalityInHistory, PlaceType DEF Place, Ahead, Before
  <1>3. PICK q \in Samples : Place(Samples, q, "newest") = 0
    <2>1. PICK r \in Samples : TRUE
      OBVIOUS
    <2>2. Place(Samples, r, "newest") \in Nat
      BY <1>1, NewestIsOrder, PlaceType
    <2> QED
      BY <1>1, <2>2, NewestIsOrder, NoGaps
  <1>4. q \in History!Newest(Samples, 1)
    BY <1>2, <1>3 DEF History!Newest
  <1>5. n \in History!Newest(Samples, 1)
    BY <1>4
  <1>6. n \in Samples /\ History!Cardinality({x \in Samples : x > n}) < 1
    BY <1>5 DEF History!Newest
  <1> HIDE DEF n
  <1>7. n \in Samples /\ Place(Samples, n, "newest") = 0
    BY <1>2, <1>6
  <1> QED
    BY <1>7 DEF n

\* At first no page has been asked for.
LEMMA HistoryInitially == History!Init => HistoryInv
  <1> SUFFICES ASSUME History!Init PROVE HistoryInv
    OBVIOUS
  <1>1. /\ tags \in [Times -> Tags \cup {None}] /\ limit = DefaultLimit /\ page = 1 /\ at = "done"
        /\ shown = {} /\ seen = {} /\ cut = {} /\ twice = 0 /\ lasting = {} /\ newest = None
        /\ arrived = 0
    BY DEF History!Init
  <1>2. desc \in BOOLEAN /\ more \in BOOLEAN
    BY Zenon DEF History!Init
  <1>3. History!Cardinality(shown) <= limit
    BY <1>1, SameCardinalityInHistory, FS_EmptySet, HistoryConstants
  <1>4. History!TypeOK
    BY <1>1, <1>2, <1>3, HistoryConstants DEF History!TypeOK
  <1>5. Due = {} /\ ~Open
    BY <1>1 DEF Due, Open
  <1>6. NoneLost
    BY <1>5 DEF NoneLost
  <1>7. FewShownAgain
    BY <1>1, <1>4, <1>5, Countable DEF FewShownAgain
  <1>8. AllRead
    BY <1>1, <1>5 DEF AllRead
  <1> QED
    BY <1>4, <1>6, <1>7, <1>8 DEF HistoryInv

\* A walk begins at offset 0, with all there is still to be shown.
LEMMA HistoryWalkKeepsInv == ASSUME HistoryInv, History!Walk PROVE HistoryInv'
  <1>1. /\ tags' = tags /\ page' = 1 /\ at' = "asking" /\ shown' = {} /\ seen' = {} /\ cut' = {}
        /\ twice' = 0 /\ lasting' = History!Samples /\ newest' = None /\ arrived' = 0
    BY DEF History!Walk
  <1>2. limit' \in 1..MaxLimit
    <2>1. PICK asked \in Asked : limit' = History!EffectiveLimit(asked)
      BY DEF History!Walk
    <2> QED
      BY <2>1, HistoryConstants DEF History!EffectiveLimit
  <1>3. desc' \in BOOLEAN /\ more' \in BOOLEAN
    BY Zenon DEF History!Walk
  <1>4. History!Cardinality(shown') <= limit'
    BY <1>1, <1>2, SameCardinalityInHistory, FS_EmptySet, HistoryConstants
  <1>5. History!Samples' = History!Samples
    BY <1>1 DEF History!Samples
  <1>6. History!TypeOK'
    BY <1>1, <1>2, <1>3, <1>4, <1>5, HistoryConstants DEF HistoryInv, History!TypeOK
  <1>7. Open'
    BY <1>1 DEF Open
  <1>8. NoneLost'
    BY <1>1, <1>7 DEF NoneLost
  <1>9. /\ \A t \in Samples' : History!Rank(t)' \in Nat
        /\ Cardinality(Ended(ReadPlace))' \in Nat
    <2>1. History!TypeOK' =>
             (/\ \A x \in Samples : History!Rank(x) \in Nat
              /\ IsFiniteSet(Used) /\ IsFiniteSet(Ended(ReadPlace))
              /\ Cardinality(Used) \in Nat /\ Cardinality(Ended(ReadPlace)) \in Nat)'
      BY NumbersOfWalk, PTL
    <2> QED
      BY <1>6, <2>1
  <1>10. FewShownAgain'
    <2>1. Behind(NextPlace)' = {}
      BY <1>1 DEF Behind
    <2>2. Cardinality(Behind(NextPlace)') = 0
      BY <2>1, FS_EmptySet
    <2>3. (IF desc' THEN Cardinality(Ended(ReadPlace))' ELSE 0) \in Nat
      BY <1>9
    <2>4. twice' + Cardinality(Behind(NextPlace))'
            <= arrived' + (IF desc' THEN Cardinality(Ended(ReadPlace))' ELSE 0)
      BY <1>1, <2>2, <2>3
    <2> QED
      BY <1>7, <2>4 DEF FewShownAgain
  <1>11. AllRead'
    <2>1. ReadPlace' = 0
      <3>1. limit' \in Nat \ {0}
        BY <1>2, HistoryConstants
      <3>2. \A l \in Nat \ {0} : (1 - 1) * l = 0
        BY OffsetFacts
      <3>3. (1 - 1) * limit' = 0
        BY <3>1, <3>2
      <3> QED
        BY <1>1, <3>3, Zenon DEF ReadPlace, History!Offset
    <2>2. lasting' \subseteq Samples'
      BY <1>1, <1>5 DEF Samples
    <2>3. \A t \in lasting' : History!Rank(t)' >= ReadPlace'
      BY <1>9, <2>1, <2>2
    <2> QED
      BY <1>7, <2>3 DEF AllRead
  <1> QED
    BY <1>6, <1>8, <1>10, <1>11 DEF HistoryInv

\* An answer shows what stands at its places; what it leaves for later stands
\* behind them.
LEMMA GetKeepsNoneLost ==
    ASSUME HistoryInv, History!OneTable, History!GetTelemetryHistory
    PROVE  NoneLost'
  <1> DEFINE S == Samples
             o == History!Offset
             C == History!CutRecords
             e == Lateness(Order)
  <1>0. History!TypeOK /\ NoneLost
    BY DEF HistoryInv
  <1>1. /\ at = "asking" /\ at' = "answered" /\ seen' = seen \cup C /\ lasting' = lasting
        /\ tags' = tags /\ page' = page /\ limit' = limit /\ desc' = desc
        /\ newest' = IF page = 1 /\ S # {} THEN CHOOSE t \in History!Newest(S, 1) : TRUE
                     ELSE newest
    BY DEF History!GetTelemetryHistory, History!walk, Samples
  <1>2. /\ Numbers(S) /\ o \in Nat /\ limit \in Nat \ {0} /\ page \in Nat \ {0}
        /\ Order \in Orders /\ e \in {0, 1} /\ e = (IF desc THEN 1 ELSE 0)
        /\ lasting \subseteq S /\ NextPlace \in Nat
    BY <1>0, HistoryFacts
  <1>3. History!Fetched = Returned(S, o, limit, Order) /\ C = Kept(S, o, limit, Order)
    BY <1>0, OneTableFacts, CutRecordsFacts DEF Kept
  <1>4. more' <=> Cardinality(Returned(S, o, limit, Order)) > limit
    BY <1>3, SameCardinalityInHistory DEF History!GetTelemetryHistory
  <1>5. /\ Samples' = S /\ Order' = Order /\ History!Offset' = o
        /\ NextPlace' = o + limit + e /\ NextPlace = o + e
    BY <1>1 DEF Samples, History!Samples, Order, History!Offset, NextPlace, ReadPlace
  <1>6. \A t \in S : Place(S, t, Order) \in Nat
    BY <1>2, PlaceType
  <1>7. ASSUME NEW t \in Due'
        PROVE  t \in S /\ t \notin C /\ Place(S, t, Order) >= o + e
    <2>1. t \in lasting /\ t \notin seen /\ t \notin C /\ ~(desc /\ t = newest')
      BY <1>1, <1>7 DEF Due
    <2>2. t \in S
      BY <1>2, <2>1
    <2>3. CASE page = 1
      <3>1. o = 0
        BY <1>2, <2>3, OffsetFacts DEF History!Offset
      <3>2. CASE desc
        <4>1. newest' \in S /\ Place(S, newest', Order) = 0
          BY <1>0, <1>1, <2>2, <2>3, <3>2, NewestFacts DEF Order
        <4>2. t # newest'
          BY <2>1, <3>2
        <4>3. Place(S, t, Order) # 0
          BY <1>2, <2>2, <4>1, <4>2, PlacesDiffer
        <4>4. e = 1
          BY <1>2, <3>2
        <4>5. Place(S, t, Order) \in Nat
          BY <1>6, <2>2
        <4> HIDE DEF S, o, C, e
        <4>6. Place(S, t, Order) >= o + e
          BY <3>1, <4>3, <4>4, <4>5
        <4> QED
          BY <2>1, <2>2, <4>6
      <3>3. CASE ~desc
        <4>1. e = 0
          BY <1>2, <3>3
        <4>2. Place(S, t, Order) \in Nat
          BY <1>6, <2>2
        <4> HIDE DEF S, o, C, e
        <4> QED
          BY <2>1, <2>2, <3>1, <4>1, <4>2
      <3> QED
        BY <3>2, <3>3
    <2>4. CASE page # 1
      <3>1. newest' = newest /\ page > 1
        BY <1>1, <1>2, <2>4
      <3>2. t \in Due
        BY <2>1, <3>1 DEF Due
      <3>3. Place(S, t, Order) >= NextPlace
        BY <1>0, <1>1, <3>1, <3>2 DEF NoneLost, Open
      <3> HIDE DEF S, o, C, e
      <3> QED
        BY <1>5, <2>1, <2>2, <3>3
    <2> QED
      BY <2>3, <2>4
  <1> HIDE DEF S, o, C, e
  <1>8. CASE more'
    <2>1. ASSUME NEW t \in Due' PROVE Place(S, t, Order) >= o + limit + e
      <3>1. t \in S /\ t \notin C /\ Place(S, t, Order) >= o + e /\ Place(S, t, Order) \in Nat
        BY <1>6, <1>7
      <3>2. ~(Place(S, t, Order) < o + limit + e)
        BY <1>2, <1>3, <3>1, KeptHasPage DEF e
      <3> QED
        BY <1>2, <3>1, <3>2
    <2> QED
      BY <1>1, <1>5, <1>8, <2>1 DEF NoneLost, Open
  <1>9. CASE ~more'
    <2>1. ASSUME NEW t \in Due' PROVE FALSE
      <3>1. t \in S /\ t \notin C /\ Place(S, t, Order) >= o + e /\ Place(S, t, Order) \in Nat
        BY <1>6, <1>7
      <3>2. Place(S, t, Order) >= o
        BY <1>2, <3>1
      <3> QED
        BY <1>2, <1>3, <1>4, <1>9, <3>1, <3>2, KeptIsRest
    <2> QED
      BY <1>1, <1>9, <2>1 DEF NoneLost, Open
  <1> QED
    BY <1>8, <1>9

\* The query leaves unread only what stands behind what it read, and where there
\* is any of that has_more is true.
LEMMA GetKeepsAllRead ==
    ASSUME HistoryInv, History!GetTelemetryHistory
    PROVE  AllRead'
  <1> DEFINE F == History!Fetched
             o == History!Offset
  <1>0. History!TypeOK /\ AllRead
    BY DEF HistoryInv
  <1>1. /\ at = "asking" /\ at' = "answered" /\ lasting' = lasting
        /\ seen' \cup cut' = seen \cup cut \cup History!CutRecords \cup (F \ History!CutRecords)
        /\ tags' = tags /\ page' = page /\ limit' = limit /\ desc' = desc
    BY DEF History!GetTelemetryHistory, History!walk
  <1>2. more' <=> Cardinality(F) > limit
    BY SameCardinalityInHistory DEF History!GetTelemetryHistory
  <1>3. /\ ReadPlace = o /\ ReadPlace' = o + limit
        /\ \A t : History!Rank(t)' = History!Rank(t)
    BY <1>1 DEF ReadPlace, History!Offset, History!Rank, History!Samples
  <1>4. limit \in Nat \ {0} /\ o \in Nat /\ lasting \subseteq Samples
    BY <1>0, HistoryFacts
  <1>5. ASSUME NEW t \in lasting' \ (seen' \cup cut')
        PROVE  t \in Samples /\ History!Rank(t) \in Nat /\ History!Rank(t) > o + limit
    <2>1. t \in lasting \ (seen \cup cut) /\ t \notin F /\ t \in Samples
      BY <1>1, <1>4, <1>5
    <2>2. History!Rank(t) >= o
      BY <1>0, <1>1, <1>3, <2>1 DEF AllRead, Open
    <2>3. ~(o <= History!Rank(t) /\ History!Rank(t) < o + (limit + 1))
      BY <2>1 DEF History!Fetched, History!FetchLimit, Samples
    <2>4. History!Rank(t) \in Nat
      BY <1>0, <2>1, RankFacts
    <2> HIDE DEF F, o
    <2> QED
      BY <1>4, <2>1, <2>2, <2>3, <2>4
  <1>6. ASSUME ~more', NEW t \in lasting' \ (seen' \cup cut') PROVE FALSE
    <2>1. /\ o <= o /\ o + (limit + 1) <= o + limit + 1 /\ limit + 1 \in Nat
          /\ o + (limit + 1) <= History!Rank(t) + 1 /\ t \in Samples
      <3>1. t \in Samples /\ History!Rank(t) \in Nat /\ History!Rank(t) > o + limit
        BY <1>5, <1>6
      <3> HIDE DEF o
      <3> QED
        BY <1>4, <3>1
    <2>2. PICK P \in SUBSET F : IsFiniteSet(P) /\ Cardinality(P) = limit + 1
      BY <1>0, <1>4, <2>1, ReadInFront
    <2>3. IsFiniteSet(F)
      BY <1>0, HistoryFacts, FS_Subset DEF Numbers, History!Fetched, Samples
    <2>4. Cardinality(P) <= Cardinality(F) /\ Cardinality(F) \in Nat
      BY <2>2, <2>3, FS_Subset, FS_CardinalityType
    <2> HIDE DEF F
    <2> QED
      BY <1>2, <1>4, <1>6, <2>2, <2>4
  <1> HIDE DEF F, o
  <1>7. \A t \in lasting' \ (seen' \cup cut') : History!Rank(t)' >= ReadPlace'
    BY <1>3, <1>4, <1>5
  <1>8. ~more' => lasting' \ (seen' \cup cut') = {}
    BY <1>6
  <1> QED
    BY <1>1, <1>7, <1>8 DEF AllRead, Open

\* Of what the query read, what is shown again stood behind the place from which
\* it shows, or it is the first of the page in a table that ends with the page.
LEMMA GetKeepsFewShownAgain ==
    ASSUME HistoryInv, History!GetTelemetryHistory
    PROVE  FewShownAgain'
  <1> DEFINE o == History!Offset
             C == History!CutRecords
             e == Lateness(Order)
             Again == seen \cap C
             Later == {t \in seen \cup C : History!Rank(t) >= o + limit + e}
             Firsts == {t \in Again : History!Rank(t) < o + e}
             Old == Behind(o + e)
  <1>0. History!TypeOK /\ FewShownAgain
    BY DEF HistoryInv
  <1>1. /\ at = "asking" /\ at' = "answered" /\ seen' = seen \cup C /\ arrived' = arrived
        /\ twice' = twice + Cardinality(Again)
        /\ tags' = tags /\ page' = page /\ limit' = limit /\ desc' = desc
    BY SameCardinalityInHistory DEF History!GetTelemetryHistory, History!walk
  <1>2. /\ o \in Nat /\ limit \in Nat \ {0} /\ e \in {0, 1} /\ e = (IF desc THEN 1 ELSE 0)
        /\ IsFiniteSet(seen) /\ seen \subseteq Samples /\ twice \in Nat /\ arrived \in Nat
    BY <1>0, HistoryFacts
  <1>3. /\ Samples' = Samples /\ Used' = Used /\ ReadPlace = o /\ NextPlace = o + e
        /\ ReadPlace' = o + limit /\ NextPlace' = o + limit + e
        /\ \A t : History!Rank(t)' = History!Rank(t)
    BY <1>1 DEF Samples, Used, ReadPlace, NextPlace, Order, History!Offset, History!Rank,
                History!Samples
  <1>4. Behind(NextPlace)' = Later /\ Ended(ReadPlace)' = Ended(o + limit)
    BY <1>1, <1>3 DEF Behind, Ended
  <1>5. twice + Cardinality(Old) <= arrived + (IF desc THEN Cardinality(Ended(o)) ELSE 0)
    BY <1>0, <1>1, <1>3 DEF FewShownAgain, Open
  <1>6. \A t \in C : /\ t \in Samples /\ History!Rank(t) \in Nat
                     /\ o <= History!Rank(t) /\ History!Rank(t) < o + limit + e
    BY <1>0, KeptRanks
  <1>7. \A t \in seen : t \in Samples /\ History!Rank(t) \in Nat
    BY <1>0, <1>2, RankFacts
  <1>8. IsFiniteSet(Again)
    BY <1>2, FS_Intersection
  <1>9. /\ IsFiniteSet(Old) /\ Cardinality(Old) \in Nat
        /\ Cardinality(Ended(o)) \in Nat /\ Cardinality(Ended(o + limit)) \in Nat
        /\ IsFiniteSet(Ended(o + limit)) /\ IsFiniteSet(Ended(o))
        /\ Cardinality(Used) \in Nat /\ Cardinality(Ended(o + limit)) <= Cardinality(Used)
    BY <1>0, Countable
  <1>10. /\ Later \in SUBSET Old /\ Again \ Firsts \in SUBSET Old
         /\ Later \cap (Again \ Firsts) = {} /\ Firsts \in SUBSET Again
    <2> HIDE DEF o, C, e
    <2> QED
      BY <1>2, <1>6, <1>7 DEF Behind
  <1>11. \/ /\ desc
            /\ Cardinality(Firsts) + Cardinality(Ended(o)) <= Cardinality(Ended(o + limit))
         \/ ~desc /\ Firsts = {}
    <2>1. CASE ~desc
      <3> HIDE DEF o, C
      <3> QED
        BY <1>2, <1>6, <2>1
    <2>2. CASE desc
      <3> DEFINE G == {tags[t] : t \in Firsts}
                 f == [t \in Firsts |-> tags[t]]
      <3>1. \A t \in Firsts : t \in C /\ t \in Samples /\ History!Rank(t) = o
        <4> HIDE DEF o, C
        <4> QED
          BY <1>2, <1>6, <2>2
      <3>2. \A t \in Firsts, y \in Samples : tags[y] = tags[t] => History!Rank(y) < o + limit
        BY <1>0, <2>2, <3>1, KeptFirst
      <3>3. \A t, y \in Firsts : tags[t] = tags[y] => t = y
        BY <1>0, <3>1, RanksOrder
      <3>4. IsFiniteSet(Firsts)
        BY <1>8, <1>10, FS_Subset
      <3> HIDE DEF o, C, Firsts
      <3>5. G \in SUBSET Ended(o + limit) /\ G \cap Ended(o) = {}
        BY <1>2, <3>1, <3>2 DEF Ended, Used
      <3>6. Ended(o) \in SUBSET Ended(o + limit)
        BY <1>0, <1>2, RankFacts DEF Ended
      <3>7. f \in Injection(Firsts, G) /\ f \in Surjection(Firsts, G)
        BY <3>3, Zenon DEF Injection, IsInjective, Surjection
      <3> HIDE DEF f, G
      <3>8. IsFiniteSet(G) /\ Cardinality(G) = Cardinality(Firsts)
        BY <3>4, <3>7, FS_Surjection
      <3>9. Cardinality(G \cup Ended(o))
              = Cardinality(G) + Cardinality(Ended(o)) - Cardinality(G \cap Ended(o))
        BY <1>9, <3>8, FS_Union
      <3>10. Cardinality(G \cap Ended(o)) = 0
        BY <3>5, FS_EmptySet
      <3>11. G \cup Ended(o) \in SUBSET Ended(o + limit)
        BY <3>5, <3>6
      <3>12. Cardinality(G \cup Ended(o)) <= Cardinality(Ended(o + limit))
        BY <1>9, <3>11, FS_Subset
      <3>13. Cardinality(G) \in Nat
        BY <3>8, FS_CardinalityType
      <3>14. Cardinality(Firsts) + Cardinality(Ended(o)) <= Cardinality(Ended(o + limit))
        BY <1>9, <3>8, <3>9, <3>10, <3>12, <3>13
      <3> QED
        BY <2>2, <3>14, Zenon
    <2> QED
      BY <2>1, <2>2
  <1> DEFINE Rest == Again \ Firsts
  <1>12. /\ Cardinality(Rest) + Cardinality(Later) <= Cardinality(Old)
         /\ Cardinality(Rest) \in Nat /\ Cardinality(Later) \in Nat
    <2> HIDE DEF Rest, Later, Old
    <2>1. IsFiniteSet(Rest) /\ IsFiniteSet(Later)
      BY <1>9, <1>10, FS_Subset DEF Rest
    <2>2. Cardinality(Rest \cup Later)
            = Cardinality(Rest) + Cardinality(Later) - Cardinality(Rest \cap Later)
      BY <2>1, FS_Union
    <2>3. Rest \cap Later = {} /\ Rest \cup Later \in SUBSET Old
      BY <1>10 DEF Rest
    <2>4. Cardinality(Rest \cap Later) = 0
      BY <2>3, FS_EmptySet
    <2>5. Cardinality(Rest \cup Later) <= Cardinality(Old)
      BY <1>9, <2>3, FS_Subset
    <2>6. Cardinality(Rest) \in Nat /\ Cardinality(Later) \in Nat
      BY <2>1, FS_CardinalityType
    <2> QED
      BY <1>9, <2>2, <2>4, <2>5, <2>6
  <1>13. Cardinality(Again) = Cardinality(Rest) + Cardinality(Firsts)
         /\ Cardinality(Firsts) \in Nat
    <2>1. Firsts \cup Rest = Again /\ Firsts \cap Rest = {}
      OBVIOUS
    <2>2. Firsts \in SUBSET Again /\ Rest \in SUBSET Again
      OBVIOUS
    <2> HIDE DEF Rest, Firsts, Again
    <2>3. IsFiniteSet(Firsts) /\ IsFiniteSet(Rest)
      BY <1>8, <2>2, FS_Subset
    <2>4. Cardinality(Firsts \cup Rest)
            = Cardinality(Firsts) + Cardinality(Rest) - Cardinality(Firsts \cap Rest)
      BY <2>3, FS_Union
    <2>5. Cardinality(Firsts \cap Rest) = 0
      BY <2>1, FS_EmptySet
    <2>6. Cardinality(Firsts) \in Nat /\ Cardinality(Rest) \in Nat
      BY <2>3, FS_CardinalityType
    <2>7. Cardinality(Again) = Cardinality(Firsts \cup Rest)
      BY <2>1
    <2> QED
      BY <2>4, <2>5, <2>6, <2>7
  <1>14. Firsts = {} => Cardinality(Firsts) = 0
    BY FS_EmptySet
  <1> HIDE DEF Rest, Firsts, Again, Later, Old, o, e, C
  <1>15. twice' + Cardinality(Later)
           <= arrived + (IF desc THEN Cardinality(Ended(o + limit)) ELSE 0)
    <2>1. CASE desc
      BY <1>1, <1>2, <1>5, <1>9, <1>11, <1>12, <1>13, <2>1
    <2>2. CASE ~desc
      BY <1>1, <1>2, <1>5, <1>9, <1>11, <1>12, <1>13, <1>14, <2>2
    <2> QED
      BY <2>1, <2>2
  <1>16. twice' <= arrived + (IF desc THEN Cardinality(Used) ELSE 0)
    <2>1. twice' \in Nat
      BY <1>1, <1>2, <1>12, <1>13
    <2> QED
      BY <1>2, <1>9, <1>12, <1>15, <2>1
  <1> QED
    BY <1>1, <1>3, <1>4, <1>15, <1>16 DEF FewShownAgain

\* The query and its cut keep the invariant.
LEMMA GetKeepsInv == ASSUME HistoryInv, History!GetTelemetryHistory PROVE HistoryInv'
  <1>0. History!TypeOK
    BY DEF HistoryInv
  <1>1. /\ at' = "answered" /\ shown' = History!CutRecords /\ seen' = seen \cup History!CutRecords
        /\ cut' = cut \cup (History!Fetched \ History!CutRecords)
        /\ twice' = twice + Cardinality(seen \cap History!CutRecords)
        /\ newest' = IF page = 1 /\ Samples # {}
                     THEN CHOOSE t \in History!Newest(Samples, 1) : TRUE ELSE newest
        /\ tags' = tags /\ page' = page /\ arrived' = arrived
        /\ desc' = desc /\ limit' = limit /\ lasting' = lasting
    BY SameCardinalityInHistory DEF History!GetTelemetryHistory, History!walk, Samples
  <1>2. /\ History!CutRecords \in SUBSET Samples /\ Cardinality(History!CutRecords) <= limit
        /\ History!Fetched \in SUBSET Samples
        /\ IsFiniteSet(seen) /\ twice \in Nat /\ Samples \subseteq Times
    BY <1>0, CutRecordsFacts, HistoryFacts DEF History!Fetched, Samples
  <1>3. Samples' = Samples /\ History!Samples' = Samples /\ History!Samples = Samples
    BY <1>1 DEF Samples, History!Samples
  <1>4. more' \in BOOLEAN
    <2>1. more' = (History!Cardinality(History!Fetched) > limit)
      BY DEF History!GetTelemetryHistory
    <2>2. \A n, l : (n > l) \in BOOLEAN
      OBVIOUS
    <2> QED
      BY <2>1, <2>2, Zenon
  <1>5. newest' \in Times \cup {None}
    BY <1>0, <1>1, <1>2, NewestFacts DEF History!TypeOK
  <1>6. twice' \in Nat
    <2>1. IsFiniteSet(seen \cap History!CutRecords)
      BY <1>2, FS_Intersection
    <2> QED
      BY <1>1, <1>2, <2>1, FS_CardinalityType
  <1>7. History!Cardinality(shown') <= limit'
    BY <1>1, <1>2, SameCardinalityInHistory
  <1>8. History!TypeOK'
    BY <1>0, <1>1, <1>2, <1>3, <1>4, <1>5, <1>6, <1>7 DEF History!TypeOK
  <1>9. History!OneTable' <=> History!OneTable
    BY <1>1, <1>3 DEF History!OneTable
  <1> QED
    BY <1>8, <1>9, GetKeepsNoneLost, GetKeepsAllRead, GetKeepsFewShownAgain DEF HistoryInv

\* The next page starts where the one before was to end.
LEMMA NextPageKeepsInv == ASSUME HistoryInv, History!NextPage PROVE HistoryInv'
  <1>0. History!TypeOK
    BY DEF HistoryInv
  <1>1. /\ at = "answered" /\ UNCHANGED <<tags, shown, more, seen, cut, twice, newest, arrived,
                                          desc, limit, lasting>>
        /\ (more /\ page' = page + 1 /\ at' = "asking") \/ (~more /\ page' = page /\ at' = "done")
    BY DEF History!NextPage, History!walk
  <1>2. Samples' = Samples /\ History!Samples' = History!Samples /\ Order' = Order /\ Due' = Due
    BY <1>1 DEF Samples, History!Samples, Order, Due
  <1>3. limit \in Nat \ {0} /\ page \in Nat \ {0} /\ Lateness(Order) \in {0, 1}
        /\ History!Offset \in Nat
    BY <1>0, HistoryFacts
  <1>4. History!TypeOK'
    BY <1>0, <1>1, <1>2, <1>3 DEF History!TypeOK
  <1>5. /\ History!OneTable' <=> History!OneTable
        /\ Used' = Used /\ \A t : History!Rank(t)' = History!Rank(t)
    BY <1>1, <1>2 DEF History!OneTable, Used, History!Rank
  <1>6. CASE more
    <2>1. page' = page + 1 /\ at' = "asking"
      BY <1>1, <1>6
    <2>2. History!Offset' = History!Offset + limit
      BY <1>1, <1>3, <2>1, OffsetFacts DEF History!Offset
    <2>3. ReadPlace' = ReadPlace /\ NextPlace' = NextPlace
      BY <1>1, <1>2, <2>1, <2>2 DEF NextPlace, ReadPlace
    <2>4. Behind(NextPlace)' = Behind(NextPlace) /\ Ended(ReadPlace)' = Ended(ReadPlace)
      BY <1>1, <1>2, <1>5, <2>3 DEF Behind, Ended
    <2>5. Open /\ Open' /\ page' > 1
      BY <1>1, <1>3, <1>6, <2>1 DEF Open
    <2>6. AllRead => AllRead'
      BY <1>1, <1>5, <2>3, <2>5 DEF AllRead
    <2>7. FewShownAgain => FewShownAgain'
      BY <1>1, <2>4, <2>5 DEF FewShownAgain
    <2>8. NoneLost => NoneLost'
      BY <1>1, <1>2, <2>3, <2>5 DEF NoneLost
    <2> QED
      BY <1>4, <1>5, <2>6, <2>7, <2>8 DEF HistoryInv
  <1>7. CASE ~more
    <2>1. ~Open /\ ~Open'
      BY <1>1, <1>7 DEF Open
    <2> QED
      BY <1>1, <1>2, <1>4, <1>5, <2>1 DEF HistoryInv, AllRead, NoneLost, FewShownAgain
  <1> QED
    BY <1>6, <1>7

\* A sample that arrives pushes those behind it in its table one place further.
LEMMA RankAfterWrite ==
    ASSUME History!TypeOK, NEW t \in Times, NEW g \in Tags, tags[t] = None,
           tags' = [tags EXCEPT ![t] = g], desc' = desc, NEW x \in Samples
    PROVE  /\ History!Rank(x) \in Nat
           /\ \/ History!Rank(x)' = History!Rank(x)
              \/ tags[x] = g /\ History!Rank(x)' = History!Rank(x) + 1
  <1> DEFINE T == TableOf(x)
  <1>1. /\ Numbers(T) /\ T \subseteq Samples /\ x \in T /\ Order \in Orders
        /\ History!Rank(x) = Place(T, x, Order) /\ History!Rank(x) \in Nat
    BY RankFacts, HistoryFacts
  <1>2. /\ tags \in [Times -> Tags \cup {None}] /\ g # None /\ t \in Nat
    BY HistoryConstants DEF History!TypeOK
  <1>3. t \notin Samples /\ History!Samples' = Samples \cup {t} /\ x \in Times /\ x # t
    BY <1>2 DEF Samples, History!Samples
  <1>4. x \in Nat /\ t \notin T
    BY <1>1, <1>3 DEF Numbers
  <1>5. \A y \in Samples : tags'[y] = tags[y]
    BY <1>2, <1>3 DEF Samples, History!Samples
  <1>6. tags'[t] = g /\ tags'[x] = tags[x]
    BY <1>2, <1>5
  <1>7. CASE tags[x] = g
    <2>1. {y \in History!Samples' : tags'[y] = tags'[x] /\ (IF desc' THEN y > x ELSE y < x)}
            = Ahead(T \cup {t}, x, Order)
      BY <1>3, <1>5, <1>6, <1>7 DEF Ahead, Before, Order, TableOf
    <2>2. History!Rank(x)' = Place(T \cup {t}, x, Order)
      BY <2>1, SameCardinalityInHistory DEF History!Rank, Place
    <2> HIDE DEF T
    <2>3. \/ Place(T \cup {t}, x, Order) = Place(T, x, Order) + 1
          \/ Place(T \cup {t}, x, Order) = Place(T, x, Order)
      BY <1>1, <1>2, <1>4, PlaceAfterEnter
    <2> QED
      BY <1>1, <1>7, <2>2, <2>3
  <1>8. CASE tags[x] # g
    <2>1. {y \in History!Samples' : tags'[y] = tags'[x] /\ (IF desc' THEN y > x ELSE y < x)}
            = Ahead(T, x, Order)
      BY <1>3, <1>5, <1>6, <1>8 DEF Ahead, Before, Order, TableOf
    <2>2. History!Rank(x)' = Place(T, x, Order)
      BY <2>1, SameCardinalityInHistory DEF History!Rank, Place
    <2> QED
      BY <1>1, <2>2
  <1> QED
    BY <1>7, <1>8

\* What was not read yet stands no nearer after a sample arrived.
LEMMA WriteKeepsAllRead ==
    ASSUME HistoryInv, NEW t \in Times, NEW g \in Tags, History!WriteTelemetry(t, g)
    PROVE  AllRead'
  <1>0. History!TypeOK /\ AllRead
    BY DEF HistoryInv
  <1>1. /\ tags[t] = None /\ tags' = [tags EXCEPT ![t] = g]
        /\ UNCHANGED <<page, at, more, seen, cut, desc, limit, lasting>>
    BY DEF History!WriteTelemetry, History!walk
  <1>2. ReadPlace' = ReadPlace /\ Open' = Open
    BY <1>1 DEF ReadPlace, History!Offset, Open
  <1>3. ReadPlace \in Nat /\ lasting \subseteq Samples
    BY <1>0, HistoryFacts
  <1>4. ASSUME NEW x \in Samples
        PROVE  /\ History!Rank(x) \in Nat
               /\ \/ History!Rank(x)' = History!Rank(x)
                  \/ History!Rank(x)' = History!Rank(x) + 1
    BY <1>0, <1>1, RankAfterWrite
  <1>5. ASSUME NEW x \in lasting, History!Rank(x) >= ReadPlace
        PROVE  History!Rank(x)' >= ReadPlace
    BY <1>3, <1>4, <1>5
  <1> QED
    BY <1>0, <1>1, <1>2, <1>5 DEF AllRead

\* A set has at most one element more than one that has all of it but one.
LEMMA AtMostOneMore ==
    ASSUME NEW S, IsFiniteSet(S), NEW x, NEW T \in SUBSET (S \cup {x})
    PROVE  Cardinality(T) <= Cardinality(S) + 1
  <1>1. IsFiniteSet(S \cup {x})
    BY FS_AddElement
  <1>2. Cardinality(S \cup {x}) \in {Cardinality(S), Cardinality(S) + 1}
    BY FS_AddElement
  <1>3. /\ Cardinality(T) <= Cardinality(S \cup {x})
        /\ Cardinality(T) \in Nat /\ Cardinality(S) \in Nat
    BY <1>1, FS_Subset, FS_CardinalityType
  <1> QED
    BY <1>2, <1>3

\* A sample that arrives takes one of its table over the place from which the
\* next answer shows, or brings a table back that had ended; never both.
LEMMA WriteKeepsFewShownAgain ==
    ASSUME HistoryInv, NEW t \in Times, NEW g \in Tags, History!WriteTelemetry(t, g),
           History!TypeOK'
    PROVE  FewShownAgain'
  <1> DEFINE p == ReadPlace
             q == NextPlace
             A == Behind(NextPlace)'
             B == Behind(q)
             D == Ended(ReadPlace)'
             E == Ended(p)
  <1>0. History!TypeOK /\ FewShownAgain
    BY DEF HistoryInv
  <1>1. /\ tags[t] = None /\ tags' = [tags EXCEPT ![t] = g] /\ arrived' = arrived + 1
        /\ UNCHANGED <<page, at, more, seen, twice, desc, limit>>
    BY DEF History!WriteTelemetry, History!walk
  <1>2. /\ tags \in [Times -> Tags \cup {None}] /\ g # None
    BY <1>0, HistoryConstants DEF History!TypeOK
  <1>3. /\ t \notin Samples /\ Samples' = Samples \cup {t}
        /\ \A x \in Samples : tags'[x] = tags[x] /\ x # t
        /\ tags'[t] = g
    BY <1>1, <1>2 DEF Samples, History!Samples
  <1>4. /\ ReadPlace' = p /\ NextPlace' = q /\ Open' = Open
        /\ p \in Nat /\ q = p + (IF desc THEN 1 ELSE 0)
        /\ seen \subseteq Samples /\ IsFiniteSet(seen) /\ twice \in Nat /\ arrived \in Nat
    <2>1. ReadPlace' = p /\ NextPlace' = q /\ Open' = Open
      BY <1>1 DEF ReadPlace, NextPlace, History!Offset, Order, Open
    <2>2. q = p + (IF desc THEN 1 ELSE 0)
      BY <1>0, HistoryFacts DEF NextPlace
    <2> QED
      BY <1>0, <2>1, <2>2, HistoryFacts
  <1>5. ASSUME NEW x \in Samples
        PROVE  /\ History!Rank(x) \in Nat
               /\ \/ History!Rank(x)' = History!Rank(x)
                  \/ tags[x] = g /\ History!Rank(x)' = History!Rank(x) + 1
    BY <1>0, <1>1, RankAfterWrite
  <1>6. /\ IsFiniteSet(Used) /\ Cardinality(Used) \in Nat
        /\ IsFiniteSet(E) /\ Cardinality(E) \in Nat
        /\ IsFiniteSet(B) /\ Cardinality(B) \in Nat
    BY <1>0, Countable
  <1>7. /\ IsFiniteSet(Used') /\ Cardinality(Used') \in Nat
        /\ IsFiniteSet(D) /\ Cardinality(D) \in Nat
    <2>1. History!TypeOK' =>
             (/\ \A x \in Samples : History!Rank(x) \in Nat
              /\ IsFiniteSet(Used) /\ IsFiniteSet(Ended(ReadPlace))
              /\ Cardinality(Used) \in Nat /\ Cardinality(Ended(ReadPlace)) \in Nat)'
      BY NumbersOfWalk, PTL
    <2> QED
      BY <2>1
  <1>8. Used' = Used \cup {g}
    BY <1>3 DEF Used
  <1>9. A = {x \in seen : History!Rank(x)' >= q}
    BY <1>1, <1>4 DEF Behind
  <1>10. D = {h \in Used' : \A x \in Samples' : tags'[x] = h => History!Rank(x)' < p}
    BY <1>1, <1>4 DEF Ended
  <1>11. E \ {g} \in SUBSET D
    <2> HIDE DEF D, p
    <2> QED
      BY <1>3, <1>5, <1>8, <1>10 DEF Ended
  <1>12. Cardinality(A) \in Nat /\ Cardinality(B) \in Nat
    <2>1. A \in SUBSET seen
      BY <1>9
    <2> QED
      BY <1>4, <1>6, <2>1, FS_Subset, FS_CardinalityType
  <1>13. Cardinality(A) + (IF desc THEN Cardinality(E) ELSE 0)
           <= Cardinality(B) + 1 + (IF desc THEN Cardinality(D) ELSE 0)
    <2>1. CASE A \in SUBSET B
      <3>1. Cardinality(A) <= Cardinality(B)
        BY <1>6, <2>1, FS_Subset
      <3>2. Cardinality(E) <= Cardinality(D) + 1
        <4> HIDE DEF D, E
        <4>1. E \in SUBSET (D \cup {g})
          BY <1>11
        <4> QED
          BY <1>7, <4>1, AtMostOneMore
      <3> HIDE DEF A, B, D, E
      <3> QED
        BY <1>6, <1>7, <1>12, <3>1, <3>2
    <2>2. CASE ~(A \in SUBSET B)
      <3>1. PICK y \in seen : History!Rank(y)' >= q /\ ~(History!Rank(y) >= q)
        BY <1>9, <2>2 DEF Behind
      <3> HIDE DEF A, B, D, E, p, q
      <3>2. y \in Samples /\ tags[y] = g /\ History!Rank(y) = q - 1 /\ History!Rank(y) \in Nat
        BY <1>4, <1>5, <3>1
      <3>3. \A x \in A \ B : x = y
        <4>1. ASSUME NEW x \in seen, History!Rank(x)' >= q, ~(History!Rank(x) >= q)
              PROVE  x \in Samples /\ tags[x] = g /\ History!Rank(x) = q - 1
          BY <1>4, <1>5, <4>1
        <4>2. \A x \in A \ B : x \in seen /\ History!Rank(x)' >= q /\ ~(History!Rank(x) >= q)
          BY <1>9 DEF Behind, B
        <4> QED
          BY <1>0, <3>2, <4>1, <4>2, RanksOrder
      <3>4. Cardinality(A) <= Cardinality(B) + 1
        <4>1. A \in SUBSET (B \cup {y})
          BY <3>3
        <4> QED
          BY <1>6, <4>1, AtMostOneMore
      <3>5. desc => Cardinality(E) <= Cardinality(D)
        <4>1. ASSUME desc PROVE g \notin E
          <5>1. History!Rank(y) = p
            BY <1>4, <3>2, <4>1
          <5>2. ~(History!Rank(y) < p)
            BY <1>4, <5>1
          <5> QED
            BY <3>2, <5>2 DEF E, Ended
        <4>2. desc => E \in SUBSET D
          BY <1>11, <4>1
        <4> QED
          BY <1>7, <4>2, FS_Subset
      <3> QED
        BY <1>6, <1>7, <1>12, <3>4, <3>5
    <2> QED
      BY <2>1, <2>2
  <1>14. Cardinality(Used) <= Cardinality(Used')
    BY <1>7, <1>8, FS_Subset
  <1>15. /\ Open => twice + Cardinality(B) <= arrived + (IF desc THEN Cardinality(E) ELSE 0)
         /\ ~Open => twice <= arrived + (IF desc THEN Cardinality(Used) ELSE 0)
    BY <1>0 DEF FewShownAgain
  <1> HIDE DEF A, B, D, E
  <1>16. Open => twice + Cardinality(A)
                   <= arrived + 1 + (IF desc THEN Cardinality(D) ELSE 0)
    BY <1>4, <1>6, <1>7, <1>12, <1>13, <1>15
  <1>17. ~Open => twice <= arrived + 1 + (IF desc THEN Cardinality(Used') ELSE 0)
    BY <1>4, <1>6, <1>7, <1>14, <1>15
  <1> QED
    BY <1>1, <1>4, <1>16, <1>17 DEF FewShownAgain, A, D

\* A sample that arrives pushes others away from the start, where a walk no
\* longer looks, and none nearer.
LEMMA WriteKeepsInv ==
    ASSUME HistoryInv, NEW t \in Times, NEW g \in Tags, History!WriteTelemetry(t, g)
    PROVE  HistoryInv'
  <1>0. History!TypeOK
    BY DEF HistoryInv
  <1>1. /\ tags[t] = None /\ tags' = [tags EXCEPT ![t] = g] /\ arrived < MaxChanges
        /\ arrived' = arrived + 1
        /\ UNCHANGED <<page, at, shown, more, seen, cut, twice, newest, desc, limit, lasting>>
    BY DEF History!WriteTelemetry, History!walk
  <1>2. /\ tags \in [Times -> Tags \cup {None}] /\ g # None /\ Times \subseteq Nat
    BY <1>0, HistoryConstants DEF History!TypeOK
  <1>3. t \notin Samples /\ Samples' = Samples \cup {t} /\ t \in Nat
    BY <1>1, <1>2 DEF Samples, History!Samples
  <1>4. /\ Numbers(Samples) /\ IsFiniteSet(seen) /\ seen \subseteq Samples /\ lasting \subseteq Samples
        /\ NextPlace \in Nat /\ Order \in Orders /\ twice \in Nat /\ arrived \in Nat
        /\ Lateness(Order) \in {0, 1}
    BY <1>0, HistoryFacts
  <1>5. History!TypeOK'
    <2>1. tags' \in [Times -> Tags \cup {None}]
      BY <1>1, <1>2
    <2>2. arrived' \in 0..MaxChanges
      BY <1>1, <1>4, HistoryConstants
    <2>3. History!Samples \subseteq History!Samples'
      BY <1>3 DEF Samples
    <2> QED
      BY <1>0, <1>1, <2>1, <2>2, <2>3 DEF History!TypeOK
  <1>6. ASSUME History!OneTable' PROVE History!OneTable
    <2>1. {tags[x] : x \in Samples} \in SUBSET {tags'[x] : x \in Samples'}
      BY <1>1, <1>2, <1>3
    <2>2. IsFiniteSet({tags'[x] : x \in Samples'})
      <3> DEFINE f == [x \in Samples' |-> tags'[x]]
                 T == {tags'[x] : x \in Samples'}
      <3>1. f \in Surjection(Samples', T)
        BY Zenon DEF Surjection
      <3>2. IsFiniteSet(Samples')
        BY <1>3, <1>4, FS_AddElement DEF Numbers
      <3> HIDE DEF f, T
      <3>3. IsFiniteSet(T)
        BY <3>1, <3>2, FS_Surjection
      <3> QED
        BY <3>3 DEF T
    <2>3. Cardinality({tags[x] : x \in Samples}) <= Cardinality({tags'[x] : x \in Samples'})
          /\ Cardinality({tags[x] : x \in Samples}) \in Nat
          /\ Cardinality({tags'[x] : x \in Samples'}) \in Nat
      BY <2>1, <2>2, FS_Subset, FS_CardinalityType
    <2>4. Cardinality({tags'[x] : x \in Samples'}) <= 1
      BY <1>6, SameCardinalityInHistory DEF History!OneTable, Samples
    <2>5. Cardinality({tags[x] : x \in Samples}) <= 1
      BY <2>3, <2>4
    <2> QED
      BY <2>5, SameCardinalityInHistory DEF History!OneTable, Samples
  <1>7. ASSUME History!OneTable PROVE NoneLost'
    <2>0. NoneLost
      BY <1>7 DEF HistoryInv
    <2>1. NextPlace' = NextPlace /\ Order' = Order /\ Due' = Due /\ Open' = Open
      BY <1>1 DEF NextPlace, ReadPlace, History!Offset, Order, Due, Open
    <2>2. \A x \in Samples : Place(Samples \cup {t}, x, Order) >= Place(Samples, x, Order)
                             /\ Place(Samples \cup {t}, x, Order) \in Nat
                             /\ Place(Samples, x, Order) \in Nat
      <3> SUFFICES ASSUME NEW x \in Samples
                   PROVE  Place(Samples \cup {t}, x, Order) >= Place(Samples, x, Order)
                          /\ Place(Samples \cup {t}, x, Order) \in Nat
                          /\ Place(Samples, x, Order) \in Nat
        OBVIOUS
      <3>1. x \in Nat /\ Place(Samples, x, Order) \in Nat
        BY <1>4, PlaceType DEF Numbers
      <3>2. Place(Samples \cup {t}, x, Order)
              = IF Before(t, x, Order) THEN Place(Samples, x, Order) + 1
                ELSE Place(Samples, x, Order)
        BY <1>3, <1>4, <3>1, PlaceAfterEnter
      <3> QED
        BY <3>1, <3>2
    <2>3. Due \subseteq Samples
      BY <1>4 DEF Due
    <2>4. NoneLost'
      <3>1. ASSUME NEW x \in Due, Place(Samples, x, Order) >= NextPlace
            PROVE  Place(Samples \cup {t}, x, Order) >= NextPlace
        BY <1>4, <2>2, <2>3, <3>1
      <3> QED
        BY <1>1, <1>3, <2>0, <2>1, <3>1 DEF NoneLost
    <2> QED
      BY <2>4
  <1>8. AllRead' /\ FewShownAgain'
    BY <1>5, WriteKeepsAllRead, WriteKeepsFewShownAgain
  <1> QED
    BY <1>5, <1>6, <1>7, <1>8 DEF HistoryInv

\* Every step of a walk through a history keeps its invariant.
LEMMA HistoryStep == ASSUME HistoryInv, History!Next PROVE HistoryInv'
  BY HistoryWalkKeepsInv, GetKeepsInv, NextPageKeepsInv, WriteKeepsInv DEF History!Next

-----------------------------------------------------------------------------
(* Either walk, and what its invariant says. *)

IInv == IF list = "history" THEN HistoryInv ELSE ListInv

\* Either walk begins with its invariant, ...
LEMMA InitInv == Init => IInv
  <1>1. ASSUME Lists!Init PROVE IInv
    <2>1. list # "history"
      BY <1>1 DEF Lists!Init
    <2> QED
      BY <1>1, <2>1, ListInitially DEF IInv
  <1>2. ASSUME History!Init, list = "history" PROVE IInv
    BY <1>2, HistoryInitially DEF IInv
  <1> QED
    BY <1>1, <1>2 DEF Init

\* A walk stays one through a list, or one through a history.
LEMMA KindStays == [Next]_vars => (list' = "history" <=> list = "history")
  <1> SUFFICES ASSUME [Next]_vars PROVE list' = "history" <=> list = "history"
    OBVIOUS
  <1>1. CASE list = "history" /\ UNCHANGED listVars
    BY <1>1 DEF listVars
  <1>2. CASE list # "history" /\ Lists!Next
    <2>1. list' = list
      BY <1>2 DEF Lists!Next, Lists!Walk, Lists!ReadPage, Lists!CountRows, Lists!CountFails,
                  Lists!Enter, Lists!Leave, Lists!OthersChange, Lists!table
    <2> QED
      BY <2>1
  <1>3. CASE UNCHANGED vars
    BY <1>3 DEF vars, listVars
  <1> QED
    BY <1>1, <1>2, <1>3 DEF Next

\* ... every step keeps it, ...
LEMMA StepInv == IInv /\ [Next]_vars => IInv'
  <1> SUFFICES ASSUME IInv, [Next]_vars PROVE IInv'
    OBVIOUS
  <1>1. CASE list # "history" /\ Lists!Next
    BY <1>1, KindStays, ListStep DEF IInv
  <1>2. CASE list = "history" /\ History!Next
    BY <1>2, KindStays, HistoryStep DEF IInv
  <1>3. CASE UNCHANGED vars
    <2>1. UNCHANGED <<limit, page, at, seen, twice, lasting, list, listed, others, got, entered,
                      left, fallback, tags, desc, shown, more, cut, newest, arrived>>
      BY <1>3 DEF vars, listVars, historyVars
    <2>2. ListInv => ListInv'
      BY <2>1 DEF ListInv, Lists!TypeOK, FewLost, FewAgain, Start, NextStart, Lists!Offset
    <2>3. HistoryInv => HistoryInv'
      <3>1. Samples' = Samples /\ History!Samples' = History!Samples
        BY <2>1 DEF Samples, History!Samples
      <3>2. /\ ReadPlace' = ReadPlace /\ NextPlace' = NextPlace /\ Order' = Order
            /\ Due' = Due /\ Open' = Open /\ Used' = Used
            /\ \A t : History!Rank(t)' = History!Rank(t)
        BY <2>1, <3>1 DEF ReadPlace, NextPlace, History!Offset, History!Rank, Order, Due, Open, Used
      <3>3. Behind(NextPlace)' = Behind(NextPlace) /\ Ended(ReadPlace)' = Ended(ReadPlace)
        BY <2>1, <3>1, <3>2 DEF Behind, Ended
      <3>4. (History!OneTable' <=> History!OneTable) /\ (History!TypeOK => History!TypeOK')
        BY <2>1, <3>1 DEF History!OneTable, History!TypeOK
      <3>5. NoneLost => NoneLost'
        BY <2>1, <3>1, <3>2 DEF NoneLost
      <3>6. FewShownAgain => FewShownAgain'
        BY <2>1, <3>2, <3>3 DEF FewShownAgain
      <3>7. AllRead => AllRead'
        BY <2>1, <3>2 DEF AllRead
      <3> QED
        BY <3>4, <3>5, <3>6, <3>7 DEF HistoryInv
    <2> QED
      BY <2>1, <2>2, <2>3 DEF IInv
  <1> QED
    BY <1>1, <1>2, <1>3 DEF Next

\* ... so it holds always.
LEMMA WalksInv == Spec => []IInv
  BY InitInv, StepInv, PTL DEF Spec

\* A page never has more rows than its limit, and an answer no more records,
\* all of which exist, for any limits a client asks for.
THEOREM WalksTypeCorrect == Spec => []TypeOK
  <1>1. IInv => TypeOK
    BY DEF IInv, ListInv, HistoryInv, TypeOK
  <1> QED
    BY <1>1, WalksInv, PTL

\* However rows come and go between statements and between pages, a walk to the
\* last page of a list misses no more of the rows that were there throughout
\* than rows left.  A walk through a history misses only what an answer of its
\* own had read and cut, however many combinations of tags the samples have, and
\* in ascending order of one combination none.
THEOREM WalksMissAtMostOnePerLeaving == Spec => []MissesAtMostOnePerLeaving
  <1>1. ASSUME IInv, list # "history" PROVE Lists!MissesAtMostOnePerLeaving
    BY <1>1, SameCardinality DEF IInv, ListInv, FewLost, Lists!MissesAtMostOnePerLeaving
  <1>2. ASSUME IInv, list = "history" PROVE History!AscendingMissesNothing
    BY <1>2 DEF IInv, HistoryInv, NoneLost, Open, Due, History!AscendingMissesNothing
  <1>3. ASSUME IInv, list = "history" PROVE History!MissesOnlyWhatWasCut
    BY <1>3 DEF IInv, HistoryInv, AllRead, Open, History!MissesOnlyWhatWasCut
  <1>4. IInv => MissesAtMostOnePerLeaving
    BY <1>1, <1>2, <1>3 DEF MissesAtMostOnePerLeaving
  <1> QED
    BY <1>4, WalksInv, PTL

\* In descending order, where an answer keeps the oldest of the records that
\* were read, a walk misses only the sample that was newest at its first page.
THEOREM DescendingWalkMissesOnlyNewest == Spec => []DescendingMissesOnlyNewest
  <1>1. ASSUME IInv, list = "history" PROVE History!DescendingMissesOnlyNewest
    BY <1>1 DEF IInv, HistoryInv, NoneLost, Open, Due, History!DescendingMissesOnlyNewest
  <1>2. IInv => DescendingMissesOnlyNewest
    BY <1>1 DEF DescendingMissesOnlyNewest
  <1> QED
    BY <1>2, WalksInv, PTL

\* A client is given rows again no more often than rows entered while it
\* walked, and records of a descending walk once more for each combination of
\* tags the samples have.
THEOREM WalksRepeatAtMostOnePerEntering == Spec => []RepeatsAtMostOnePerEntering
  <1>1. ASSUME IInv, list # "history" PROVE Lists!RepeatsAtMostOnePerEntering
    <2>1. Lists!TypeOK /\ FewAgain
      BY <1>1 DEF IInv, ListInv
    <2>2. at \in {"asking", "read", "done"} /\ twice \in Nat /\ entered \in Nat
          /\ Cardinality(From(seen, listed, Start, "newest")) \in Nat
      BY <2>1, NewestIsOrder, ListFacts, PartsFinite DEF Lists!TypeOK
    <2>3. twice <= entered
      BY <2>1, <2>2 DEF FewAgain
    <2> QED
      BY <2>3 DEF Lists!RepeatsAtMostOnePerEntering
  <1>2. ASSUME IInv, list = "history"
        PROVE  twice <= arrived + (IF desc THEN Cardinality(Used) ELSE 0)
    <2>1. History!TypeOK /\ FewShownAgain
      BY <1>2 DEF IInv, HistoryInv
    <2>2. /\ Cardinality(Behind(NextPlace)) \in Nat /\ Cardinality(Used) \in Nat
          /\ Cardinality(Ended(ReadPlace)) \in Nat
          /\ Cardinality(Ended(ReadPlace)) <= Cardinality(Used)
          /\ twice \in Nat /\ arrived \in Nat
      BY <2>1, HistoryFacts, Countable
    <2> QED
      BY <2>1, <2>2 DEF FewShownAgain
  <1>3. Cardinality(Used) = History!Cardinality({tags[t] : t \in History!Samples})
    BY SameCardinalityInHistory DEF Used, Samples
  <1>4. IInv => RepeatsAtMostOnePerEntering
    BY <1>1, <1>2, <1>3 DEF RepeatsAtMostOnePerEntering, History!RepeatsFewRecords
  <1> QED
    BY <1>4, WalksInv, PTL
================================================================================
