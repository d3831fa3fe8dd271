----------------------------- MODULE NumberSets -----------------------------
(***************************************************************************)
(* Finite sets of numbers: the greatest and the least member, and how many *)
(* members are on one side of another.  HostProofs needs them for the file *)
(* that comes last, WalkProofs for the offset of a page.                   *)
(***************************************************************************)
EXTENDS FiniteSetsExt, FiniteSetTheorems, WellFoundedInduction, TLAPS

\* How many members of S are greater than n: the place of n in S, from the
\* greatest on and counted from 0.
Above(S, n) == Cardinality({m \in S : m > n})

\* A set of numbers has a least member.
LEMMA LeastOf ==
  ASSUME NEW S \in SUBSET Nat, S # {}
  PROVE  \E x \in S : \A y \in S : x <= y
<1> DEFINE R == OpToRel(<, Nat)
<1>1. \A x, y \in Nat : <<y, x>> \notin R => x <= y
  BY DEF OpToRel
<1>2. IsWellFoundedOn(R, Nat)
  BY NatLessThanWellFounded
<1> HIDE DEF R
<1>3. \E x \in S : \A y \in S : ~ (<<y, x>> \in R)
  BY <1>2, WFMin
<1> QED
  BY <1>1, <1>3

\* A finite one has a greatest: take the least n for which some set of n
\* members had none, and one member out of that set.
LEMMA GreatestOf ==
  ASSUME NEW S \in SUBSET Nat, IsFiniteSet(S), S # {}
  PROVE  \E x \in S : \A y \in S : x >= y
<1> DEFINE Without(T) == T # {} /\ \A x \in T : \E y \in T : ~ (x >= y)
           Sizes == {n \in Nat : \E T \in SUBSET S : Without(T) /\ Cardinality(T) = n}
<1>1. SUFFICES ASSUME Without(S) PROVE FALSE
  OBVIOUS
<1>2. Sizes # {}
  BY <1>1, FS_CardinalityType
<1>3. PICK n \in Sizes : \A m \in Sizes : n <= m
  <2> HIDE DEF Sizes
  <2> QED
    BY <1>2, LeastOf, Sizes \subseteq Nat DEF Sizes
<1>4. PICK T \in SUBSET S : Without(T) /\ Cardinality(T) = n
  BY <1>3
<1>5. IsFiniteSet(T)
  BY <1>4, FS_Subset
<1>6. PICK x \in T : TRUE
  BY <1>4
<1>7. T \ {x} # {}
  BY <1>4, <1>6
<1>8. Cardinality(T \ {x}) = n - 1 /\ Cardinality(T \ {x}) \in Nat
  BY <1>4, <1>5, <1>6, FS_RemoveElement, FS_CardinalityType
<1>9. ~ Without(T \ {x})
  BY <1>3, <1>8
<1>10. PICK z \in T \ {x} : \A y \in T \ {x} : z >= y
  BY <1>7, <1>9
<1> QED
  BY <1>4, <1>6, <1>10

\* So Max and Min of the community modules are what they are named for.
LEMMA MaxOf ==
  ASSUME NEW S \in SUBSET Nat, IsFiniteSet(S), S # {}
  PROVE  Max(S) \in S /\ \A y \in S : Max(S) >= y
  BY GreatestOf DEF Max

\* Min is the least member.
LEMMA MinOf ==
  ASSUME NEW S \in SUBSET Nat, S # {}
  PROVE  Min(S) \in S /\ \A y \in S : Min(S) <= y
  BY LeastOf DEF Min

\* Of one number both are that number.
LEMMA MaxOfOne == ASSUME NEW x \in Nat PROVE Max({x}) = x /\ Min({x}) = x
  BY DEF Max, Min

----------------------------------------------------------------------------
(* The place of a member, from the greatest on                              *)

\* A finite set has finitely many members beyond n.
LEMMA AboveType ==
  ASSUME NEW S, IsFiniteSet(S), NEW n
  PROVE  Above(S, n) \in Nat /\ IsFiniteSet({m \in S : m > n})
  BY FS_Subset, FS_CardinalityType DEF Above

\* Of two members the greater has less above it.
LEMMA AboveDecreases ==
  ASSUME NEW S \in SUBSET Nat, IsFiniteSet(S), NEW c \in S, NEW d \in S, c < d
  PROVE  Above(S, d) < Above(S, c)
<1> DEFINE A == {m \in S : m > d}
           B == {m \in S : m > c}
<1>0. \A m \in S : m \in Nat
  OBVIOUS
<1>1. A \subseteq B /\ d \in B /\ d \notin A
  <2>1. c \in Nat /\ d \in Nat /\ d > c /\ ~ (d > d)
    BY <1>0
  <2>2. \A m \in S : m > d => m > c
    BY <1>0, <2>1
  <2> QED
    BY <2>1, <2>2
<1>2. IsFiniteSet(B) /\ Cardinality(A) \in Nat /\ Cardinality(B) \in Nat
  BY AboveType DEF Above
<1>3. Cardinality(A) <= Cardinality(B) /\ Cardinality(A) # Cardinality(B)
  <2> HIDE DEF A, B
  <2> QED
    BY <1>1, <1>2, FS_Subset
<1> QED
  BY <1>2, <1>3 DEF Above

\* Members at l places in a row: there are at most l of them.
LEMMA PageIsShort ==
  ASSUME NEW S \in SUBSET Nat, IsFiniteSet(S), NEW o \in Nat, NEW l \in Nat
  PROVE  Cardinality({c \in S : o <= Above(S, c) /\ Above(S, c) < o + l}) <= l
<1> DEFINE P == {c \in S : o <= Above(S, c) /\ Above(S, c) < o + l}
           f == [c \in P |-> Above(S, c)]
           places == o .. (o + l - 1)
<1>1. \A c \in P : Above(S, c) \in places
  <2>1. \A c \in P : Above(S, c) \in Nat
    BY AboveType
  <2> QED
    BY <2>1
<1>2. \A c, d \in P : c # d => Above(S, c) # Above(S, d)
  <2> SUFFICES ASSUME NEW c \in P, NEW d \in P, c # d PROVE Above(S, c) # Above(S, d)
    OBVIOUS
  <2>1. c \in Nat /\ d \in Nat /\ Above(S, c) \in Nat /\ Above(S, d) \in Nat
    BY AboveType
  <2>2. CASE c < d
    BY <2>1, <2>2, AboveDecreases
  <2>3. CASE d < c
    BY <2>1, <2>3, AboveDecreases
  <2> QED
    BY <2>1, <2>2, <2>3
<1>3. f \in Injection(P, places)
  <2> HIDE DEF P, places
  <2> QED
    BY <1>1, <1>2 DEF Injection, IsInjective
<1>4. IsFiniteSet(places) /\ Cardinality(places) = l
  BY FS_Interval
<1> HIDE DEF P, f, places
<1>5. Cardinality(P) <= l
  BY <1>3, <1>4, FS_Injection
<1> QED
  BY <1>5 DEF P

\* So fewer than o places are not more than o members.
LEMMA FrontIsShort ==
  ASSUME NEW S \in SUBSET Nat, IsFiniteSet(S), NEW o \in Nat
  PROVE  Cardinality({c \in S : Above(S, c) < o}) <= o
<1>0. \A c \in S : Above(S, c) \in Nat
  BY AboveType
<1>1. {c \in S : Above(S, c) < o} = {c \in S : 0 <= Above(S, c) /\ Above(S, c) < 0 + o}
  <2>1. \A c \in S : Above(S, c) < o <=> 0 <= Above(S, c) /\ Above(S, c) < 0 + o
    BY <1>0
  <2> QED
    BY <2>1, Zenon
<1> QED
  BY <1>1, PageIsShort

\* A page has no gaps: its last member is as far from the first place as the
\* page is long.
LEMMA PageIsFull ==
  ASSUME NEW S \in SUBSET Nat, IsFiniteSet(S), NEW o \in Nat, NEW l \in Nat, NEW P,
         P = {c \in S : o <= Above(S, c) /\ Above(S, c) < o + l}, NEW c \in P
  PROVE  Above(S, c) < o + Cardinality(P)
<1> DEFINE A == {d \in S : d > c}
           F == {d \in S : Above(S, d) < o}
           Q == P \ {c}
<1>1. IsFiniteSet(P) /\ IsFiniteSet(F) /\ IsFiniteSet(Q) /\ IsFiniteSet(A)
  BY FS_Subset
<1>2. A \subseteq F \cup Q
  <2> SUFFICES ASSUME NEW d \in A, d \notin F PROVE d \in Q
    OBVIOUS
  <2>1. Above(S, d) < Above(S, c) /\ Above(S, d) \in Nat /\ Above(S, c) \in Nat
    BY AboveDecreases, AboveType
  <2> QED
    BY <2>1
<1>3. Cardinality(F) <= o /\ Cardinality(A) = Above(S, c)
  BY FrontIsShort DEF Above
<1> HIDE DEF A, F
<1>4. Cardinality(Q) = Cardinality(P) - 1 /\ Cardinality(P) \in Nat
  BY <1>1, FS_RemoveElement, FS_CardinalityType
<1> HIDE DEF Q
<1>5. /\ Cardinality(F \cup Q) <= Cardinality(F) + Cardinality(Q) /\ IsFiniteSet(F \cup Q)
      /\ Cardinality(F \cup Q) \in Nat /\ Cardinality(F) \in Nat /\ Cardinality(Q) \in Nat
  <2>1. IsFiniteSet(F \cup Q) /\ IsFiniteSet(F \cap Q)
    BY <1>1, FS_Union, FS_Subset
  <2>2. /\ Cardinality(F \cup Q) \in Nat /\ Cardinality(F) \in Nat /\ Cardinality(Q) \in Nat
        /\ Cardinality(F \cap Q) \in Nat
    BY <1>1, <2>1, FS_CardinalityType
  <2>3. Cardinality(F \cup Q) = Cardinality(F) + Cardinality(Q) - Cardinality(F \cap Q)
    BY <1>1, FS_Union
  <2> QED
    BY <2>1, <2>2, <2>3
<1>6. Cardinality(A) <= Cardinality(F \cup Q) /\ Cardinality(A) \in Nat
  BY <1>1, <1>2, <1>5, FS_Subset, FS_CardinalityType
<1> QED
  BY <1>3, <1>4, <1>5, <1>6

\* What comes from place o on is at most what o leaves of S.
LEMMA RestIsShort ==
  ASSUME NEW S \in SUBSET Nat, IsFiniteSet(S), NEW o \in Nat, NEW T,
         T = {c \in S : Above(S, c) >= o}
  PROVE  T = {} \/ Cardinality(T) + o <= Cardinality(S)
<1> SUFFICES ASSUME T # {} PROVE Cardinality(T) + o <= Cardinality(S)
  OBVIOUS
<1>1. T \in SUBSET S /\ IsFiniteSet(T)
  BY FS_Subset
<1>2. PICK x \in T : \A y \in T : x >= y
  BY <1>1, GreatestOf
<1> DEFINE A == {d \in S : d > x}
<1>3. IsFiniteSet(A) /\ Cardinality(A) >= o /\ Cardinality(A) \in Nat
  BY <1>2, AboveType DEF Above
<1>4. T \cap A = {} /\ T \cup A \in SUBSET S
  <2>1. \A m \in S : m \in Nat
    OBVIOUS
  <2>2. \A y \in T : ~ (y > x)
    BY <1>1, <1>2, <2>1
  <2> QED
    BY <1>1, <2>2
<1> HIDE DEF A
<1>5. Cardinality(T \cup A) = Cardinality(T) + Cardinality(A)
  <2>1. Cardinality(T \cup A) = Cardinality(T) + Cardinality(A) - Cardinality({})
    BY <1>1, <1>3, <1>4, FS_Union
  <2>2. Cardinality({}) = 0 /\ Cardinality(T) \in Nat
    BY <1>1, FS_EmptySet, FS_CardinalityType
  <2> QED
    BY <1>3, <2>1, <2>2
<1>6. /\ Cardinality(T \cup A) <= Cardinality(S)
      /\ Cardinality(T) \in Nat /\ Cardinality(S) \in Nat
  BY <1>1, <1>4, FS_Subset, FS_CardinalityType
<1> QED
  BY <1>3, <1>5, <1>6

\* A new greatest member moves every other by one place ...
LEMMA AboveAdd ==
  ASSUME NEW S \in SUBSET Nat, IsFiniteSet(S), NEW x \in Nat, x \notin S, NEW c \in Nat, c < x
  PROVE  Above(S \cup {x}, c) = Above(S, c) + 1
<1>1. {m \in S \cup {x} : m > c} = {m \in S : m > c} \cup {x}
  OBVIOUS
<1>2. IsFiniteSet({m \in S : m > c}) /\ x \notin {m \in S : m > c}
  BY AboveType
<1> QED
  BY <1>1, <1>2, FS_AddElement DEF Above

\* ... and one taken out moves it by one at the most, towards the front.
LEMMA AboveRemove ==
  ASSUME NEW S \in SUBSET Nat, IsFiniteSet(S), NEW x \in S, NEW c \in Nat
  PROVE  Above(S \ {x}, c) \in {Above(S, c), Above(S, c) - 1}
<1>1. {m \in S \ {x} : m > c} = {m \in S : m > c} \ {x}
  OBVIOUS
<1>2. IsFiniteSet({m \in S : m > c})
  BY AboveType
<1> QED
  BY <1>1, <1>2, FS_RemoveElement DEF Above

====
