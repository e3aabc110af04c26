---------------------------- MODULE Metrics_proofs ----------------------------
(***************************************************************************)
(* Proofs about the metric plugins, for every value of their constants.    *)
(* LinkSequence: the loss and disorder that the metrics report are those   *)
(* of the messages really sent, whatever arrives.  MetricCatalog: what a   *)
(* batch executes is the lineage of what was asked for, in an order in     *)
(* which no dependency is missing.  AssociationMetrics: swaps, episodes,   *)
(* durations and identity segments, computed from sorted and merged        *)
(* intervals, are what the association says instant by instant.            *)
(*                                                                         *)
(* Each section states its lemmas before they are used; the theorems close *)
(* the sections of the link, of the catalog engine and of the relation.    *)
(***************************************************************************)
EXTENDS LinkSequence, MetricCatalog, AssociationMetrics, FiniteSetTheorems,
        SequenceTheorems, WellFoundedInduction, TLAPS

-----------------------------------------------------------------------------
(* Extrema, induction and sizes. *)

\* The natural numbers are well founded, said of sets rather than of operators:
\* this is the form of induction that the provers can apply.
LEMMA LeastNumber ==
    ASSUME NEW S, S \subseteq Nat, S # {}
    PROVE  \E n \in S : \A m \in S : n <= m
<1> DEFINE R == OpToRel(<, Nat)
<1>1. IsWellFoundedOn(R, Nat)
    BY NatLessThanWellFounded
<1>2. \A x, y \in Nat : x < y => <<x, y>> \in R
    BY DEF OpToRel
<1> HIDE DEF R
<1>3. PICK n \in S : \A y \in S : ~(<<y, n>> \in R)
    BY <1>1, WFMin
<1>4. ASSUME NEW m \in S
      PROVE  n <= m
    <2>1. n \in Nat /\ m \in Nat /\ ~(m < n)
        BY <1>2, <1>3
    <2> QED
        BY <2>1
<1> QED
    BY <1>4

\* Induction: a set that holds zero and with every number its successor.
LEMMA NaturalInduction ==
    ASSUME NEW S, 0 \in S, \A n \in Nat : n \in S => n + 1 \in S
    PROVE  Nat \subseteq S
<1> DEFINE T == Nat \ S
<1> SUFFICES ASSUME T # {} PROVE FALSE
    OBVIOUS
<1>1. PICK n \in T : \A m \in T : n <= m
    BY LeastNumber
<1>2. n # 0 /\ n - 1 \in Nat /\ n - 1 + 1 = n
    BY <1>1
<1>3. n - 1 \in S
    BY <1>1, <1>2
<1> QED
    BY <1>1, <1>2, <1>3

\* Max and Min are what their names say of any bounded set of integers.
LEMMA GreatestNumber ==
    ASSUME NEW S, S \subseteq Int, S # {}, NEW b \in Int, \A x \in S : x <= b
    PROVE  Max(S) \in S /\ \A x \in S : x <= Max(S)
<1> DEFINE T == {b - x : x \in S}
<1>1. T \subseteq Nat /\ T # {}
    <2>1. \A x \in S : b - x \in Nat
        OBVIOUS
    <2>2. PICK x \in S : TRUE
        OBVIOUS
    <2>3. b - x \in T
        OBVIOUS
    <2> QED
        BY <2>1, <2>3
<1>2. PICK n \in T : \A m \in T : n <= m
    BY <1>1, LeastNumber
<1>3. PICK x \in S : n = b - x
    BY <1>2
<1>4. \A y \in S : x >= y
    <2> SUFFICES ASSUME NEW y \in S PROVE x >= y
        OBVIOUS
    <2>1. b - y \in T
        OBVIOUS
    <2>2. b - x <= b - y /\ x \in Int /\ y \in Int
        BY <1>2, <1>3, <2>1
    <2> QED
        BY <2>2
<1>5. Max(S) \in S /\ \A y \in S : Max(S) >= y
    BY <1>4 DEF Max
<1> QED
    BY <1>5

\* The least of a bounded set is in it.
LEMMA SmallestNumber ==
    ASSUME NEW S, S \subseteq Nat, S # {}
    PROVE  Min(S) \in S /\ \A x \in S : Min(S) <= x
<1>1. \E n \in S : \A m \in S : n <= m
    BY LeastNumber
<1> QED
    BY <1>1 DEF Min

\* A set of integers within given bounds is finite, and has no more members
\* than there are numbers between them.
LEMMA WithinBounds ==
    ASSUME NEW a \in Int, NEW b \in Int, a <= b, NEW S \in SUBSET (a .. b)
    PROVE  IsFiniteSet(S) /\ Cardinality(S) \in Nat /\ Cardinality(S) <= b - a + 1
<1>1. IsFiniteSet(a .. b) /\ Cardinality(a .. b) = b - a + 1
    BY FS_Interval
<1> QED
    BY <1>1, FS_Subset, FS_CardinalityType

-----------------------------------------------------------------------------
(* Arithmetic of the sequence domain. *)

\* Quotient and remainder of an integer by a modulus.
LEMMA Division ==
    ASSUME NEW M \in Nat \ {0}, NEW a \in Int
    PROVE  /\ a % M \in 0 .. M - 1
           /\ a \div M \in Int
           /\ a = M * (a \div M) + (a % M)
OBVIOUS

\* No multiple of a modulus but zero is nearer to zero than the modulus.
LEMMA NoMultiple ==
    ASSUME NEW M \in Nat \ {0}, NEW k \in Int, M * k < M, M * k > 0 - M
    PROVE  k = 0
<1>1. CASE k >= 1
    <2>1. k - 1 \in Nat /\ M * k = M * (k - 1) + M
        BY <1>1
    <2>2. M * (k - 1) >= 0
        BY <2>1
    <2> QED
        BY <2>1, <2>2
<1>2. CASE k <= -1
    <2>1. (0 - k) - 1 \in Nat /\ M * k = 0 - M * ((0 - k) - 1) - M
        BY <1>2
    <2>2. M * ((0 - k) - 1) >= 0
        BY <2>1
    <2> QED
        BY <2>1, <2>2
<1> QED
    BY <1>1, <1>2

\* The distance of two numbers less than the modulus apart can be told from
\* their residues.
LEMMA ResidueDistance ==
    ASSUME NEW M \in Nat \ {0}, NEW a \in Int, NEW b \in Int, a - b \in 0 .. M - 1
    PROVE  ((a % M) - (b % M)) % M = a - b
<1> DEFINE d == (a % M) - (b % M)
           k == (a \div M) - (b \div M) + (d \div M)
<1>1. /\ a % M \in Int /\ b % M \in Int
      /\ a \div M \in Int /\ b \div M \in Int
      /\ a = M * (a \div M) + (a % M)
      /\ b = M * (b \div M) + (b % M)
    BY Division
<1>2. /\ d % M \in 0 .. M - 1
      /\ d \div M \in Int
      /\ d = M * (d \div M) + (d % M)
    BY <1>1, Division
<1>3. k \in Int /\ M * k = M * (a \div M) - M * (b \div M) + M * (d \div M)
    BY <1>1, <1>2
<1>4. M * k = (a - b) - (d % M)
    BY <1>1, <1>2, <1>3
<1>5. M * k < M /\ M * k > 0 - M
    BY <1>2, <1>4
<1>6. k = 0
    <2> HIDE DEF k
    <2> QED
        BY <1>3, <1>5, NoMultiple
<1>7. M * k = 0
    BY <1>6
<1> QED
    BY <1>2, <1>4, <1>7

-----------------------------------------------------------------------------
(* The link. *)

\* The type of the link's state.
LinkType ==
    /\ origin \in 0 .. Modulus - 1
    /\ sent \in 0 .. MaxSent
    /\ received \in Seq(1 .. MaxSent)

\* Every step of the link keeps the type.
LEMMA LinkTypeAlways == LinkSpec => []LinkType
<1>1. LinkInit => LinkType
    BY LinkConstants DEF LinkInit, LinkType
<1>2. ASSUME LinkType, [LinkNext]_link
      PROVE  LinkType'
    <2>1. CASE Send
        BY <1>2, <2>1, LinkConstants DEF Send, LinkType
    <2>2. ASSUME NEW n \in 1 .. MaxSent, Deliver(n)
          PROVE  LinkType'
        BY <1>2, <2>2 DEF Deliver, LinkType
    <2>3. CASE UNCHANGED link
        BY <1>2, <2>3 DEF link, LinkType
    <2> QED
        BY <1>2, <2>1, <2>2, <2>3 DEF LinkNext
<1> QED
    BY <1>1, <1>2, PTL DEF LinkSpec

\* The positions that the metrics see, and their ranks from the first one, are
\* numbers of the sequence domain, and the first rank is zero.
LEMMA RanksBounded ==
    ASSUME LinkType, received # <<>>
    PROVE  /\ Len(received) \in Nat \ {0}
           /\ DOMAIN received = 1 .. Len(received)
           /\ Ranks(Positions) \in [1 .. Len(received) -> 0 .. Modulus - 1]
           /\ Ranks(Positions)[1] = 0
<1> DEFINE M == Modulus
           n == Len(received)
           P(i) == (origin + received[i] - 1) % M
<1>1. M \in Nat \ {0} /\ origin \in Int
    BY LinkConstants DEF LinkType
<1>2. /\ n \in Nat \ {0} /\ DOMAIN received = 1 .. n
      /\ \A i \in 1 .. n : received[i] \in Int
    <2>1. received \in Seq(1 .. MaxSent)
        BY DEF LinkType
    <2>2. n \in Nat /\ DOMAIN received = 1 .. n
        BY <2>1
    <2>3. n # 0
        BY <2>1, EmptySeq
    <2>4. \A i \in 1 .. n : received[i] \in 1 .. MaxSent
        BY <2>1, ElementOfSeq
    <2> QED
        BY <2>2, <2>3, <2>4
<1>3. \A i \in 1 .. n : P(i) \in 0 .. M - 1
    <2> SUFFICES ASSUME NEW i \in 1 .. n PROVE P(i) \in 0 .. M - 1
        OBVIOUS
    <2>1. origin + received[i] - 1 \in Int
        BY <1>1, <1>2
    <2> QED
        BY <1>1, <2>1, Division
<1>4. Positions \in [1 .. n -> 0 .. M - 1]
    BY <1>2, <1>3 DEF Positions
<1>5. \A i \in 1 .. n : (Positions[i] - Positions[1]) % M \in 0 .. M - 1
    <2> SUFFICES ASSUME NEW i \in 1 .. n PROVE (Positions[i] - Positions[1]) % M \in 0 .. M - 1
        OBVIOUS
    <2>1. 1 \in 1 .. n
        BY <1>2
    <2>2. Positions[i] \in Int /\ Positions[1] \in Int
        BY <1>1, <1>4, <2>1
    <2>3. Positions[i] - Positions[1] \in Int
        BY <2>2
    <2> QED
        BY <1>1, <2>3, Division
<1>6. Ranks(Positions) \in [1 .. n -> 0 .. M - 1]
    BY <1>4, <1>5 DEF Ranks
<1>7. Ranks(Positions)[1] = 0
    <2>1. 1 \in 1 .. n
        BY <1>2
    <2>2. Positions[1] - Positions[1] = 0
        BY <1>1, <1>4, <2>1
    <2>3. Ranks(Positions)[1] = 0 % M
        BY <1>4, <2>1, <2>2 DEF Ranks
    <2>4. 0 % M \in 0 .. M - 1 /\ 0 \div M \in Int /\ 0 = M * (0 \div M) + (0 % M)
        BY <1>1, Division
    <2>5. 0 \div M = 0
        <3>1. M * (0 \div M) < M /\ M * (0 \div M) > 0 - M
            BY <1>1, <2>4
        <3> QED
            BY <1>1, <2>4, <3>1, NoMultiple
    <2> QED
        BY <1>1, <2>3, <2>4, <2>5
<1> QED
    BY <1>2, <1>6, <1>7

\* Both rates are fractions, whatever arrives.
LEMMA RatesAreFractions ==
    ASSUME LinkType, received # <<>>
    PROVE  /\ ExpectedCount(Positions) > MissingCount(Positions)
           /\ MissingCount(Positions) >= 0
           /\ OutOfOrderCount(Positions) < Len(received)
<1> DEFINE R == Ranks(Positions)
           S == ToSet(R)
           n == Len(received)
<1>1. /\ n \in Nat \ {0} /\ Modulus \in Nat \ {0}
      /\ R \in [1 .. n -> 0 .. Modulus - 1] /\ R[1] = 0
    BY RanksBounded, LinkConstants
<1> HIDE DEF R
<1>2. S \subseteq 0 .. Modulus - 1 /\ S \subseteq Int /\ R[1] \in S
    BY <1>1 DEF ToSet
<1> HIDE DEF S
<1>3. Max(S) \in S /\ \A x \in S : x <= Max(S)
    <2>1. Modulus - 1 \in Int /\ S # {} /\ \A x \in S : x <= Modulus - 1
        BY <1>1, <1>2
    <2> QED
        BY <1>2, <2>1, GreatestNumber
<1>4. Max(S) \in Nat /\ S \in SUBSET (0 .. Max(S))
    <2>1. Max(S) \in 0 .. Modulus - 1
        BY <1>2, <1>3
    <2>2. Max(S) \in Nat
        BY <1>1, <2>1
    <2>3. \A x \in S : x \in 0 .. Max(S)
        BY <1>1, <1>2, <1>3, <2>2
    <2> QED
        BY <2>2, <2>3
<1>5. IsFiniteSet(S) /\ Cardinality(S) \in Nat /\ Cardinality(S) <= Max(S) + 1
    <2>1. 0 \in Int /\ Max(S) \in Int /\ 0 <= Max(S)
        BY <1>4
    <2>2. IsFiniteSet(S) /\ Cardinality(S) \in Nat /\ Cardinality(S) <= Max(S) - 0 + 1
        BY <1>4, <2>1, WithinBounds
    <2> QED
        BY <1>4, <2>2
<1>6. Cardinality(S) # 0
    BY <1>2, <1>5, FS_EmptySet
<1>7. ExpectedCount(Positions) = Max(S) + 1 /\ MissingCount(Positions) = Max(S) + 1 - Cardinality(S)
    <2>1. S = ToSet(Ranks(Positions))
        BY DEF R, S
    <2>2. ExpectedCount(Positions) = Max(S) + 1
        BY <2>1 DEF ExpectedCount
    <2>3. MissingCount(Positions) = ExpectedCount(Positions) - Cardinality(S)
        BY <2>1 DEF MissingCount
    <2> QED
        BY <1>4, <1>5, <2>2, <2>3
<1> DEFINE Late == {i \in 1 .. n : \E j \in 1 .. i - 1 : R[i] < R[j]}
<1>8. OutOfOrderCount(Positions) = Cardinality(Late)
    <2>1. DOMAIN R = 1 .. n
        BY <1>1
    <2> QED
        BY <2>1 DEF OutOfOrderCount, R
<1>9. Late \subseteq (1 .. n) \ {1}
    OBVIOUS
<1>10. Cardinality(Late) <= n - 1
    <2>1. IsFiniteSet(1 .. n) /\ Cardinality(1 .. n) = n
        BY <1>1, FS_Interval
    <2>2. IsFiniteSet((1 .. n) \ {1}) /\ Cardinality((1 .. n) \ {1}) = n - 1
        <3>1. 1 \in 1 .. n
            BY <1>1
        <3> QED
            BY <2>1, <3>1, FS_RemoveElement
    <2> QED
        BY <1>9, <2>2, FS_Subset
<1>11. Cardinality(Late) \in Nat
    <2>1. IsFiniteSet(1 .. n)
        BY <1>1, FS_Interval
    <2> QED
        BY <1>9, <2>1, FS_Subset, FS_CardinalityType
<1> QED
    BY <1>1, <1>4, <1>5, <1>6, <1>7, <1>8, <1>10, <1>11

\* Numbers and ranks are the same but for the first number, when it is the
\* least and the others are less than a modulus away.
LEMMA RanksAreDistances ==
    ASSUME LinkType, received # <<>>, received[1] = Min(ToSet(received)), Reached <= Modulus
    PROVE  /\ Max(ToSet(received)) \in ToSet(received)
           /\ \A i \in 1 .. Len(received) :
                 /\ received[i] \in Nat /\ received[1] <= received[i]
                 /\ received[i] <= Max(ToSet(received))
                 /\ Ranks(Positions)[i] = received[i] - received[1]
<1> DEFINE n == Len(received)
           T == ToSet(received)
<1>1. /\ n \in Nat \ {0} /\ DOMAIN received = 1 .. n
      /\ Modulus \in Nat \ {0} /\ origin \in Int /\ MaxSent \in Int
      /\ received \in [1 .. n -> 1 .. MaxSent]
    BY LinkConstants, RanksBounded DEF LinkType
<1>2. /\ T \subseteq 1 .. MaxSent /\ T \subseteq Int /\ T \subseteq Nat
      /\ \A i \in 1 .. n : received[i] \in T
    BY <1>1 DEF ToSet
<1>3. T # {}
    BY <1>1, <1>2
<1> HIDE DEF T
<1>4. Max(T) \in T /\ \A x \in T : x <= Max(T)
    <2>1. \A x \in T : x <= MaxSent
        BY <1>1, <1>2
    <2> QED
        BY <1>1, <1>2, <1>3, <2>1, GreatestNumber
<1>5. Min(T) \in T /\ \A x \in T : Min(T) <= x
    BY <1>2, <1>3, SmallestNumber
<1>6. Max(T) - Min(T) + 1 <= Modulus /\ received[1] = Min(T)
    BY DEF Reached, T
<1>7. ASSUME NEW i \in 1 .. n
      PROVE  Ranks(Positions)[i] = received[i] - received[1]
    <2> DEFINE a == origin + received[i] - 1
               b == origin + received[1] - 1
    <2>1. received[i] \in T /\ received[i] \in Int /\ received[1] \in Int
        BY <1>1, <1>2
    <2>2. a - b = received[i] - received[1] /\ a \in Int /\ b \in Int
        BY <1>1, <2>1
    <2>3. a - b \in 0 .. Modulus - 1
        <3>1. /\ Max(T) \in Int /\ Min(T) \in Int
              /\ Min(T) <= received[i] /\ received[i] <= Max(T)
            BY <1>2, <1>4, <1>5, <2>1
        <3>2. received[i] - received[1] \in 0 .. Modulus - 1
            BY <1>1, <1>6, <2>1, <3>1
        <3> QED
            BY <2>2, <3>2
    <2>4. Positions[i] = a % Modulus /\ Positions[1] = b % Modulus /\ DOMAIN Positions = 1 .. n
        BY <1>1 DEF Positions
    <2>5. Ranks(Positions)[i] = ((a % Modulus) - (b % Modulus)) % Modulus
        BY <2>4 DEF Ranks
    <2> HIDE DEF a, b
    <2> QED
        BY <1>1, <2>2, <2>3, <2>5, ResidueDistance
<1> QED
    BY <1>1, <1>2, <1>4, <1>5, <1>6, <1>7 DEF T

\* A member that no other exceeds is the greatest.
LEMMA GreatestIs ==
    ASSUME NEW S, S \subseteq Int, NEW m \in S, \A x \in S : x <= m
    PROVE  Max(S) = m
<1>1. S # {} /\ m \in Int
    OBVIOUS
<1>2. Max(S) \in S /\ m <= Max(S)
    BY <1>1, GreatestNumber
<1>3. Max(S) \in Int /\ Max(S) <= m
    BY <1>2
<1> QED
    BY <1>1, <1>2, <1>3

\* A set of integers shifted by a constant has as many members as before.
LEMMA ShiftedSize ==
    ASSUME NEW T, T \subseteq Int, IsFiniteSet(T), NEW c \in Int
    PROVE  /\ IsFiniteSet({x - c : x \in T})
           /\ Cardinality({x - c : x \in T}) = Cardinality(T)
<1> DEFINE S == {x - c : x \in T}
           f == [x \in T |-> x - c]
<1>1. f \in [T -> S]
    OBVIOUS
<1>2. f \in Surjection(T, S)
    <2>1. \A y \in S : \E x \in T : f[x] = y
        OBVIOUS
    <2> HIDE DEF f, S
    <2> QED
        BY <1>1, <2>1 DEF Surjection
<1>3. f \in Injection(T, S)
    <2>1. \A x, y \in T : f[x] = f[y] => x = y
        <3> SUFFICES ASSUME NEW x \in T, NEW y \in T, x - c = y - c PROVE x = y
            OBVIOUS
        <3>1. x \in Int /\ y \in Int
            OBVIOUS
        <3> QED
            BY <3>1
    <2> QED
        BY <1>1, <2>1 DEF Injection, IsInjective
<1> HIDE DEF f, S
<1>4. IsFiniteSet(S) /\ (Cardinality(S) = Cardinality(T) <=> f \in Injection(T, S))
    BY <1>2, FS_Surjection
<1> QED
    BY <1>3, <1>4 DEF S

\* Across a wrap of the numbers the metrics count what was really lost and what
\* really came late.
LEMMA CountsAreThoseSent ==
    ASSUME LinkType, received # <<>>, received[1] = Min(ToSet(received)), Reached <= Modulus
    PROVE  /\ ExpectedCount(Positions) = Reached
           /\ MissingCount(Positions) =
                 Cardinality((received[1] .. Max(ToSet(received))) \ ToSet(received))
           /\ OutOfOrderCount(Positions) =
                 Cardinality({i \in DOMAIN received : \E j \in 1 .. i - 1 : received[i] < received[j]})
<1> DEFINE R == Ranks(Positions)
           n == Len(received)
           T == ToSet(received)
           S == ToSet(R)
           c == received[1]
           top == Max(T)
<1>1. /\ n \in Nat \ {0} /\ DOMAIN received = 1 .. n
      /\ R \in [1 .. n -> 0 .. Modulus - 1] /\ Modulus \in Nat \ {0}
    BY RanksBounded, LinkConstants
<1>2. /\ top \in T
      /\ \A i \in 1 .. n : received[i] \in Nat /\ c <= received[i] /\ received[i] <= top
                           /\ R[i] = received[i] - c
    BY RanksAreDistances
<1>3. c \in Nat /\ c \in Int /\ top \in Int /\ c <= top
    <2>1. 1 \in 1 .. n
        BY <1>1
    <2>2. \E i \in 1 .. n : received[i] = top
        BY <1>1, <1>2 DEF ToSet
    <2> QED
        BY <1>2, <2>1, <2>2
<1>4. T \in SUBSET (c .. top) /\ T \subseteq Int
    <2>1. \A i \in 1 .. n : received[i] \in c .. top
        BY <1>2, <1>3
    <2> QED
        BY <1>1, <1>3, <2>1 DEF ToSet
<1>5. S = {x - c : x \in T}
    <2>1. S = {R[i] : i \in 1 .. n} /\ T = {received[i] : i \in 1 .. n}
        BY <1>1 DEF ToSet
    <2>2. \A i \in 1 .. n : R[i] = received[i] - c
        BY <1>2
    <2> HIDE DEF R, S, T, c
    <2> QED
        BY <2>1, <2>2
<1> HIDE DEF R, S, T, top
<1>6. IsFiniteSet(T) /\ Cardinality(T) \in Nat
    BY <1>3, <1>4, WithinBounds
<1>7. Cardinality(S) = Cardinality(T)
    BY <1>3, <1>4, <1>5, <1>6, ShiftedSize
<1>8. Max(S) = top - c
    <2>1. S \subseteq Int /\ \A y \in S : y <= top - c
        BY <1>3, <1>4, <1>5
    <2>2. top - c \in S
        BY <1>2, <1>5
    <2> QED
        BY <2>1, <2>2, GreatestIs
<1>9. Reached = top - c + 1
    BY DEF Reached, top, T
<1>10. ExpectedCount(Positions) = top - c + 1
    BY <1>3, <1>8 DEF ExpectedCount, R, S
<1>11. MissingCount(Positions) = (top - c + 1) - Cardinality(T)
    BY <1>3, <1>6, <1>7, <1>10 DEF MissingCount, R, S
<1>12. Cardinality((c .. top) \ T) = (top - c + 1) - Cardinality(T)
    <2>1. IsFiniteSet(c .. top) /\ Cardinality(c .. top) = top - c + 1
        BY <1>3, FS_Interval
    <2>2. Cardinality((c .. top) \ T) = Cardinality(c .. top) - Cardinality((c .. top) \cap T)
        BY <2>1, FS_Difference
    <2>3. (c .. top) \cap T = T
        BY <1>4
    <2> QED
        BY <2>1, <2>2, <2>3
<1>13. OutOfOrderCount(Positions) =
           Cardinality({i \in DOMAIN received : \E j \in 1 .. i - 1 : received[i] < received[j]})
    <2> DEFINE late == {i \in 1 .. n : \E j \in 1 .. i - 1 : R[i] < R[j]}
               truly == {i \in 1 .. n : \E j \in 1 .. i - 1 : received[i] < received[j]}
    <2>1. DOMAIN R = 1 .. n
        BY <1>1
    <2>2. OutOfOrderCount(Positions) = Cardinality(late)
        BY <2>1 DEF OutOfOrderCount, R
    <2>3. ASSUME NEW i \in 1 .. n, NEW j \in 1 .. i - 1
          PROVE  R[i] < R[j] <=> received[i] < received[j]
        <3>1. j \in 1 .. n
            BY <1>1
        <3>2. R[i] = received[i] - c /\ R[j] = received[j] - c
              /\ received[i] \in Nat /\ received[j] \in Nat
            BY <1>2, <3>1
        <3> QED
            BY <1>3, <3>2
    <2>4. late = truly
        BY <2>3
    <2> QED
        BY <1>1, <2>2, <2>4
<1> QED
    BY <1>9, <1>10, <1>11, <1>12, <1>13 DEF top, T

\* Whatever the link loses, repeats and reorders, both rates are fractions; and
\* when the first message received is the least and the others are within a
\* modulus of it, they count exactly the messages lost and those that came late.
THEOREM SequencesExactAlways == LinkSpec => []SequencesExact
<1>1. LinkType => SequencesExact
    BY RatesAreFractions, CountsAreThoseSent DEF SequencesExact
<1> QED
    BY <1>1, LinkTypeAlways, PTL

-----------------------------------------------------------------------------
(* Folds. *)

\* The functions that fold over the subsets of 1 .. n.
FoldsOver(T, base, n, F) ==
    {h \in [SUBSET (1 .. n) -> T] :
       \A s \in SUBSET (1 .. n) :
          h[s] = IF s = {} THEN base ELSE F[<<Max(s), h[s \ {Max(s)}]>>]}

\* A fold over 1 .. n, from the greatest index down, is a function: the equation
\* that defines it has a solution.  The step is given as a function of the
\* index and of what the smaller indexes give.
LEMMA FoldExists ==
    ASSUME NEW T, NEW base \in T, NEW n \in Nat, NEW F \in [(1 .. n) \X T -> T]
    PROVE  FoldsOver(T, base, n, F) # {}
<1> DEFINE Solutions(k) == FoldsOver(T, base, k, F)
           Good == {k \in Nat : k <= n => Solutions(k) # {}}
<1>1. 0 \in Good
    <2> DEFINE h == [s \in SUBSET (1 .. 0) |-> base]
    <2>1. h \in [SUBSET (1 .. 0) -> T]
        OBVIOUS
    <2>2. \A s \in SUBSET (1 .. 0) : s = {}
        OBVIOUS
    <2>3. \A s \in SUBSET (1 .. 0) : h[s] = base
        OBVIOUS
    <2>4. h \in Solutions(0)
        BY <2>1, <2>2, <2>3 DEF FoldsOver
    <2> HIDE DEF Solutions, h
    <2> QED
        BY <2>4
<1>2. ASSUME NEW k \in Nat, k \in Good
      PROVE  k + 1 \in Good
    <2> HIDE DEF Solutions
    <2> SUFFICES ASSUME k + 1 <= n PROVE Solutions(k + 1) # {}
        OBVIOUS
    <2>1. PICK g : g \in Solutions(k)
        <3>1. k <= n
            OBVIOUS
        <3> QED
            BY <1>2, <3>1
    <2> USE DEF Solutions, FoldsOver
    <2> DEFINE h == [s \in SUBSET (1 .. k + 1) |->
                        IF k + 1 \in s THEN F[<<k + 1, g[s \ {k + 1}]>>] ELSE g[s]]
    <2>2. ASSUME NEW s \in SUBSET (1 .. k + 1)
          PROVE  s \ {k + 1} \in SUBSET (1 .. k) /\ (k + 1 \notin s => s \in SUBSET (1 .. k))
        OBVIOUS
    <2>3. h \in [SUBSET (1 .. k + 1) -> T]
        <3> SUFFICES ASSUME NEW s \in SUBSET (1 .. k + 1)
                     PROVE  (IF k + 1 \in s THEN F[<<k + 1, g[s \ {k + 1}]>>] ELSE g[s]) \in T
            OBVIOUS
        <3>1. k + 1 \in 1 .. n
            OBVIOUS
        <3>2. g[s \ {k + 1}] \in T
            BY <2>1, <2>2
        <3>3. F[<<k + 1, g[s \ {k + 1}]>>] \in T
            BY <3>1, <3>2
        <3> QED
            BY <2>1, <2>2, <3>3
    <2>4. ASSUME NEW s \in SUBSET (1 .. k + 1)
          PROVE  h[s] = IF s = {} THEN base ELSE F[<<Max(s), h[s \ {Max(s)}]>>]
        <3>1. CASE k + 1 \in s
            <4>1. Max(s) = k + 1
                <5>1. s \subseteq Int /\ \A x \in s : x <= k + 1
                    OBVIOUS
                <5> QED
                    BY <3>1, <5>1, GreatestIs
            <4>2. h[s \ {k + 1}] = g[s \ {k + 1}]
                <5>1. s \ {k + 1} \in SUBSET (1 .. k + 1) /\ k + 1 \notin s \ {k + 1}
                    OBVIOUS
                <5> QED
                    BY <5>1
            <4>3. h[s] = F[<<k + 1, g[s \ {k + 1}]>>] /\ s # {}
                BY <3>1
            <4> QED
                BY <4>1, <4>2, <4>3
        <3>2. CASE k + 1 \notin s
            <4>1. s \in SUBSET (1 .. k) /\ h[s] = g[s]
                BY <2>2, <3>2
            <4>2. g[s] = IF s = {} THEN base ELSE F[<<Max(s), g[s \ {Max(s)}]>>]
                BY <2>1, <4>1
            <4>3. h[s \ {Max(s)}] = g[s \ {Max(s)}]
                <5>1. s \ {Max(s)} \in SUBSET (1 .. k + 1) /\ k + 1 \notin s \ {Max(s)}
                    BY <3>2
                <5> QED
                    BY <5>1
            <4> QED
                BY <4>1, <4>2, <4>3
        <3> QED
            BY <3>1, <3>2
    <2>5. h \in Solutions(k + 1)
        BY <2>3, <2>4
    <2> QED
        BY <2>5
<1> HIDE DEF Solutions, Good
<1>3. n \in Good
    BY <1>1, <1>2, NaturalInduction
<1> QED
    BY <1>3 DEF Good, Solutions

\* The greatest of 1 .. i, and what is left without it.
LEMMA Initial ==
    ASSUME NEW i \in Nat
    PROVE  /\ 1 .. i = {} <=> i = 0
           /\ i > 0 => Max(1 .. i) = i /\ (1 .. i) \ {i} = 1 .. i - 1
<1>1. ASSUME i > 0
      PROVE  Max(1 .. i) = i
    <2>1. 1 .. i \subseteq Int /\ i \in 1 .. i /\ \A x \in 1 .. i : x <= i
        BY <1>1
    <2> QED
        BY <2>1, GreatestIs
<1> QED
    BY <1>1

-----------------------------------------------------------------------------
(* Orders of finite sets. *)

\* A strict total order of a set, as a set of pairs.
StrictOrder(R, S) ==
    /\ \A x \in S : <<x, x>> \notin R
    /\ \A x, y \in S : x = y \/ <<x, y>> \in R \/ <<y, x>> \in R
    /\ \A x, y, z \in S : <<x, y>> \in R /\ <<y, z>> \in R => <<x, z>> \in R

\* Its ranks are one and all of 0 .. Cardinality(S) - 1.
RankIn(S, R, m) == Cardinality({d \in S : <<d, m>> \in R})
Ranked(S, R) ==
    /\ Cardinality(S) \in Nat
    /\ \A m \in S : RankIn(S, R, m) \in 0 .. Cardinality(S) - 1
    /\ \A k \in 0 .. Cardinality(S) - 1 : \E m \in S : RankIn(S, R, m) = k
    /\ \A m, k \in S : <<m, k>> \in R => RankIn(S, R, m) < RankIn(S, R, k)

\* Under a strict total order every member of a finite set has its rank, and
\* every rank its member.
LEMMA OrderRanks ==
    ASSUME NEW S, IsFiniteSet(S), NEW R, StrictOrder(R, S)
    PROVE  Ranked(S, R)
<1> DEFINE c == Cardinality(S)
           Below(m) == {d \in S : <<d, m>> \in R}
           f == [m \in S |-> Cardinality(Below(m))]
<1>1. c \in Nat
    BY FS_CardinalityType
<1>2. \A m \in S : Below(m) \subseteq S \ {m} /\ m \notin Below(m)
    BY DEF StrictOrder
<1>3. \A m, k \in S : <<m, k>> \in R => Below(m) \subseteq Below(k) /\ m \in Below(k)
    BY DEF StrictOrder
<1>12. \A m, k \in S : m = k \/ <<m, k>> \in R \/ <<k, m>> \in R
    BY DEF StrictOrder
<1>4. \A m \in S : IsFiniteSet(S \ {m}) /\ Cardinality(S \ {m}) = c - 1
    BY FS_RemoveElement
<1> HIDE DEF Below
<1>5. \A m \in S : IsFiniteSet(Below(m)) /\ Cardinality(Below(m)) \in 0 .. c - 1
    <2> SUFFICES ASSUME NEW m \in S
                 PROVE  IsFiniteSet(Below(m)) /\ Cardinality(Below(m)) \in 0 .. c - 1
        OBVIOUS
    <2>1. IsFiniteSet(Below(m)) /\ Cardinality(Below(m)) <= Cardinality(S \ {m})
        BY <1>2, <1>4, FS_Subset
    <2>2. Cardinality(Below(m)) \in Nat
        BY <2>1, FS_CardinalityType
    <2> QED
        BY <1>1, <1>4, <2>1, <2>2
<1>6. \A m, k \in S : <<m, k>> \in R => Cardinality(Below(m)) < Cardinality(Below(k))
    <2> SUFFICES ASSUME NEW m \in S, NEW k \in S, <<m, k>> \in R
                 PROVE  Cardinality(Below(m)) < Cardinality(Below(k))
        OBVIOUS
    <2>1. Below(m) \subseteq Below(k) /\ Below(m) # Below(k)
        BY <1>2, <1>3
    <2>2. Cardinality(Below(m)) <= Cardinality(Below(k)) /\ Cardinality(Below(m)) # Cardinality(Below(k))
        BY <1>5, <2>1, FS_Subset
    <2>3. Cardinality(Below(m)) \in Int /\ Cardinality(Below(k)) \in Int
        BY <1>5
    <2> QED
        BY <2>2, <2>3
<1>7. f \in Injection(S, 0 .. c - 1)
    <2>1. f \in [S -> 0 .. c - 1]
        BY <1>5
    <2>2. ASSUME NEW m \in S, NEW k \in S, f[m] = f[k]
          PROVE  m = k
        <3>1. f[m] \in Int /\ f[m] = Cardinality(Below(m)) /\ f[k] = Cardinality(Below(k))
            BY <2>1
        <3>2. ~(f[m] < f[k]) /\ ~(f[k] < f[m])
            BY <2>2, <3>1
        <3> HIDE DEF f
        <3>3. ~(Cardinality(Below(m)) < Cardinality(Below(k))) /\ ~(Cardinality(Below(k)) < Cardinality(Below(m)))
            BY <3>1, <3>2
        <3> QED
            BY <1>6, <1>12, <3>3
    <2> HIDE DEF f
    <2> QED
        BY <2>1, <2>2 DEF Injection, IsInjective
<1>8. IsFiniteSet(0 .. c - 1) /\ Cardinality(0 .. c - 1) = c
    BY <1>1, FS_Interval
<1>9. f \in Surjection(S, 0 .. c - 1)
    <2> HIDE DEF f
    <2> QED
        BY <1>7, <1>8, FS_Injection
<1>10. \A k \in 0 .. c - 1 : \E m \in S : f[m] = k
    <2> HIDE DEF f
    <2> QED
        BY <1>9 DEF Surjection
<1> QED
    BY <1>1, <1>5, <1>6, <1>10 DEF Below, Ranked, RankIn

\* Every member of a finite set of numbers has its rank, and every rank its
\* member.
LEMMA RanksOnto ==
    ASSUME NEW S \in SUBSET Int, IsFiniteSet(S)
    PROVE  /\ Cardinality(S) \in Nat
           /\ \A m \in S : Cardinality({d \in S : d < m}) \in 0 .. Cardinality(S) - 1
           /\ \A k \in 0 .. Cardinality(S) - 1 : \E m \in S : Cardinality({d \in S : d < m}) = k
           /\ \A m, k \in S :
                 Cardinality({d \in S : d < m}) = Cardinality({d \in S : d < k}) => m = k
<1> DEFINE R == {p \in S \X S : p[1] < p[2]}
           Rank(m) == Cardinality({d \in S : <<d, m>> \in R})
           c == Cardinality(S)
<1>1. \A x, y \in S : <<x, y>> \in R <=> x < y
    OBVIOUS
<1>2. \A m \in S : {d \in S : <<d, m>> \in R} = {d \in S : d < m}
    BY <1>1
<1> HIDE DEF R
<1>3. StrictOrder(R, S)
    BY <1>1 DEF StrictOrder
<1>4. /\ c \in Nat
      /\ \A m \in S : Rank(m) \in 0 .. c - 1
      /\ \A k \in 0 .. c - 1 : \E m \in S : Rank(m) = k
      /\ \A m, k \in S : <<m, k>> \in R => Rank(m) < Rank(k)
    <2>1. Ranked(S, R)
        BY <1>3, OrderRanks
    <2> QED
        BY <2>1 DEF Ranked, RankIn
<1>5. \A m \in S : Rank(m) = Cardinality({d \in S : d < m})
    BY <1>2
<1> HIDE DEF Rank
<1>6. ASSUME NEW m \in S, NEW k \in S, Rank(m) = Rank(k)
      PROVE  m = k
    <2>1. Rank(m) \in Int /\ ~(Rank(m) < Rank(k)) /\ ~(Rank(k) < Rank(m))
        BY <1>4, <1>6
    <2> QED
        BY <1>3, <1>4, <2>1 DEF StrictOrder
<1> QED
    BY <1>4, <1>5, <1>6

\* The metrics are finitely many natural numbers.
LEMMA MetricsAre ==
    /\ IsFiniteSet(Metrics) /\ Cardinality(Metrics) \in Nat
    /\ Metrics = 1 .. Cardinality(Metrics) /\ Metrics \subseteq Int
<1>1. IsFiniteSet(Metrics) /\ Cardinality(Metrics) \in Nat
    BY CatalogConstants, FS_CardinalityType
<1> QED
    BY <1>1, CatalogConstants

\* ByIndex lists every member of a set of metrics once.
LEMMA ByIndexLists ==
    ASSUME NEW S \in SUBSET Metrics
    PROVE  /\ IsFiniteSet(S) /\ Cardinality(S) \in Nat
           /\ ByIndex(S) \in Seq(S)
           /\ Len(ByIndex(S)) = Cardinality(S)
           /\ \A i, j \in 1 .. Cardinality(S) : ByIndex(S)[i] = ByIndex(S)[j] => i = j
           /\ \A m \in S : \E i \in 1 .. Cardinality(S) : ByIndex(S)[i] = m
<1> DEFINE c == Cardinality(S)
           Rank(m) == Cardinality({d \in S : d < m})
           b == ByIndex(S)
<1>1. IsFiniteSet(S) /\ S \subseteq Int
    BY MetricsAre, FS_Subset
<1>2. /\ c \in Nat
      /\ \A m \in S : Rank(m) \in 0 .. c - 1
      /\ \A k \in 0 .. c - 1 : \E m \in S : Rank(m) = k
      /\ \A m, k \in S : Rank(m) = Rank(k) => m = k
    BY <1>1, RanksOnto
<1>3. b = [n \in 1 .. c |-> CHOOSE m \in S : Rank(m) = n - 1]
    BY DEF ByIndex
<1> HIDE DEF c, Rank, b
<1>4. \A n \in 1 .. c : b[n] \in S /\ Rank(b[n]) = n - 1
    <2> SUFFICES ASSUME NEW n \in 1 .. c
                 PROVE  b[n] \in S /\ Rank(b[n]) = n - 1
        OBVIOUS
    <2>1. \E m \in S : Rank(m) = n - 1
        BY <1>2
    <2>2. b[n] = CHOOSE m \in S : Rank(m) = n - 1
        BY <1>3
    <2> QED
        BY <2>1, <2>2
<1>5. b \in Seq(S) /\ Len(b) = c
    <2>1. b \in [1 .. c -> S]
        BY <1>3, <1>4
    <2> QED
        BY <1>2, <2>1
<1>6. \A i, j \in 1 .. c : b[i] = b[j] => i = j
    <2> SUFFICES ASSUME NEW i \in 1 .. c, NEW j \in 1 .. c, b[i] = b[j]
                 PROVE  i = j
        OBVIOUS
    <2>1. i - 1 = j - 1 /\ i \in Int /\ j \in Int
        BY <1>2, <1>4
    <2> QED
        BY <2>1
<1>7. \A m \in S : \E i \in 1 .. c : b[i] = m
    <2> SUFFICES ASSUME NEW m \in S
                 PROVE  \E i \in 1 .. c : b[i] = m
        OBVIOUS
    <2>1. Rank(m) \in 0 .. c - 1 /\ Rank(m) + 1 \in 1 .. c
        BY <1>2
    <2>2. b[Rank(m) + 1] \in S /\ Rank(b[Rank(m) + 1]) = Rank(m)
        BY <1>4, <2>1
    <2>3. b[Rank(m) + 1] = m
        BY <1>2, <2>2
    <2> QED
        BY <2>1, <2>3
<1> QED
    BY <1>1, <1>2, <1>5, <1>6, <1>7 DEF b, c

-----------------------------------------------------------------------------
(* Compiling a catalog. *)

\* What the proofs about the plan need of a catalog: whom every metric is computed from.
Graph == upstream \in [Metrics -> SUBSET Metrics]

\* A sequence of some of the metrics of a delivery in which none occurs twice
\* and every one comes after all that it is computed from.
Ordered(order, selected) ==
    /\ order \in Seq(selected)
    /\ \A i, j \in 1 .. Len(order) : order[i] = order[j] => i = j
    /\ \A i \in 1 .. Len(order) : upstream[order[i]] \subseteq {order[j] : j \in 1 .. i - 1}

\* What a wave can add to an order that holds some of a delivery.
Ready(selected, done) == {m \in selected \ done : upstream[m] \subseteq done}

\* The members of a sequence.
LEMMA MembersOf ==
    ASSUME NEW S, NEW s \in Seq(S)
    PROVE  /\ Len(s) \in Nat /\ DOMAIN s = 1 .. Len(s)
           /\ ToSet(s) = {s[i] : i \in 1 .. Len(s)} /\ ToSet(s) \subseteq S
<1>1. Len(s) \in Nat /\ DOMAIN s = 1 .. Len(s) /\ \A i \in 1 .. Len(s) : s[i] \in S
    BY LenProperties, ElementOfSeq
<1> QED
    BY <1>1 DEF ToSet

\* One wave puts what is ready after the order, and stays an order of metrics.
LEMMA WaveIs ==
    ASSUME Graph, NEW selected \in SUBSET Metrics, NEW order \in Seq(Metrics)
    PROVE  /\ Ready(selected, ToSet(order)) \in SUBSET Metrics
           /\ Wave(selected, order) = order \o ByIndex(Ready(selected, ToSet(order)))
           /\ Wave(selected, order) \in Seq(Metrics)
<1> DEFINE R == Ready(selected, ToSet(order))
<1>1. R \in SUBSET Metrics
    BY DEF Ready
<1>2. Wave(selected, order) = order \o ByIndex(R)
    BY DEF Wave, Ready
<1> HIDE DEF R
<1>3. ByIndex(R) \in Seq(R)
    BY <1>1, ByIndexLists
<1>4. ByIndex(R) \in Seq(Metrics)
    BY <1>1, <1>3, SeqMonotonic
<1>5. order \o ByIndex(R) \in Seq(Metrics)
    BY <1>4, ConcatProperties
<1> QED
    BY <1>1, <1>2, <1>5 DEF R

\* One wave keeps the order and adds what is ready.
LEMMA WaveOrders ==
    ASSUME Graph, NEW selected \in SUBSET Metrics, NEW order, Ordered(order, selected)
    PROVE  /\ Ordered(Wave(selected, order), selected)
           /\ ToSet(Wave(selected, order)) = ToSet(order) \cup Ready(selected, ToSet(order))
<1> DEFINE R == Ready(selected, ToSet(order))
           b == ByIndex(R)
           w == order \o b
           n == Len(order)
           c == Cardinality(R)
<1>1. order \in Seq(selected) /\ order \in Seq(Metrics)
    BY SeqMonotonic DEF Ordered
<1>2. R \in SUBSET Metrics /\ R \in SUBSET selected /\ Wave(selected, order) = w
    BY <1>1, WaveIs DEF Ready
<1>3. /\ n \in Nat /\ ToSet(order) = {order[i] : i \in 1 .. n}
      /\ \A i \in 1 .. n : order[i] \in selected
    BY <1>1, MembersOf, ElementOfSeq
<1>4. \A m \in R : m \notin ToSet(order) /\ upstream[m] \subseteq ToSet(order)
    BY DEF Ready
<1> HIDE DEF R
<1>5. /\ c \in Nat /\ b \in Seq(R) /\ Len(b) = c
      /\ \A i, j \in 1 .. c : b[i] = b[j] => i = j
      /\ \A m \in R : \E i \in 1 .. c : b[i] = m
    BY <1>2, ByIndexLists
<1>6. b \in Seq(selected) /\ \A i \in 1 .. c : b[i] \in R
    BY <1>2, <1>5, SeqMonotonic, ElementOfSeq
<1> HIDE DEF b, c
<1>7. /\ w \in Seq(selected) /\ Len(w) = n + c
      /\ \A i \in 1 .. n + c : w[i] = IF i <= n THEN order[i] ELSE b[i - n]
    <2>1. /\ w \in Seq(selected) /\ Len(w) = Len(order) + Len(b)
          /\ \A i \in 1 .. Len(order) + Len(b) :
                w[i] = IF i <= Len(order) THEN order[i] ELSE b[i - Len(order)]
        BY <1>1, <1>6, ConcatProperties
    <2> HIDE DEF w
    <2> QED
        BY <1>5, <2>1
<1> HIDE DEF w, n
<1>8. \A i \in 1 .. n : i \in 1 .. n + c /\ w[i] = order[i]
    BY <1>3, <1>5, <1>7
<1>9. \A i \in 1 .. c : n + i \in 1 .. n + c /\ w[n + i] = b[i]
    BY <1>3, <1>5, <1>7
<1>10. \A i \in 1 .. n + c : i \in 1 .. n \/ (i - n \in 1 .. c /\ i = n + (i - n))
    BY <1>3, <1>5
<1>11. \A i \in 1 .. n + c : \/ i \in 1 .. n /\ w[i] \in ToSet(order)
                             \/ i \notin 1 .. n /\ w[i] \in R
    BY <1>3, <1>6, <1>8, <1>9, <1>10
<1>12. ToSet(w) = ToSet(order) \cup R
    <2>1. ToSet(w) = {w[i] : i \in 1 .. n + c}
        BY <1>7, MembersOf
    <2>2. \A m \in ToSet(order) : \E i \in 1 .. n + c : w[i] = m
        BY <1>3, <1>8
    <2>3. \A m \in R : \E i \in 1 .. n + c : w[i] = m
        BY <1>5, <1>9
    <2> QED
        BY <1>11, <2>1, <2>2, <2>3
<1>13. ASSUME NEW i \in 1 .. n + c, NEW j \in 1 .. n + c, w[i] = w[j]
       PROVE  i = j
    <2>1. CASE i \in 1 .. n /\ j \in 1 .. n
        <3>1. order[i] = order[j]
            BY <1>8, <1>13, <2>1
        <3> QED
            BY <2>1, <3>1 DEF Ordered, n
    <2>2. CASE i \notin 1 .. n /\ j \notin 1 .. n
        <3>1. i - n \in 1 .. c /\ j - n \in 1 .. c /\ b[i - n] = b[j - n]
            BY <1>9, <1>10, <1>13, <2>2
        <3>2. i - n = j - n
            BY <1>5, <3>1
        <3> QED
            BY <1>3, <1>5, <3>2
    <2>3. ~(w[i] \in ToSet(order) /\ w[i] \in R)
        BY <1>4
    <2> QED
        BY <1>11, <1>13, <2>1, <2>2, <2>3
<1>14. ASSUME NEW i \in 1 .. n + c
       PROVE  upstream[w[i]] \subseteq {w[j] : j \in 1 .. i - 1}
    <2>1. CASE i \in 1 .. n
        <3>1. upstream[order[i]] \subseteq {order[j] : j \in 1 .. i - 1}
            BY <2>1 DEF Ordered, n
        <3>2. \A j \in 1 .. i - 1 : j \in 1 .. n
            BY <1>3, <2>1
        <3>3. \A j \in 1 .. i - 1 : w[j] = order[j]
            BY <1>8, <3>2
        <3> QED
            BY <1>8, <2>1, <3>1, <3>3
    <2>2. CASE i \notin 1 .. n
        <3>1. upstream[w[i]] \subseteq ToSet(order)
            BY <1>4, <1>11, <2>2
        <3>2. \A j \in 1 .. n : j \in 1 .. i - 1
            BY <1>3, <1>5, <2>2
        <3>3. \A m \in ToSet(order) : \E j \in 1 .. i - 1 : w[j] = m
            BY <1>3, <1>8, <3>2
        <3> QED
            BY <3>1, <3>3
    <2> QED
        BY <2>1, <2>2
<1>15. Ordered(w, selected)
    BY <1>7, <1>13, <1>14 DEF Ordered
<1> QED
    BY <1>2, <1>12, <1>15 DEF R

\* The order of a delivery is what as many waves as there are metrics give.
LEMMA OrderUnfolds ==
    ASSUME Graph, NEW selected \in SUBSET Metrics
    PROVE  \E w : /\ w[0] = <<>>
                  /\ \A i \in 1 .. Cardinality(Metrics) : w[i] = Wave(selected, w[i - 1])
                  /\ TopologicalOrder(selected) = w[Cardinality(Metrics)]
<1> DEFINE N == Cardinality(Metrics)
           T == Seq(Metrics)
           Body(g) == [s \in SUBSET Metrics |->
                          IF s = {} THEN <<>> ELSE Wave(selected, g[s \ {Max(s)}])]
           F == [p \in (1 .. N) \X T |-> Wave(selected, p[2])]
<1>1. N \in Nat /\ Metrics = 1 .. N
    BY MetricsAre
<1>2. F \in [(1 .. N) \X T -> T]
    BY WaveIs
<1>3. <<>> \in T
    OBVIOUS
<1>4. PICK h \in [SUBSET (1 .. N) -> T] :
         \A s \in SUBSET (1 .. N) : h[s] = IF s = {} THEN <<>> ELSE F[<<Max(s), h[s \ {Max(s)}]>>]
    <2> DEFINE none == <<>>
    <2>1. none \in T
        BY <1>3
    <2> HIDE DEF F, T, N, none
    <2>2. FoldsOver(T, none, N, F) # {}
        BY <1>1, <1>2, <2>1, FoldExists
    <2> QED
        BY <2>2 DEF FoldsOver, none
<1>5. ASSUME NEW s \in SUBSET (1 .. N), s # {}
      PROVE  F[<<Max(s), h[s \ {Max(s)}]>>] = Wave(selected, h[s \ {Max(s)}])
    <2>1. Max(s) \in s
        <3>1. s \subseteq Int /\ N \in Int /\ \A x \in s : x <= N
            BY <1>1
        <3> QED
            BY <1>5, <3>1, GreatestNumber
    <2>2. s \ {Max(s)} \in SUBSET (1 .. N) /\ Max(s) \in 1 .. N
        BY <2>1
    <2>3. h[s \ {Max(s)}] \in T
        BY <1>4, <2>2
    <2> HIDE DEF T
    <2> QED
        BY <2>2, <2>3
<1>6. h = Body(h)
    <2>1. \A s \in SUBSET Metrics :
             h[s] = IF s = {} THEN <<>> ELSE Wave(selected, h[s \ {Max(s)}])
        <3> HIDE DEF F
        <3> QED
            BY <1>1, <1>4, <1>5
    <2>2. h = [s \in SUBSET Metrics |-> h[s]]
        BY <1>1, <1>4
    <2> QED
        BY <2>1, <2>2
<1> DEFINE g == CHOOSE f : f = Body(f)
<1>7. g = Body(g)
    <2>1. \E f : f = Body(f)
        BY <1>6
    <2> HIDE DEF Body
    <2> QED
        BY <2>1
<1>8. TopologicalOrder(selected) = g[Metrics]
    <2>1. DOMAIN [n \in Metrics |-> n] = Metrics
        OBVIOUS
    <2> QED
        BY <2>1 DEF TopologicalOrder, FoldLeft, MapThenFoldSet
<1> HIDE DEF g
<1>9. \A s \in SUBSET Metrics : g[s] = IF s = {} THEN <<>> ELSE Wave(selected, g[s \ {Max(s)}])
    BY <1>7
<1> DEFINE w == [i \in 0 .. N |-> g[1 .. i]]
<1>10. w[0] = <<>>
    <2>1. 1 .. 0 = {} /\ {} \in SUBSET Metrics /\ 0 \in 0 .. N
        BY <1>1
    <2> QED
        BY <1>9, <2>1
<1>11. ASSUME NEW i \in 1 .. N
       PROVE  w[i] = Wave(selected, w[i - 1])
    <2>1. i \in Nat /\ i > 0 /\ i \in 0 .. N /\ i - 1 \in 0 .. N
        BY <1>1
    <2>2. 1 .. i # {} /\ Max(1 .. i) = i /\ (1 .. i) \ {i} = 1 .. i - 1
        BY <2>1, Initial
    <2>3. 1 .. i \in SUBSET Metrics
        BY <1>1
    <2>4. g[1 .. i] = Wave(selected, g[1 .. i - 1])
        BY <1>9, <2>2, <2>3
    <2> QED
        BY <2>1, <2>4
<1>12. w[N] = g[Metrics]
    BY <1>1
<1> QED
    BY <1>8, <1>10, <1>11, <1>12

\* The waves end with an order that nothing can be added to.
LEMMA OrderComplete ==
    ASSUME Graph, NEW selected \in SUBSET Metrics
    PROVE  /\ Ordered(TopologicalOrder(selected), selected)
           /\ Ready(selected, ToSet(TopologicalOrder(selected))) = {}
<1> DEFINE N == Cardinality(Metrics)
           Size(order) == Cardinality(ToSet(order))
           Stuck(order) == Ready(selected, ToSet(order)) = {}
<1>1. N \in Nat /\ IsFiniteSet(Metrics)
    BY MetricsAre
<1>2. PICK w : /\ w[0] = <<>>
               /\ \A i \in 1 .. N : w[i] = Wave(selected, w[i - 1])
               /\ TopologicalOrder(selected) = w[N]
    BY OrderUnfolds
<1> DEFINE Good == {i \in Nat : i <= N => /\ Ordered(w[i], selected)
                                          /\ Stuck(w[i]) \/ Size(w[i]) >= i}
<1>3. ASSUME NEW order, Ordered(order, selected)
      PROVE  ToSet(order) \in SUBSET Metrics /\ IsFiniteSet(ToSet(order)) /\ Size(order) \in Nat
    <2>1. order \in Seq(selected)
        BY <1>3 DEF Ordered
    <2>2. ToSet(order) \in SUBSET Metrics
        BY <2>1, MembersOf
    <2> QED
        BY <1>1, <2>2, FS_Subset, FS_CardinalityType
<1>4. 0 \in Good
    <2>1. Ordered(<<>>, selected)
        BY DEF Ordered
    <2>2. Size(w[0]) >= 0
        BY <1>2, <1>3, <2>1
    <2> QED
        BY <1>2, <2>1, <2>2
<1>5. ASSUME NEW i \in Nat, i \in Good
      PROVE  i + 1 \in Good
    <2> SUFFICES ASSUME i + 1 <= N
                 PROVE  Ordered(w[i + 1], selected) /\ (Stuck(w[i + 1]) \/ Size(w[i + 1]) >= i + 1)
        OBVIOUS
    <2> DEFINE R == Ready(selected, ToSet(w[i]))
    <2>1. Ordered(w[i], selected) /\ (Stuck(w[i]) \/ Size(w[i]) >= i)
        BY <1>1, <1>5
    <2>2. w[i + 1] = Wave(selected, w[i])
        <3>1. i + 1 \in 1 .. N /\ (i + 1) - 1 = i
            BY <1>1
        <3> QED
            BY <1>2, <3>1
    <2>3. Ordered(w[i + 1], selected) /\ ToSet(w[i + 1]) = ToSet(w[i]) \cup R
        BY <2>1, <2>2, WaveOrders
    <2>4. CASE R = {}
        BY <2>3, <2>4
    <2>5. CASE R # {}
        <3>1. Size(w[i]) >= i
            BY <2>1, <2>5
        <3>2. ToSet(w[i]) # ToSet(w[i + 1]) /\ ToSet(w[i]) \in SUBSET ToSet(w[i + 1])
            <4>1. \A m \in R : m \notin ToSet(w[i])
                BY DEF Ready
            <4> HIDE DEF R
            <4> QED
                BY <2>3, <2>5, <4>1
        <3>3. /\ IsFiniteSet(ToSet(w[i + 1])) /\ Size(w[i + 1]) \in Nat /\ Size(w[i]) \in Nat
            BY <1>3, <2>1, <2>3
        <3>4. Size(w[i]) <= Size(w[i + 1]) /\ Size(w[i]) # Size(w[i + 1])
            BY <3>2, <3>3, FS_Subset
        <3>5. Size(w[i + 1]) >= i + 1
            <4> HIDE DEF Size
            <4> QED
                BY <3>1, <3>3, <3>4
        <3> QED
            BY <2>3, <3>5
    <2> QED
        BY <2>4, <2>5
<1>6. N \in Good
    <2> HIDE DEF Good
    <2> QED
        BY <1>1, <1>4, <1>5, NaturalInduction
<1>7. Ordered(w[N], selected) /\ (Stuck(w[N]) \/ Size(w[N]) >= N)
    BY <1>1, <1>6
<1>8. Stuck(w[N])
    <2>1. CASE Size(w[N]) >= N
        <3>1. /\ ToSet(w[N]) \in SUBSET Metrics /\ Size(w[N]) \in Nat
            BY <1>3, <1>7
        <3>2. Size(w[N]) <= N
            BY <1>1, <3>1, FS_Subset
        <3>3. Size(w[N]) = N
            BY <1>1, <2>1, <3>1, <3>2
        <3>4. ToSet(w[N]) = Metrics
            BY <1>1, <3>1, <3>3, FS_Subset
        <3> QED
            BY <3>4 DEF Ready
    <2> QED
        BY <1>7, <2>1
<1> QED
    BY <1>2, <1>7, <1>8

-----------------------------------------------------------------------------
(* Lineage. *)

\* The lineage of some metrics is the least set that holds them and is closed.
LEMMA LineageLeast ==
    ASSUME Graph, NEW codes \in SUBSET Metrics
    PROVE  /\ Lineage(codes) \in SUBSET Metrics /\ codes \subseteq Lineage(codes)
           /\ Closed(Lineage(codes))
           /\ \A in \in SUBSET Metrics : codes \subseteq in /\ Closed(in) => Lineage(codes) \subseteq in
<1>1. Lineage(codes) \in SUBSET Metrics /\ codes \subseteq Lineage(codes)
    BY DEF Lineage
<1>2. \A in \in SUBSET Metrics : codes \subseteq in /\ Closed(in) => Lineage(codes) \subseteq in
    BY DEF Lineage
<1>3. ASSUME NEW m \in Lineage(codes), NEW d \in upstream[m]
      PROVE  d \in Lineage(codes)
    <2>1. m \in Metrics /\ d \in Metrics
        BY <1>1 DEF Graph
    <2>2. ASSUME NEW in \in SUBSET Metrics, codes \subseteq in, Closed(in)
          PROVE  d \in in
        <3>1. m \in in
            BY <1>2, <2>2
        <3> QED
            BY <2>2, <3>1 DEF Closed
    <2> QED
        BY <2>1, <2>2 DEF Lineage
<1> QED
    BY <1>1, <1>2, <1>3 DEF Closed

\* What a metric is derived from is itself and all that its dependencies are
\* derived from.
LEMMA LineageOfOne ==
    ASSUME Graph, NEW m \in Metrics
    PROVE  Lineage({m}) = {m} \cup UNION {Lineage({d}) : d \in upstream[m]}
<1> DEFINE U == {m} \cup UNION {Lineage({d}) : d \in upstream[m]}
           L == Lineage({m})
<1>1. upstream[m] \in SUBSET Metrics
    BY DEF Graph
<1>2. L \in SUBSET Metrics /\ m \in L /\ Closed(L)
    BY LineageLeast
<1>3. \A d \in upstream[m] : /\ Lineage({d}) \in SUBSET Metrics /\ d \in Lineage({d})
                             /\ Closed(Lineage({d}))
    BY <1>1, LineageLeast
<1>4. L \subseteq U
    <2>1. U \in SUBSET Metrics /\ {m} \subseteq U
        BY <1>3
    <2>2. Closed(U)
        <3>1. ASSUME NEW x \in U, NEW d \in upstream[x]
              PROVE  d \in U
            <4>1. CASE x = m
                BY <1>3, <3>1, <4>1
            <4>2. CASE \E e \in upstream[m] : x \in Lineage({e})
                <5>1. PICK e \in upstream[m] : x \in Lineage({e})
                    BY <4>2
                <5>2. d \in Lineage({e})
                    BY <1>3, <3>1, <5>1 DEF Closed
                <5> QED
                    BY <5>1, <5>2
            <4> QED
                BY <4>1, <4>2
        <3> QED
            BY <3>1 DEF Closed
    <2> HIDE DEF U, L
    <2>3. \A in \in SUBSET Metrics : {m} \subseteq in /\ Closed(in) => Lineage({m}) \subseteq in
        BY LineageLeast
    <2> QED
        BY <2>1, <2>2, <2>3 DEF L
<1>5. U \subseteq L
    <2>1. ASSUME NEW d \in upstream[m]
          PROVE  Lineage({d}) \subseteq L
        <3>1. d \in L /\ d \in Metrics
            BY <1>1, <1>2, <2>1 DEF Closed
        <3> HIDE DEF L
        <3>2. \A in \in SUBSET Metrics : {d} \subseteq in /\ Closed(in) => Lineage({d}) \subseteq in
            BY <3>1, LineageLeast
        <3> QED
            BY <1>2, <3>1, <3>2
    <2> QED
        BY <1>2, <2>1
<1> QED
    BY <1>4, <1>5

\* Where nothing more is ready some metric goes round a cycle: follow what is
\* left over to a metric whose lineage is least.
LEMMA StuckOnCycle ==
    ASSUME Graph, NEW selected \in SUBSET Metrics, Closed(selected),
           NEW done, done # selected, done \subseteq selected, Ready(selected, done) = {}
    PROVE  \E m \in selected : m \in Lineage(upstream[m])
<1> SUFFICES ASSUME \A m \in selected : m \notin Lineage(upstream[m])
             PROVE  FALSE
    OBVIOUS
<1> DEFINE R == selected \ done
           Size(m) == Cardinality(Lineage({m}))
           Sizes == {Size(m) : m \in R}
<1>1. R # {} /\ R \subseteq Metrics
    OBVIOUS
<1>2. \A m \in R : \E d \in upstream[m] : d \in R
    BY DEF Ready, Closed
<1>3. \A m \in Metrics : /\ Lineage({m}) \in SUBSET Metrics /\ IsFiniteSet(Lineage({m}))
                         /\ Size(m) \in Nat
    BY LineageLeast, MetricsAre, FS_Subset, FS_CardinalityType
<1> HIDE DEF R, Size
<1>4. \E k \in Sizes : \A l \in Sizes : k <= l
    <2>1. Sizes \subseteq Nat /\ Sizes # {}
        BY <1>1, <1>3
    <2> HIDE DEF Sizes
    <2> QED
        BY <2>1, LeastNumber
<1>5. PICK m \in R : \A e \in R : Size(m) <= Size(e)
    BY <1>4
<1>6. PICK d \in upstream[m] : d \in R
    BY <1>2, <1>5
<1>7. m \in Metrics /\ d \in Metrics /\ upstream[m] \in SUBSET Metrics /\ m \in selected
    BY <1>1, <1>5, <1>6 DEF Graph, R
<1>8. Lineage({d}) \subseteq Lineage(upstream[m])
    <2>1. /\ Lineage(upstream[m]) \in SUBSET Metrics /\ Closed(Lineage(upstream[m]))
          /\ d \in Lineage(upstream[m])
        BY <1>6, <1>7, LineageLeast
    <2>2. \A in \in SUBSET Metrics : {d} \subseteq in /\ Closed(in) => Lineage({d}) \subseteq in
        BY <1>7, LineageLeast
    <2> QED
        BY <2>1, <2>2
<1>9. m \notin Lineage({d})
    BY <1>7, <1>8
<1>10. Lineage({d}) \subseteq Lineage({m}) /\ m \in Lineage({m})
    <2>1. Lineage({m}) = {m} \cup UNION {Lineage({e}) : e \in upstream[m]}
        BY <1>7, LineageOfOne
    <2> QED
        BY <1>6, <2>1
<1>11. Size(d) <= Size(m) /\ Size(d) # Size(m)
    BY <1>3, <1>7, <1>9, <1>10, FS_Subset DEF Size
<1>12. Size(m) <= Size(d)
    BY <1>5, <1>6
<1>13. Size(m) \in Nat /\ Size(d) \in Nat
    BY <1>3, <1>7
<1> QED
    BY <1>11, <1>12, <1>13

\* Where everything is ordered no metric is derived from itself.
LEMMA OrderedEnds ==
    ASSUME Graph, NEW selected \in SUBSET Metrics, NEW order, Ordered(order, selected),
           ToSet(order) = selected
    PROVE  /\ Closed(selected) /\ Len(order) = Cardinality(selected)
           /\ \A m \in selected : m \notin Lineage(upstream[m])
<1> DEFINE n == Len(order)
           Earlier(i) == {order[j] : j \in 1 .. i - 1}
<1>1. /\ n \in Nat /\ DOMAIN order = 1 .. n /\ order \in [1 .. n -> selected]
      /\ selected = {order[i] : i \in 1 .. n}
    BY MembersOf, LenProperties DEF Ordered
<1>2. /\ \A i, j \in 1 .. n : order[i] = order[j] => i = j
      /\ \A i \in 1 .. n : upstream[order[i]] \subseteq Earlier(i)
    BY DEF Ordered
<1>3. \A i \in 1 .. n : Earlier(i) \subseteq selected
    <2>1. \A i \in 1 .. n : \A j \in 1 .. i - 1 : j \in 1 .. n
        BY <1>1
    <2> QED
        BY <1>1, <2>1
<1>4. Closed(selected)
    <2>1. ASSUME NEW m \in selected
          PROVE  upstream[m] \subseteq selected
        <3>1. PICK i \in 1 .. n : m = order[i]
            BY <1>1
        <3> HIDE DEF Earlier
        <3> QED
            BY <1>2, <1>3, <3>1
    <2> QED
        BY <2>1 DEF Closed
<1>5. n = Cardinality(selected)
    <2>1. IsFiniteSet(1 .. n) /\ Cardinality(1 .. n) = n
        BY <1>1, FS_Interval
    <2>2. order \in Surjection(1 .. n, selected)
        BY <1>1 DEF Surjection
    <2>3. order \in Injection(1 .. n, selected)
        BY <1>1, <1>2 DEF Injection, IsInjective
    <2> QED
        BY <2>1, <2>2, <2>3, FS_Surjection
<1>6. ASSUME NEW m \in selected
      PROVE  m \notin Lineage(upstream[m])
    <2>1. PICK i \in 1 .. n : m = order[i]
        BY <1>1
    <2>2. Earlier(i) \in SUBSET Metrics /\ upstream[m] \subseteq Earlier(i)
        BY <1>2, <1>3, <2>1
    <2>3. m \notin Earlier(i)
        <3>1. \A j \in 1 .. i - 1 : j \in 1 .. n /\ j # i
            BY <1>1
        <3> QED
            BY <1>2, <2>1, <3>1
    <2>4. Closed(Earlier(i))
        <3>1. ASSUME NEW j \in 1 .. i - 1
              PROVE  upstream[order[j]] \subseteq Earlier(i)
            <4>1. j \in 1 .. n /\ \A k \in 1 .. j - 1 : k \in 1 .. i - 1
                BY <1>1
            <4>2. Earlier(j) \subseteq Earlier(i)
                BY <4>1
            <4> HIDE DEF Earlier
            <4> QED
                BY <1>2, <4>1, <4>2
        <3> QED
            BY <3>1 DEF Closed
    <2> HIDE DEF Earlier
    <2>5. upstream[m] \in SUBSET Metrics
        BY <2>2
    <2>6. Lineage(upstream[m]) \subseteq Earlier(i)
        BY <2>2, <2>4, <2>5, LineageLeast
    <2> QED
        BY <2>3, <2>6
<1> QED
    BY <1>4, <1>5, <1>6

-----------------------------------------------------------------------------
(* The closure of a request. *)

\* A plan is a sequence of metrics.
Plan == plan \in Seq(Metrics)

\* One pass follows the plan.
LEMMA PassUnfolds ==
    ASSUME Graph, Plan, NEW c \in SUBSET Metrics
    PROVE  \E w : /\ w[0] = c
                  /\ \A i \in 1 .. Len(plan) :
                        w[i] = IF plan[i] \in w[i - 1] THEN w[i - 1] \cup upstream[plan[i]]
                                                       ELSE w[i - 1]
                  /\ Pass(c) = w[Len(plan)]
<1> DEFINE N == Len(plan)
           T == SUBSET Metrics
           Add(in, m) == IF m \in in THEN in \cup upstream[m] ELSE in
           Body(g) == [s \in SUBSET (1 .. N) |->
                          IF s = {} THEN c ELSE Add(g[s \ {Max(s)}], plan[Max(s)])]
           F == [p \in (1 .. N) \X T |-> Add(p[2], plan[p[1]])]
<1>1. N \in Nat /\ DOMAIN plan = 1 .. N /\ \A i \in 1 .. N : plan[i] \in Metrics
    BY MembersOf, ElementOfSeq DEF Plan
<1>2. F \in [(1 .. N) \X T -> T]
    <2>1. \A i \in 1 .. N : \A in \in T : Add(in, plan[i]) \in T
        BY <1>1 DEF Graph
    <2> HIDE DEF Add, T
    <2> QED
        BY <2>1
<1>3. PICK h \in [SUBSET (1 .. N) -> T] :
         \A s \in SUBSET (1 .. N) : h[s] = IF s = {} THEN c ELSE F[<<Max(s), h[s \ {Max(s)}]>>]
    <2>1. c \in T
        OBVIOUS
    <2> HIDE DEF F, T, N
    <2>2. FoldsOver(T, c, N, F) # {}
        BY <1>1, <1>2, <2>1, FoldExists
    <2> QED
        BY <2>2 DEF FoldsOver
<1> HIDE DEF Add
<1>4. ASSUME NEW s \in SUBSET (1 .. N), s # {}
      PROVE  F[<<Max(s), h[s \ {Max(s)}]>>] = Add(h[s \ {Max(s)}], plan[Max(s)])
    <2>1. Max(s) \in s
        <3>1. s \subseteq Int /\ N \in Int /\ \A x \in s : x <= N
            BY <1>1
        <3> QED
            BY <1>4, <3>1, GreatestNumber
    <2>2. s \ {Max(s)} \in SUBSET (1 .. N) /\ Max(s) \in 1 .. N
        BY <2>1
    <2>3. h[s \ {Max(s)}] \in T
        BY <1>3, <2>2
    <2> HIDE DEF T
    <2> QED
        BY <2>2, <2>3
<1>5. h = Body(h)
    <2>1. \A s \in SUBSET (1 .. N) :
             h[s] = IF s = {} THEN c ELSE Add(h[s \ {Max(s)}], plan[Max(s)])
        <3> HIDE DEF F, N
        <3> QED
            BY <1>3, <1>4
    <2>2. h = [s \in SUBSET (1 .. N) |-> h[s]]
        BY <1>3
    <2> QED
        BY <2>1, <2>2
<1> DEFINE g == CHOOSE f : f = Body(f)
<1>6. g = Body(g)
    <2>1. \E f : f = Body(f)
        BY <1>5
    <2> HIDE DEF Body
    <2> QED
        BY <2>1
<1>7. Pass(c) = g[1 .. N]
    BY <1>1 DEF Pass, FoldLeft, MapThenFoldSet, Add
<1> HIDE DEF g
<1>8. \A s \in SUBSET (1 .. N) : g[s] = IF s = {} THEN c ELSE Add(g[s \ {Max(s)}], plan[Max(s)])
    BY <1>6
<1> DEFINE w == [i \in 0 .. N |-> g[1 .. i]]
<1>9. w[0] = c
    <2>1. 1 .. 0 = {} /\ {} \in SUBSET (1 .. N) /\ 0 \in 0 .. N
        BY <1>1
    <2> QED
        BY <1>8, <2>1
<1>10. ASSUME NEW i \in 1 .. N
       PROVE  w[i] = Add(w[i - 1], plan[i])
    <2>1. i \in Nat /\ i > 0 /\ i \in 0 .. N /\ i - 1 \in 0 .. N
        BY <1>1
    <2>2. 1 .. i # {} /\ Max(1 .. i) = i /\ (1 .. i) \ {i} = 1 .. i - 1
        BY <2>1, Initial
    <2>3. 1 .. i \in SUBSET (1 .. N)
        BY <1>1
    <2>4. g[1 .. i] = Add(g[1 .. i - 1], plan[i])
        BY <1>8, <2>2, <2>3
    <2> QED
        BY <2>1, <2>4
<1>11. w[N] = g[1 .. N]
    BY <1>1
<1> HIDE DEF w
<1> QED
    BY <1>7, <1>9, <1>10, <1>11 DEF Add

\* A pass adds only what belongs to the lineage, and it is the last one when
\* it adds nothing.
LEMMA PassAdds ==
    ASSUME Graph, Plan, NEW c \in SUBSET ToSet(plan)
    PROVE  /\ c \subseteq Pass(c)
           /\ \A in \in SUBSET Metrics : c \subseteq in /\ Closed(in) => Pass(c) \subseteq in
           /\ Pass(c) = c => Closed(c)
<1> DEFINE N == Len(plan)
<1>1. /\ N \in Nat /\ ToSet(plan) = {plan[i] : i \in 1 .. N} /\ c \in SUBSET Metrics
    BY MembersOf DEF Plan
<1>2. PICK w : /\ w[0] = c
               /\ \A i \in 1 .. N :
                     w[i] = IF plan[i] \in w[i - 1] THEN w[i - 1] \cup upstream[plan[i]] ELSE w[i - 1]
               /\ Pass(c) = w[N]
    BY <1>1, PassUnfolds
<1> DEFINE Grown == {i \in Nat : i <= N => \A j \in 0 .. i : w[j] \subseteq w[i]}
<1>3. \A i \in Nat : i + 1 <= N => i + 1 \in 1 .. N /\ (i + 1) - 1 = i
    BY <1>1
<1>4. Nat \subseteq Grown
    <2>1. 0 \in Grown
        OBVIOUS
    <2>2. ASSUME NEW i \in Nat, i \in Grown
          PROVE  i + 1 \in Grown
        <3> SUFFICES ASSUME i + 1 <= N, NEW j \in 0 .. i + 1
                     PROVE  w[j] \subseteq w[i + 1]
            OBVIOUS
        <3>1. w[i] \subseteq w[i + 1]
            BY <1>2, <1>3
        <3>2. i <= N
            BY <1>1
        <3>3. \A k \in 0 .. i : w[k] \subseteq w[i]
            BY <2>2, <3>2
        <3>4. j = i + 1 \/ j \in 0 .. i
            OBVIOUS
        <3> QED
            BY <3>1, <3>3, <3>4
    <2> HIDE DEF Grown
    <2> QED
        BY <2>1, <2>2, NaturalInduction
<1>5. \A i \in 0 .. N : w[0] \subseteq w[i] /\ w[i] \subseteq w[N]
    <2> SUFFICES ASSUME NEW i \in 0 .. N
                 PROVE  w[0] \subseteq w[i] /\ w[i] \subseteq w[N]
        OBVIOUS
    <2>1. i \in Grown /\ N \in Grown
        BY <1>1, <1>4
    <2>2. 0 \in 0 .. i /\ i <= N
        BY <1>1
    <2> QED
        BY <1>1, <2>1, <2>2
<1>6. c \subseteq Pass(c)
    <2>1. 0 \in 0 .. N
        BY <1>1
    <2> QED
        BY <1>2, <1>5, <2>1
<1>7. ASSUME NEW in \in SUBSET Metrics, c \subseteq in, Closed(in)
      PROVE  Pass(c) \subseteq in
    <2> DEFINE Within == {i \in Nat : i <= N => w[i] \subseteq in}
    <2>1. 0 \in Within
        BY <1>2, <1>7
    <2>2. ASSUME NEW i \in Nat, i \in Within
          PROVE  i + 1 \in Within
        <3> SUFFICES ASSUME i + 1 <= N
                     PROVE  w[i + 1] \subseteq in
            OBVIOUS
        <3>1. w[i] \subseteq in
            BY <1>1, <2>2
        <3>2. plan[i + 1] \in in => upstream[plan[i + 1]] \subseteq in
            BY <1>7 DEF Closed
        <3> QED
            BY <1>2, <1>3, <3>1, <3>2
    <2>3. N \in Within
        <3> HIDE DEF Within
        <3> QED
            BY <1>1, <2>1, <2>2, NaturalInduction
    <2> QED
        BY <1>1, <1>2, <2>3
<1>8. ASSUME Pass(c) = c
      PROVE  Closed(c)
    <2>1. \A i \in 0 .. N : w[i] = c
        <3> SUFFICES ASSUME NEW i \in 0 .. N PROVE w[i] = c
            OBVIOUS
        <3>1. c \subseteq w[i] /\ w[i] \subseteq c
            BY <1>2, <1>5, <1>8
        <3> QED
            BY <3>1
    <2>2. ASSUME NEW m \in c
          PROVE  upstream[m] \subseteq c
        <3>1. PICK i \in 1 .. N : m = plan[i]
            BY <1>1
        <3>2. i - 1 \in 0 .. N /\ i \in 0 .. N
            BY <1>1
        <3> QED
            BY <1>2, <2>1, <3>1, <3>2
    <2> QED
        BY <2>2 DEF Closed
<1> QED
    BY <1>6, <1>7, <1>8

\* A pass selects metrics only.
LEMMA PassWithin ==
    ASSUME Graph, Plan, NEW c \in SUBSET Metrics
    PROVE  Pass(c) \in SUBSET Metrics
<1> DEFINE N == Len(plan)
<1>1. N \in Nat /\ \A i \in 1 .. N : plan[i] \in Metrics
    BY MembersOf, ElementOfSeq DEF Plan
<1>2. PICK w : /\ w[0] = c
               /\ \A i \in 1 .. N :
                     w[i] = IF plan[i] \in w[i - 1] THEN w[i - 1] \cup upstream[plan[i]] ELSE w[i - 1]
               /\ Pass(c) = w[N]
    BY PassUnfolds
<1> DEFINE Within == {i \in Nat : i <= N => w[i] \in SUBSET Metrics}
<1>3. 0 \in Within
    BY <1>2
<1>4. ASSUME NEW i \in Nat, i \in Within
      PROVE  i + 1 \in Within
    <2> SUFFICES ASSUME i + 1 <= N
                 PROVE  w[i + 1] \in SUBSET Metrics
        OBVIOUS
    <2>1. w[i] \in SUBSET Metrics /\ i + 1 \in 1 .. N /\ (i + 1) - 1 = i
        BY <1>1, <1>4
    <2>2. upstream[plan[i + 1]] \in SUBSET Metrics
        BY <1>1, <2>1 DEF Graph
    <2> QED
        BY <1>2, <2>1, <2>2
<1>5. N \in Within
    <2> HIDE DEF Within
    <2> QED
        BY <1>1, <1>3, <1>4, NaturalInduction
<1> QED
    BY <1>1, <1>2, <1>5

\* The passes of a request are one after the other.
LEMMA ClosureUnfolds ==
    ASSUME Graph, Plan, NEW codes \in SUBSET Metrics
    PROVE  \E w : /\ w[0] = codes
                  /\ \A i \in 1 .. Len(plan) : w[i] = Pass(w[i - 1])
                  /\ Closure(codes) = w[Len(plan)]
<1> DEFINE N == Len(plan)
           T == SUBSET Metrics
           Body(g) == [s \in SUBSET (1 .. N) |->
                          IF s = {} THEN codes ELSE Pass(g[s \ {Max(s)}])]
           F == [p \in (1 .. N) \X T |-> Pass(p[2])]
<1>1. N \in Nat /\ DOMAIN plan = 1 .. N
    BY MembersOf DEF Plan
<1>2. F \in [(1 .. N) \X T -> T]
    <2>1. ASSUME NEW c \in T
          PROVE  Pass(c) \in T
        BY PassWithin
    <2> HIDE DEF T
    <2> QED
        BY <2>1
<1>3. PICK h \in [SUBSET (1 .. N) -> T] :
         \A s \in SUBSET (1 .. N) : h[s] = IF s = {} THEN codes ELSE F[<<Max(s), h[s \ {Max(s)}]>>]
    <2>1. codes \in T
        OBVIOUS
    <2> HIDE DEF F, T, N
    <2>2. FoldsOver(T, codes, N, F) # {}
        BY <1>1, <1>2, <2>1, FoldExists
    <2> QED
        BY <2>2 DEF FoldsOver
<1>4. ASSUME NEW s \in SUBSET (1 .. N), s # {}
      PROVE  F[<<Max(s), h[s \ {Max(s)}]>>] = Pass(h[s \ {Max(s)}])
    <2>1. Max(s) \in s
        <3>1. s \subseteq Int /\ N \in Int /\ \A x \in s : x <= N
            BY <1>1
        <3> QED
            BY <1>4, <3>1, GreatestNumber
    <2>2. s \ {Max(s)} \in SUBSET (1 .. N) /\ Max(s) \in 1 .. N
        BY <2>1
    <2>3. h[s \ {Max(s)}] \in T
        BY <1>3, <2>2
    <2> HIDE DEF T
    <2> QED
        BY <2>2, <2>3
<1>5. h = Body(h)
    <2>1. \A s \in SUBSET (1 .. N) : h[s] = IF s = {} THEN codes ELSE Pass(h[s \ {Max(s)}])
        <3> HIDE DEF F, N
        <3> QED
            BY <1>3, <1>4
    <2>2. h = [s \in SUBSET (1 .. N) |-> h[s]]
        BY <1>3
    <2> QED
        BY <2>1, <2>2
<1> DEFINE g == CHOOSE f : f = Body(f)
<1>6. g = Body(g)
    <2>1. \E f : f = Body(f)
        BY <1>5
    <2> HIDE DEF Body
    <2> QED
        BY <2>1
<1>7. Closure(codes) = g[1 .. N]
    BY <1>1 DEF Closure, FoldLeft, MapThenFoldSet
<1> HIDE DEF g
<1>8. \A s \in SUBSET (1 .. N) : g[s] = IF s = {} THEN codes ELSE Pass(g[s \ {Max(s)}])
    BY <1>6
<1> DEFINE w == [i \in 0 .. N |-> g[1 .. i]]
<1>9. w[0] = codes
    <2>1. 1 .. 0 = {} /\ {} \in SUBSET (1 .. N) /\ 0 \in 0 .. N
        BY <1>1
    <2> QED
        BY <1>8, <2>1
<1>10. ASSUME NEW i \in 1 .. N
       PROVE  w[i] = Pass(w[i - 1])
    <2>1. i \in Nat /\ i > 0 /\ i \in 0 .. N /\ i - 1 \in 0 .. N
        BY <1>1
    <2>2. 1 .. i # {} /\ Max(1 .. i) = i /\ (1 .. i) \ {i} = 1 .. i - 1
        BY <2>1, Initial
    <2>3. 1 .. i \in SUBSET (1 .. N)
        BY <1>1
    <2>4. g[1 .. i] = Pass(g[1 .. i - 1])
        BY <1>8, <2>2, <2>3
    <2> QED
        BY <2>1, <2>4
<1>11. w[N] = g[1 .. N]
    BY <1>1
<1> HIDE DEF w
<1> QED
    BY <1>7, <1>9, <1>10, <1>11

\* The closure of a request is its lineage: as many passes as the plan is long
\* are enough, because each but the last adds something.
LEMMA ClosureIsLineage ==
    ASSUME Graph, Plan, Closed(ToSet(plan)), NEW codes \in SUBSET ToSet(plan),
           Cardinality(ToSet(plan)) = Len(plan)
    PROVE  Closure(codes) = Lineage(codes) /\ Lineage(codes) \subseteq ToSet(plan)
<1> DEFINE N == Len(plan)
           P == ToSet(plan)
           L == Lineage(codes)
<1>1. N \in Nat /\ P \in SUBSET Metrics /\ codes \in SUBSET Metrics /\ IsFiniteSet(P)
    BY MembersOf, MetricsAre, FS_Subset DEF Plan
<1>2. L \in SUBSET Metrics /\ codes \subseteq L /\ Closed(L)
    BY <1>1, LineageLeast
<1>3. \A in \in SUBSET Metrics : codes \subseteq in /\ Closed(in) => L \subseteq in
    BY <1>1, LineageLeast
<1>4. L \subseteq P
    BY <1>1, <1>3
<1>5. PICK w : /\ w[0] = codes
               /\ \A i \in 1 .. N : w[i] = Pass(w[i - 1])
               /\ Closure(codes) = w[N]
    BY <1>1, ClosureUnfolds
<1> HIDE DEF N, P, L
<1> DEFINE Good == {i \in Nat : i <= N => /\ codes \subseteq w[i] /\ w[i] \subseteq L
                                          /\ w[i] = L \/ Cardinality(w[i]) >= i}
<1>6. \A c \in SUBSET L : c \in SUBSET P /\ IsFiniteSet(c) /\ Cardinality(c) \in Nat
    BY <1>1, <1>4, FS_Subset, FS_CardinalityType
<1>7. 0 \in Good
    <2>1. Cardinality(codes) >= 0
        BY <1>2, <1>6
    <2> QED
        BY <1>2, <1>5, <2>1
<1>8. ASSUME NEW i \in Nat, i \in Good
      PROVE  i + 1 \in Good
    <2> SUFFICES ASSUME i + 1 <= N
                 PROVE  /\ codes \subseteq w[i + 1] /\ w[i + 1] \subseteq L
                        /\ w[i + 1] = L \/ Cardinality(w[i + 1]) >= i + 1
        OBVIOUS
    <2>1. codes \subseteq w[i] /\ w[i] \subseteq L /\ (w[i] = L \/ Cardinality(w[i]) >= i)
        BY <1>1, <1>8
    <2>2. w[i + 1] = Pass(w[i])
        <3>1. i + 1 \in 1 .. N /\ (i + 1) - 1 = i
            BY <1>1
        <3> QED
            BY <1>5, <3>1
    <2>3. w[i] \subseteq w[i + 1] /\ w[i + 1] \subseteq L
        <3>1. w[i] \in SUBSET ToSet(plan)
            BY <1>6, <2>1 DEF P
        <3> QED
            BY <1>2, <2>1, <2>2, <3>1, PassAdds
    <2>4. CASE w[i] = L
        BY <1>2, <2>3, <2>4
    <2>5. CASE w[i] # L /\ Cardinality(w[i]) >= i
        <3>1. ~Closed(w[i])
            BY <1>2, <1>3, <2>1, <2>5
        <3>2. w[i + 1] # w[i]
            <4>1. w[i] \in SUBSET ToSet(plan)
                BY <1>6, <2>1 DEF P
            <4> QED
                BY <2>2, <3>1, <4>1, PassAdds
        <3>3. /\ IsFiniteSet(w[i + 1]) /\ Cardinality(w[i]) \in Nat /\ Cardinality(w[i + 1]) \in Nat
            BY <1>6, <2>1, <2>3
        <3>4. Cardinality(w[i]) <= Cardinality(w[i + 1]) /\ Cardinality(w[i]) # Cardinality(w[i + 1])
            BY <2>3, <3>2, <3>3, FS_Subset
        <3>5. Cardinality(w[i + 1]) >= i + 1
            BY <2>5, <3>3, <3>4
        <3> QED
            BY <2>1, <2>3, <3>5
    <2> QED
        BY <2>1, <2>4, <2>5
<1>9. N \in Good
    <2> HIDE DEF Good
    <2> QED
        BY <1>1, <1>7, <1>8, NaturalInduction
<1>10. w[N] \subseteq L /\ (w[N] = L \/ Cardinality(w[N]) >= N)
    BY <1>1, <1>9
<1>11. w[N] = L
    <2>1. CASE Cardinality(w[N]) >= N
        <3>1. Cardinality(P) = N
            BY DEF P, N
        <3>2. w[N] \in SUBSET P /\ Cardinality(w[N]) \in Nat
            BY <1>6, <1>10
        <3>3. Cardinality(w[N]) <= N
            BY <1>1, <3>1, <3>2, FS_Subset
        <3>4. Cardinality(w[N]) = Cardinality(P)
            BY <1>1, <2>1, <3>1, <3>2, <3>3
        <3>5. w[N] = P
            BY <1>1, <3>2, <3>4, FS_Subset
        <3> QED
            BY <1>4, <1>10, <3>5
    <2> QED
        BY <1>10, <2>1
<1> QED
    BY <1>4, <1>5, <1>11 DEF L, P

-----------------------------------------------------------------------------
(* The catalog engine. *)

\* The stages that are reached: execution never stops at a missing dependency.
Stages == {"catalog", "refused", "planned", "running", "failed", "done"}

\* A delivery that has a plan: it holds all that it depends on, and no cycle.
Ending == Closed(scope) /\ \A m \in scope : m \notin Lineage(upstream[m])

\* The type of the catalog's state.
CatalogType ==
    /\ Graph
    /\ stage \in Stages
    /\ scope \in SUBSET Metrics
    /\ requested \in SUBSET Metrics
    /\ todo \in SUBSET Metrics

\* A plan is an order of its whole delivery, and there is one exactly when the
\* dependencies end.
PlanInv ==
    /\ stage = "refused" => ~Ending
    /\ stage \notin {"catalog", "refused"} => Ordered(plan, scope) /\ ToSet(plan) = scope

\* A batch consists of the lineage of the request: what has been executed, each
\* with the hash of its own lineage, and what is left to execute.
BatchInv ==
    /\ stage \in {"catalog", "planned"} => DOMAIN hashes = {}
    /\ stage = "done" => todo = {}
    /\ stage \in {"running", "done"} =>
          /\ requested \subseteq scope
          /\ DOMAIN hashes \cup todo = Lineage(requested) /\ DOMAIN hashes \cap todo = {}
          /\ \A m \in DOMAIN hashes : hashes[m] = Lineage({m})

\* The inductive invariant.
CatalogInv == CatalogType /\ PlanInv /\ BatchInv

\* Whether a plan is an order depends on the catalog only.
LEMMA OrderedNext ==
    ASSUME upstream' = upstream, NEW o, NEW s, Ordered(o, s), ToSet(o) = s, plan' = o, scope' = s
    PROVE  Ordered(plan, scope)' /\ ToSet(plan)' = scope'
<1>1. /\ o \in Seq(s)
      /\ \A i, j \in 1 .. Len(o) : o[i] = o[j] => i = j
      /\ \A i \in 1 .. Len(o) : upstream'[o[i]] \subseteq {o[j] : j \in 1 .. i - 1}
    BY DEF Ordered
<1>2. Ordered(plan, scope)'
    BY <1>1 DEF Ordered
<1>3. ToSet(plan)' = ToSet(plan')
    BY DEF ToSet
<1> QED
    BY <1>2, <1>3

\* The invariant holds of an empty catalog.
LEMMA CatalogInit0 == CatalogInit => CatalogInv
BY DEF CatalogInit, CatalogInv, CatalogType, PlanInv, BatchInv, Graph, Stages

\* Compiling a delivery yields an order of it or refuses it.
LEMMA CompileKeeps ==
    ASSUME CatalogInv, NEW selected \in SUBSET Metrics, Compile(selected)
    PROVE  CatalogInv'
<1> DEFINE order == TopologicalOrder(selected)
<1>1. Graph /\ Graph' /\ upstream' = upstream /\ scope' = selected
    BY DEF CatalogInv, CatalogType, Compile, Graph
<1>2. Ordered(order, selected) /\ Ready(selected, ToSet(order)) = {}
    BY <1>1, OrderComplete
<1>3. ToSet(order) \subseteq selected
    BY <1>2, MembersOf DEF Ordered
<1> HIDE DEF order
<1>4. /\ requested' \in SUBSET Metrics /\ todo' \in SUBSET Metrics
      /\ DOMAIN hashes' = {}
    BY DEF CatalogInv, CatalogType, BatchInv, Compile
<1>5. Ending' <=> Closed(selected) /\ \A m \in selected : m \notin Lineage(upstream[m])
    BY <1>1 DEF Ending, Closed, Lineage
<1>6. CASE (\E m \in selected : ~(upstream[m] \subseteq selected)) \/ ToSet(order) # selected
    <2>1. stage' = "refused"
        BY <1>6 DEF Compile, order
    <2>2. ~Ending'
        <3>1. CASE Closed(selected)
            <4>1. ToSet(order) # selected
                BY <1>6, <3>1 DEF Closed
            <4> QED
                BY <1>1, <1>2, <1>3, <1>5, <3>1, <4>1, StuckOnCycle
        <3> QED
            BY <1>5, <3>1
    <2> QED
        BY <1>1, <1>4, <2>1, <2>2 DEF CatalogInv, CatalogType, PlanInv, BatchInv, Stages
<1>7. CASE ~((\E m \in selected : ~(upstream[m] \subseteq selected)) \/ ToSet(order) # selected)
    <2>1. stage' = "planned" /\ plan' = order
        BY <1>7 DEF Compile, order
    <2>3. Ordered(plan, scope)' /\ ToSet(plan)' = scope'
        BY <1>1, <1>2, <1>7, <2>1, OrderedNext
    <2> QED
        BY <1>1, <1>4, <2>1, <2>3 DEF CatalogInv, CatalogType, PlanInv, BatchInv, Stages
<1> QED
    BY <1>6, <1>7

\* What a plan is good for: it is a sequence of metrics, each of its delivery once.
LEMMA PlanIs ==
    ASSUME CatalogInv, stage \notin {"catalog", "refused"}
    PROVE  /\ Graph /\ Plan /\ Ordered(plan, scope) /\ ToSet(plan) = scope
           /\ Closed(ToSet(plan)) /\ Cardinality(ToSet(plan)) = Len(plan)
           /\ Ending
<1>1. Graph /\ scope \in SUBSET Metrics /\ Ordered(plan, scope) /\ ToSet(plan) = scope
    BY DEF CatalogInv, CatalogType, PlanInv
<1>2. Plan
    BY <1>1, SeqMonotonic DEF Plan, Ordered
<1>3. /\ Closed(scope) /\ Len(plan) = Cardinality(scope)
      /\ \A m \in scope : m \notin Lineage(upstream[m])
    BY <1>1, OrderedEnds
<1> QED
    BY <1>1, <1>2, <1>3 DEF Ending

\* Nothing of a plan depends on the batch.
LEMMA PlanStays ==
    ASSUME CatalogInv, stage \notin {"catalog", "refused"},
           UNCHANGED <<upstream, scope, plan>>, stage' \in Stages \ {"catalog", "refused"}
    PROVE  /\ Graph' /\ scope' \in SUBSET Metrics /\ PlanInv'
           /\ \A codes : Lineage(codes)' = Lineage(codes)
<1>1. Graph' /\ scope' \in SUBSET Metrics
    BY DEF CatalogInv, CatalogType, Graph
<1>2. \A codes : Lineage(codes)' = Lineage(codes)
    BY DEF Lineage, Closed
<1>3. Ordered(plan, scope)' /\ ToSet(plan)' = scope'
    BY PlanIs, OrderedNext
<1> QED
    BY <1>1, <1>2, <1>3 DEF PlanInv

\* A request starts from nothing executed and everything of its lineage left.
LEMMA RequestKeeps ==
    ASSUME CatalogInv, NEW codes \in SUBSET Metrics, Request(codes)
    PROVE  CatalogInv'
<1>1. /\ stage = "planned" /\ stage \notin {"catalog", "refused"}
      /\ UNCHANGED <<upstream, scope, plan, hashes>>
      /\ stage' \in Stages \ {"catalog", "refused"}
    BY DEF Request, Stages
<1>2. /\ Graph' /\ scope' \in SUBSET Metrics /\ PlanInv'
      /\ \A c : Lineage(c)' = Lineage(c)
    BY <1>1, PlanStays
<1>3. /\ requested \in SUBSET Metrics /\ todo \in SUBSET Metrics /\ DOMAIN hashes = {}
    BY <1>1 DEF CatalogInv, CatalogType, BatchInv
<1>4. CASE codes \subseteq ToSet(plan)
    <2>1. stage' = "running" /\ requested' = codes /\ todo' = ToSet(plan) \cap Closure(codes)
        BY <1>4 DEF Request
    <2>2. /\ Graph /\ Plan /\ ToSet(plan) = scope
          /\ Closed(ToSet(plan)) /\ Cardinality(ToSet(plan)) = Len(plan)
        BY <1>1, PlanIs
    <2>3. Closure(codes) = Lineage(codes) /\ Lineage(codes) \subseteq ToSet(plan)
        BY <1>4, <2>2, ClosureIsLineage
    <2>4. todo' = Lineage(codes) /\ Lineage(requested)' = Lineage(codes)
        <3>1. Lineage(requested)' = Lineage(codes)
            BY <1>1, <2>1 DEF Lineage, Closed
        <3> QED
            BY <2>1, <2>3, <3>1
    <2>5. todo' \in SUBSET Metrics
        BY <1>2, <1>1, <2>2, <2>3, <2>4
    <2>6. DOMAIN hashes' = {} /\ requested' \subseteq scope'
        BY <1>1, <1>3, <1>4, <2>1, <2>2
    <2> QED
        BY <1>1, <1>2, <2>1, <2>4, <2>5, <2>6 DEF CatalogInv, CatalogType, BatchInv
<1>5. CASE ~(codes \subseteq ToSet(plan))
    <2>1. stage' = "failed" /\ UNCHANGED <<requested, todo>>
        BY <1>5 DEF Request
    <2> QED
        BY <1>1, <1>2, <1>3, <2>1 DEF CatalogInv, CatalogType, BatchInv
<1> QED
    BY <1>4, <1>5

\* A metric is executed when all it is computed from has been.
LEMMA EvaluateKeeps ==
    ASSUME CatalogInv, Evaluate
    PROVE  CatalogInv'
<1>1. stage = "running" /\ UNCHANGED <<upstream, scope, plan, requested>>
    BY DEF Evaluate
<1>2. PICK n \in DOMAIN plan :
         /\ plan[n] \in todo /\ \A k \in 1 .. n - 1 : plan[k] \notin todo
         /\ LET m == plan[n] IN
               IF upstream[m] \subseteq DOMAIN hashes
               THEN /\ hashes' = [x \in DOMAIN hashes \cup {m} |->
                                     IF x = m THEN {m} \cup UNION {hashes[d] : d \in upstream[m]}
                                     ELSE hashes[x]]
                    /\ todo' = todo \ {m}
                    /\ stage' = IF todo' = {} THEN "done" ELSE "running"
               ELSE stage' = "keyerror" /\ UNCHANGED <<todo, hashes>>
    BY DEF Evaluate
<1> DEFINE m == plan[n]
<1>3. /\ Graph /\ Plan /\ Ordered(plan, scope) /\ ToSet(plan) = scope /\ Closed(scope)
    BY <1>1, PlanIs
<1>4. /\ todo \in SUBSET Metrics /\ requested \in SUBSET Metrics
      /\ DOMAIN hashes \cup todo = Lineage(requested) /\ DOMAIN hashes \cap todo = {}
      /\ \A x \in DOMAIN hashes : hashes[x] = Lineage({x})
      /\ requested \subseteq scope
    BY <1>1 DEF CatalogInv, CatalogType, BatchInv
<1>5. m \in todo /\ m \in Metrics /\ m \in Lineage(requested) /\ m \notin DOMAIN hashes
    BY <1>2, <1>4
<1>6. upstream[m] \subseteq DOMAIN hashes
    <2>1. upstream[m] \subseteq Lineage(requested)
        BY <1>3, <1>4, <1>5, LineageLeast DEF Closed
    <2>2. upstream[m] \subseteq {plan[k] : k \in 1 .. n - 1}
        <3>1. DOMAIN plan = 1 .. Len(plan)
            BY <1>3, MembersOf DEF Plan
        <3> QED
            BY <1>3, <3>1 DEF Ordered
    <2>3. \A d \in upstream[m] : d \notin todo
        BY <1>2, <2>2
    <2> QED
        BY <1>4, <2>1, <2>3
<1>7. /\ hashes' = [x \in DOMAIN hashes \cup {m} |->
                       IF x = m THEN {m} \cup UNION {hashes[d] : d \in upstream[m]} ELSE hashes[x]]
      /\ todo' = todo \ {m}
      /\ stage' = IF todo' = {} THEN "done" ELSE "running"
    BY <1>2, <1>6
<1> HIDE DEF m
<1>8. stage' \in Stages \ {"catalog", "refused"} /\ (stage' = "done" => todo' = {})
    BY <1>7 DEF Stages
<1>9. /\ Graph' /\ scope' \in SUBSET Metrics /\ PlanInv'
      /\ \A c : Lineage(c)' = Lineage(c)
    BY <1>1, <1>8, PlanStays
<1>10. DOMAIN hashes' = DOMAIN hashes \cup {m}
    BY <1>7
<1>11. hashes'[m] = Lineage({m})
    <2>1. Lineage({m}) = {m} \cup UNION {Lineage({d}) : d \in upstream[m]}
        BY <1>3, <1>5, LineageOfOne
    <2>2. {hashes[d] : d \in upstream[m]} = {Lineage({d}) : d \in upstream[m]}
        BY <1>4, <1>6
    <2>3. hashes'[m] = {m} \cup UNION {hashes[d] : d \in upstream[m]}
        BY <1>7
    <2> QED
        BY <2>1, <2>2, <2>3
<1>12. \A x \in DOMAIN hashes' : hashes'[x] = Lineage({x})
    <2>1. \A x \in DOMAIN hashes : hashes'[x] = hashes[x]
        BY <1>5, <1>7
    <2> QED
        BY <1>4, <1>10, <1>11, <2>1
<1>13. DOMAIN hashes' \cup todo' = Lineage(requested) /\ DOMAIN hashes' \cap todo' = {}
    BY <1>4, <1>5, <1>7, <1>10
<1>14. Lineage(requested)' = Lineage(requested) /\ requested' = requested /\ scope' = scope
    BY <1>1 DEF Lineage, Closed
<1>15. \A x \in DOMAIN hashes' : hashes'[x] = Lineage({x})'
    BY <1>9, <1>12
<1>16. BatchInv'
    <2>1. stage' \notin {"catalog", "planned"}
        BY <1>7
    <2>2. requested' \subseteq scope'
        BY <1>4, <1>14
    <2>3. DOMAIN hashes' \cup todo' = Lineage(requested)'
        BY <1>13, <1>14
    <2> QED
        BY <1>8, <1>13, <1>15, <2>1, <2>2, <2>3 DEF BatchInv
<1>17. CatalogType'
    BY <1>4, <1>7, <1>8, <1>9, <1>14 DEF CatalogType
<1> QED
    BY <1>9, <1>16, <1>17 DEF CatalogInv

\* Every step of the catalog keeps the invariant.
LEMMA CatalogStep ==
    ASSUME CatalogInv, [CatalogNext]_catalog
    PROVE  CatalogInv'
<1>1. ASSUME NEW m \in Metrics, NEW d \in Metrics, Declare(m, d)
      PROVE  CatalogInv'
    <2>1. Graph'
        BY <1>1 DEF Declare, CatalogInv, CatalogType, Graph
    <2> QED
        BY <1>1, <2>1 DEF Declare, CatalogInv, CatalogType, PlanInv, BatchInv, Stages
<1>2. CASE Break
    <2>1. /\ stage = "running" /\ stage' = "failed" /\ stage \notin {"catalog", "refused"}
          /\ UNCHANGED <<upstream, scope, plan, requested, todo, hashes>>
          /\ stage' \in Stages \ {"catalog", "refused"}
        BY <1>2 DEF Break, Stages
    <2>2. Graph' /\ scope' \in SUBSET Metrics /\ PlanInv'
        BY <2>1, PlanStays
    <2> QED
        BY <2>1, <2>2 DEF CatalogInv, CatalogType, BatchInv
<1>3. CASE UNCHANGED catalog
    <2>1. UNCHANGED <<upstream, stage, scope, plan, requested, todo, hashes>>
        BY <1>3 DEF catalog
    <2>2. Ending' <=> Ending
        BY <2>1 DEF Ending, Closed, Lineage
    <2>3. \A codes : Lineage(codes)' = Lineage(codes)
        BY <2>1 DEF Lineage, Closed
    <2>4. Lineage(requested)' = Lineage(requested)
        BY <2>1 DEF Lineage, Closed
    <2>5. CatalogType'
        BY <2>1 DEF CatalogInv, CatalogType, Graph
    <2>6. PlanInv'
        <3>1. CASE stage \notin {"catalog", "refused"}
            <4>1. Ordered(plan, scope) /\ ToSet(plan) = scope
                BY <3>1, PlanIs
            <4>2. Ordered(plan, scope)' /\ ToSet(plan)' = scope'
                BY <2>1, <4>1, OrderedNext
            <4> QED
                BY <2>1, <3>1, <4>2 DEF PlanInv
        <3>2. CASE stage \in {"catalog", "refused"}
            BY <2>1, <2>2, <3>2 DEF CatalogInv, PlanInv
        <3> QED
            BY <3>1, <3>2
    <2>7. BatchInv'
        BY <2>1, <2>3, <2>4 DEF CatalogInv, BatchInv
    <2> QED
        BY <2>5, <2>6, <2>7 DEF CatalogInv
<1> QED
    BY <1>1, <1>2, <1>3, CompileKeeps, RequestKeeps, EvaluateKeeps DEF CatalogNext

\* A catalog compiles exactly when its dependencies can be followed to an end
\* within the delivery; a batch never misses the result of a dependency, and
\* its records are the lineage of what was asked for, each with the hash of its
\* own: for every catalog, delivery and request.
THEOREM LineageCompleteAlways == CatalogSpec => []LineageComplete
<1>1. CatalogInv => LineageComplete
    <2> SUFFICES ASSUME CatalogInv PROVE LineageComplete
        OBVIOUS
    <2>1. stage # "keyerror" /\ (stage = "refused" => ~Ending)
        BY DEF CatalogInv, CatalogType, Stages, PlanInv
    <2>2. ASSUME stage \notin {"catalog", "refused"}
          PROVE  Ending /\ ToSet(plan) = scope /\ Len(plan) = Cardinality(scope)
        BY <2>2, PlanIs
    <2>3. ASSUME stage = "done"
          PROVE  /\ DOMAIN hashes = Lineage(requested)
                 /\ \A m \in DOMAIN hashes : hashes[m] = Lineage({m})
        BY <2>3 DEF CatalogInv, BatchInv
    <2> QED
        BY <2>1, <2>2, <2>3 DEF LineageComplete, Ending
<1> QED
    BY <1>1, CatalogInit0, CatalogStep, PTL DEF CatalogSpec

-----------------------------------------------------------------------------
(* Intervals in order. *)

\* InOrder lists every member of a finite set of intervals once, in the order
\* of Before.
LEMMA InOrderLists ==
    ASSUME NEW S \in SUBSET Interval, IsFiniteSet(S)
    PROVE  /\ Cardinality(S) \in Nat
           /\ InOrder(S) \in Seq(S) /\ Len(InOrder(S)) = Cardinality(S)
           /\ DOMAIN InOrder(S) = 1 .. Cardinality(S)
           /\ \A n \in 1 .. Cardinality(S) : InOrder(S)[n] \in S
           /\ \A i \in S : \E n \in 1 .. Cardinality(S) : InOrder(S)[n] = i
           /\ \A n, k \in 1 .. Cardinality(S) : n < k => Before(InOrder(S)[n], InOrder(S)[k])
<1> DEFINE c == Cardinality(S)
           R == {p \in S \X S : Before(p[1], p[2])}
           Rank(m) == Cardinality({d \in S : <<d, m>> \in R})
           b == InOrder(S)
<1>1. \A x, y \in S : <<x, y>> \in R <=> Before(x, y)
    OBVIOUS
<1>2. \A m \in S : {d \in S : <<d, m>> \in R} = {d \in S : Before(d, m)}
    BY <1>1
<1>3. \A x \in S : x \in Times \X Times /\ x[1] \in Int /\ x[2] \in Int /\ x = <<x[1], x[2]>>
    BY MetricConstants DEF Interval, Times
<1> HIDE DEF R
<1>4. StrictOrder(R, S)
    <2>1. \A x \in S : <<x, x>> \notin R
        BY <1>1, <1>3 DEF Before
    <2>2. ASSUME NEW x \in S, NEW y \in S
          PROVE  x = y \/ <<x, y>> \in R \/ <<y, x>> \in R
        <3>1. x[1] = y[1] /\ x[2] = y[2] => x = y
            BY <1>3
        <3> QED
            BY <1>1, <1>3, <3>1 DEF Before
    <2>3. ASSUME NEW x \in S, NEW y \in S, NEW z \in S, Before(x, y), Before(y, z)
          PROVE  Before(x, z)
        BY <1>3, <2>3 DEF Before
    <2> QED
        BY <1>1, <2>1, <2>2, <2>3 DEF StrictOrder
<1>5. /\ c \in Nat
      /\ \A m \in S : Rank(m) \in 0 .. c - 1
      /\ \A k \in 0 .. c - 1 : \E m \in S : Rank(m) = k
      /\ \A m, k \in S : <<m, k>> \in R => Rank(m) < Rank(k)
    <2>1. Ranked(S, R)
        BY <1>4, OrderRanks
    <2> QED
        BY <2>1 DEF Ranked, RankIn
<1>6. b = [n \in 1 .. c |-> CHOOSE i \in S : Cardinality({j \in S : Before(j, i)}) = n - 1]
    BY DEF InOrder
<1>7. \A m \in S : Rank(m) = Cardinality({d \in S : Before(d, m)})
    BY <1>2
<1> HIDE DEF c, Rank, b
<1>8. ASSUME NEW n \in 1 .. c
      PROVE  b[n] \in S /\ Rank(b[n]) = n - 1
    <2>1. \E i \in S : Cardinality({j \in S : Before(j, i)}) = n - 1
        <3>1. n - 1 \in 0 .. c - 1
            BY <1>5
        <3> QED
            BY <1>5, <1>7, <3>1
    <2>2. b[n] = CHOOSE i \in S : Cardinality({j \in S : Before(j, i)}) = n - 1
        BY <1>6
    <2> QED
        BY <1>7, <2>1, <2>2
<1>9. b \in Seq(S) /\ Len(b) = c /\ DOMAIN b = 1 .. c
    <2>1. b \in [1 .. c -> S]
        BY <1>6, <1>8
    <2> QED
        BY <1>5, <2>1
<1>10. ASSUME NEW m \in S
       PROVE  \E n \in 1 .. c : b[n] = m
    <2>1. Rank(m) \in Int /\ Rank(m) + 1 \in 1 .. c
        BY <1>5
    <2>2. b[Rank(m) + 1] \in S /\ Rank(b[Rank(m) + 1]) = Rank(m)
        BY <1>8, <2>1
    <2>3. b[Rank(m) + 1] = m
        <3>1. ~(Rank(b[Rank(m) + 1]) < Rank(m)) /\ ~(Rank(m) < Rank(b[Rank(m) + 1]))
            BY <2>1, <2>2
        <3> QED
            BY <1>4, <1>5, <2>2, <3>1 DEF StrictOrder
    <2> QED
        BY <2>1, <2>3
<1>11. ASSUME NEW n \in 1 .. c, NEW k \in 1 .. c, n < k
       PROVE  Before(b[n], b[k])
    <2>1. b[n] \in S /\ b[k] \in S /\ Rank(b[n]) < Rank(b[k])
        BY <1>5, <1>8, <1>11
    <2>2. ~(Rank(b[k]) < Rank(b[n])) /\ b[n] # b[k]
        BY <1>5, <2>1
    <2> QED
        BY <1>1, <1>4, <1>5, <2>1, <2>2 DEF StrictOrder
<1> QED
    BY <1>5, <1>8, <1>9, <1>10, <1>11 DEF b, c

-----------------------------------------------------------------------------
(* The relation of tracks and targets. *)

RelationInv == relation \in SUBSET Row /\ IsFiniteSet(relation)

\* The relation is a finite set of rows.
LEMMA RelationAlways == AssociationSpec => []RelationInv
<1>1. EmptyRelation => RelationInv
    BY FS_EmptySet DEF EmptyRelation, RelationInv
<1>2. RelationInv /\ [\E row \in Row : Associate(row)]_relation => RelationInv'
    <2> SUFFICES ASSUME RelationInv, NEW row \in Row, Associate(row)
                 PROVE  RelationInv'
        BY DEF RelationInv
    <2> QED
        BY FS_AddElement DEF RelationInv, Associate
<1> QED
    BY <1>1, <1>2, PTL DEF AssociationSpec

\* The times of rows and what they associate.
LEMMA RowsAre ==
    ASSUME RelationInv
    PROVE  /\ Horizon \in Nat /\ Horizon > 0 /\ Persistence \in Nat /\ Persistence > 0
           /\ MaxGap \in Nat /\ Times = 0 .. Horizon /\ Instants = 0 .. Horizon - 1
           /\ \A r \in relation :
                 /\ r.span \in Interval /\ r.track \in Tracks /\ r.target \in Targets
                 /\ r.span[1] \in Times /\ r.span[2] \in Times /\ r.span[1] < r.span[2]
           /\ \A i \in Interval : i = <<i[1], i[2]>> /\ i[1] \in Times /\ i[2] \in Times /\ i[1] < i[2]
           /\ \A t : Holds(t) \in SUBSET Pairs
<1>1. Horizon \in Nat /\ Horizon > 0 /\ Persistence \in Nat /\ Persistence > 0 /\ MaxGap \in Nat
    BY MetricConstants
<1>2. \A r \in relation : r.span \in Interval /\ r.track \in Tracks /\ r.target \in Targets
    BY DEF RelationInv, Row
<1>3. \A i \in Interval : i = <<i[1], i[2]>> /\ i[1] \in Times /\ i[2] \in Times /\ i[1] < i[2]
    BY DEF Interval
<1>4. \A t : Holds(t) \in SUBSET Pairs
    BY <1>2 DEF Holds, Pairs
<1> QED
    BY <1>1, <1>2, <1>3, <1>4 DEF Times, Instants

\* Where a row begins or ends.
LEMMA BoundariesAre ==
    ASSUME RelationInv
    PROVE  /\ Boundaries \subseteq Times /\ IsFiniteSet(Boundaries)
           /\ \A r \in relation : r.span[1] \in Boundaries /\ r.span[2] \in Boundaries
           /\ \A t \in Boundaries : t <= Max(Boundaries \cup {0})
           /\ \A t \in Boundaries \ {Max(Boundaries \cup {0})} :
                 /\ After(t) \in Boundaries /\ t < After(t)
                 /\ \A u \in Boundaries : u <= t \/ After(t) <= u
<1>1. /\ Boundaries \subseteq Times
      /\ \A r \in relation : r.span[1] \in Boundaries /\ r.span[2] \in Boundaries
    BY RowsAre DEF Boundaries
<1>2. IsFiniteSet(Boundaries)
    <2>1. IsFiniteSet(Times)
        <3>1. 0 \in Int /\ Horizon \in Int /\ Times = 0 .. Horizon
            BY RowsAre
        <3> QED
            BY <3>1, FS_Interval
    <2> QED
        BY <1>1, <2>1, FS_Subset
<1> DEFINE B == Boundaries
           top == Max(B \cup {0})
<1> HIDE DEF B
<1>3. B \cup {0} \subseteq Int /\ B \subseteq Nat /\ \A x \in B \cup {0} : x <= Horizon
    BY <1>1, RowsAre DEF B
<1>4. top \in B \cup {0} /\ \A t \in B \cup {0} : t <= top
    BY <1>3, GreatestNumber, RowsAre
<1> HIDE DEF top
<1>5. ASSUME NEW t \in B \ {top}
      PROVE  After(t) \in B /\ t < After(t) /\ \A u \in B : u <= t \/ After(t) <= u
    <2> DEFINE L == {u \in B : u > t}
    <2>1. t \in Nat /\ t < top /\ top \in Nat
        BY <1>3, <1>4, <1>5
    <2>2. top \in B
        BY <1>3, <1>4, <2>1, <1>5
    <2>3. top \in L /\ L \subseteq Nat
        BY <1>3, <2>1, <2>2
    <2>4. After(t) = Min(L)
        BY DEF After, B
    <2>5. Min(L) \in L /\ \A x \in L : Min(L) <= x
        <3> HIDE DEF L
        <3> QED
            BY <2>3, SmallestNumber
    <2> QED
        BY <1>3, <2>1, <2>4, <2>5
<1> QED
    BY <1>1, <1>2, <1>4, <1>5 DEF B, top

\* The intervals between one boundary and the next.
Elementary == {<<t, After(t)>> : t \in Boundaries \ {Max(Boundaries \cup {0})}}

\* Nothing changes within an elementary interval, and each association is in one.
LEMMA ElementaryAre ==
    ASSUME RelationInv
    PROVE  /\ Elementary \in SUBSET Interval /\ IsFiniteSet(Elementary)
           /\ \A e \in Elementary : \A u \in Boundaries : u <= e[1] \/ e[2] <= u
           /\ \A e, f \in Elementary : Before(e, f) => e[2] <= f[1]
           /\ \A t \in Instants : Holds(t) # {} => \E e \in Elementary : e[1] <= t /\ t < e[2]
           /\ \A e \in Elementary : \A t \in Instants :
                 e[1] <= t /\ t < e[2] => Holds(t) = PairsOver(e)
<1> DEFINE B == Boundaries
           top == Max(B \cup {0})
<1>1. /\ B \subseteq Times /\ IsFiniteSet(B) /\ \A t \in B : t <= top
      /\ \A t \in B \ {top} :
            After(t) \in B /\ t < After(t) /\ \A u \in B : u <= t \/ After(t) <= u
    BY BoundariesAre
<1>b. \A r \in relation : r.span[1] \in B /\ r.span[2] \in B
    BY BoundariesAre
<1>t. \A t \in Times : t \in Int
    BY RowsAre
<1> HIDE DEF B, top
<1>2. Elementary = {<<t, After(t)>> : t \in B \ {top}}
    BY DEF Elementary, B, top
<1>3. ASSUME NEW e \in Elementary
      PROVE  /\ e[1] \in B /\ e[2] \in B /\ e[1] < e[2] /\ e \in Interval
             /\ e = <<e[1], After(e[1])>>
             /\ \A u \in B : u <= e[1] \/ e[2] <= u
    <2>1. PICK t \in B \ {top} : e = <<t, After(t)>>
        BY <1>2
    <2>2. e[1] = t /\ e[2] = After(t)
        BY <2>1
    <2> QED
        BY <1>1, <2>1, <2>2 DEF Interval
<1>4. IsFiniteSet(Elementary)
    <2>1. IsFiniteSet(Times)
        <3>1. 0 \in Int /\ Horizon \in Int /\ Times = 0 .. Horizon
            BY RowsAre
        <3> QED
            BY <3>1, FS_Interval
    <2>2. IsFiniteSet(Times \X Times)
        BY <2>1, FS_Product
    <2>3. Elementary \subseteq Times \X Times
        BY <1>3 DEF Interval
    <2> QED
        BY <2>2, <2>3, FS_Subset
<1>5. ASSUME NEW e \in Elementary, NEW f \in Elementary, Before(e, f)
      PROVE  e[2] <= f[1]
    <2>1. e[1] \in Int /\ f[1] \in Int /\ e[2] \in Int /\ f[2] \in Int
        BY <1>1, <1>3, <1>t
    <2>2. e[1] # f[1]
        <3> SUFFICES ASSUME e[1] = f[1] PROVE FALSE
            OBVIOUS
        <3>1. e[2] = f[2]
            BY <1>3
        <3> QED
            BY <1>5, <2>1, <3>1 DEF Before
    <2>3. f[1] <= e[1] \/ e[2] <= f[1]
        BY <1>3
    <2> QED
        BY <1>5, <2>1, <2>2, <2>3 DEF Before
<1>6. ASSUME NEW t \in Instants, Holds(t) # {}
      PROVE  \E e \in Elementary : e[1] <= t /\ t < e[2]
    <2>1. PICK r \in relation : r.span[1] <= t /\ t < r.span[2]
        BY <1>6 DEF Holds
    <2> DEFINE L == {u \in B : u <= t}
    <2>2. t \in Int /\ r.span[1] \in L /\ L \subseteq Int /\ \A x \in L : x <= t
        BY <1>1, <1>b, <1>t, <2>1, RowsAre
    <2>3. Max(L) \in L /\ \A x \in L : x <= Max(L)
        <3> HIDE DEF L
        <3> QED
            BY <2>2, GreatestNumber
    <2> DEFINE b == Max(L)
    <2> HIDE DEF b
    <2>4. b \in B /\ b <= t /\ \A x \in B : x <= t => x <= b
        BY <2>3 DEF b
    <2>5. b # top
        BY <1>1, <1>b, <1>t, <2>1, <2>2, <2>4
    <2>6. After(b) \in B /\ b < After(b)
        BY <1>1, <2>4, <2>5
    <2>7. t < After(b)
        BY <1>1, <1>t, <2>2, <2>4, <2>6
    <2>8. <<b, After(b)>> \in Elementary
        BY <1>2, <2>4, <2>5
    <2> QED
        BY <2>4, <2>7, <2>8
<1>7. ASSUME NEW e \in Elementary, NEW t \in Instants, e[1] <= t, t < e[2]
      PROVE  Holds(t) = PairsOver(e)
    <2>1. ASSUME NEW r \in relation
          PROVE  r.span[1] <= t /\ t < r.span[2] <=> r.span[1] <= e[1] /\ e[2] <= r.span[2]
        <3>1. /\ r.span[1] \in Int /\ r.span[2] \in Int /\ e[1] \in Int /\ e[2] \in Int /\ t \in Int
              /\ r.span[1] \in B /\ r.span[2] \in B
            BY <1>1, <1>3, <1>b, <1>t, RowsAre
        <3>2. (r.span[1] <= e[1] \/ e[2] <= r.span[1]) /\ (r.span[2] <= e[1] \/ e[2] <= r.span[2])
            BY <1>3, <3>1
        <3> QED
            BY <1>7, <3>1, <3>2
    <2>2. {x \in relation : x.span[1] <= t /\ t < x.span[2]}
             = {x \in relation : x.span[1] <= e[1] /\ e[2] <= x.span[2]}
        BY <2>1
    <2> QED
        BY <2>2 DEF Holds, PairsOver
<1> QED
    BY <1>3, <1>4, <1>5, <1>6, <1>7 DEF B

-----------------------------------------------------------------------------
(* The segments. *)

Segment == [start : Times, end : Times, pairs : SUBSET Pairs]

\* Segments in order of time, in each of which something is associated and nothing
\* changes; two that touch differ.
Chained(s) ==
    /\ s \in Seq(Segment)
    /\ \A n \in 1 .. Len(s) :
          /\ s[n].start < s[n].end /\ s[n].pairs # {}
          /\ \A t \in Instants : s[n].start <= t /\ t < s[n].end => Holds(t) = s[n].pairs
    /\ \A n, m \in 1 .. Len(s) : n < m => s[n].end <= s[m].start
    /\ \A n \in 1 .. Len(s) - 1 : s[n].end = s[n + 1].start => s[n].pairs # s[n + 1].pairs

InSegment(s, t) == \E n \in 1 .. Len(s) : s[n].start <= t /\ t < s[n].end

\* An elementary interval that comes after some segments joins them.
LEMMA AddSegmentIs ==
    ASSUME RelationInv, NEW s \in Seq(Segment), NEW i \in Interval
    PROVE  /\ PairsOver(i) \in SUBSET Pairs
           /\ PairsOver(i) = {} => AddSegment(s, i) = s
           /\ PairsOver(i) # {} /\ s # <<>> /\ s[Len(s)].end = i[1] /\ s[Len(s)].pairs = PairsOver(i)
                 => AddSegment(s, i) = [s EXCEPT ![Len(s)].end = i[2]]
           /\ PairsOver(i) # {} /\ ~(s # <<>> /\ s[Len(s)].end = i[1] /\ s[Len(s)].pairs = PairsOver(i))
                 => AddSegment(s, i) = Append(s, [start |-> i[1], end |-> i[2], pairs |-> PairsOver(i)])
           /\ AddSegment(s, i) \in Seq(Segment)
<1>1. PairsOver(i) \in SUBSET Pairs
    BY RowsAre DEF PairsOver, Pairs
<1> DEFINE P == PairsOver(i)
           Extends == s # <<>> /\ s[Len(s)].end = i[1] /\ s[Len(s)].pairs = P
<1>2. AddSegment(s, i) = CASE P = {} -> s
                           [] P # {} /\ Extends -> [s EXCEPT ![Len(s)].end = i[2]]
                           [] OTHER -> Append(s, [start |-> i[1], end |-> i[2], pairs |-> P])
    BY DEF AddSegment, Last
<1> HIDE DEF P
<1>3. i[1] \in Times /\ i[2] \in Times
    BY RowsAre
<1>4. Extends => [s EXCEPT ![Len(s)].end = i[2]] \in Seq(Segment)
    <2> SUFFICES ASSUME Extends PROVE [s EXCEPT ![Len(s)].end = i[2]] \in Seq(Segment)
        OBVIOUS
    <2>1. Len(s) \in 1 .. Len(s) /\ s[Len(s)] \in Segment
        OBVIOUS
    <2>2. [s[Len(s)] EXCEPT !.end = i[2]] \in Segment
        BY <1>3, <2>1 DEF Segment
    <2> QED
        BY <2>1, <2>2
<1>5. Append(s, [start |-> i[1], end |-> i[2], pairs |-> P]) \in Seq(Segment)
    <2>1. [start |-> i[1], end |-> i[2], pairs |-> P] \in Segment
        BY <1>1, <1>3 DEF Segment, P
    <2> QED
        BY <2>1
<1> HIDE DEF Extends
<1>6. AddSegment(s, i) \in Seq(Segment)
    BY <1>2, <1>4, <1>5
<1>7. /\ P = {} => AddSegment(s, i) = s
      /\ P # {} /\ Extends => AddSegment(s, i) = [s EXCEPT ![Len(s)].end = i[2]]
      /\ P # {} /\ ~Extends
            => AddSegment(s, i) = Append(s, [start |-> i[1], end |-> i[2], pairs |-> P])
    BY <1>2
<1> QED
    BY <1>1, <1>6, <1>7 DEF P, Extends

\* The segments are added one after the other.
LEMMA SegmentsUnfold ==
    ASSUME RelationInv
    PROVE  \E w : /\ w[0] = <<>>
                  /\ \A n \in 1 .. Cardinality(Elementary) :
                        w[n - 1] \in Seq(Segment) /\ w[n] = AddSegment(w[n - 1], InOrder(Elementary)[n])
                  /\ w[Cardinality(Elementary)] \in Seq(Segment) /\ Segments = w[Cardinality(Elementary)]
<1> DEFINE N == Cardinality(Elementary)
           q == InOrder(Elementary)
           T == Seq(Segment)
           Step(y, x) == AddSegment(y, x)
           Body(g) == [s \in SUBSET (1 .. N) |->
                          IF s = {} THEN <<>> ELSE Step(g[s \ {Max(s)}], q[Max(s)])]
           F == [p \in (1 .. N) \X T |-> Step(p[2], q[p[1]])]
<1>1. N \in Nat /\ DOMAIN q = 1 .. N /\ <<>> \in T
    BY ElementaryAre, InOrderLists
<1>2. F \in [(1 .. N) \X T -> T]
    <2>1. \A i \in 1 .. N : \A y \in T : Step(y, q[i]) \in T
        <3>1. \A i \in 1 .. N : q[i] \in Interval
            BY ElementaryAre, InOrderLists
        <3> HIDE DEF q, N
        <3> QED
            BY <3>1, AddSegmentIs
    <2> HIDE DEF Step, T, q, N
    <2> QED
        BY <2>1
<1>3. PICK h \in [SUBSET (1 .. N) -> T] :
         \A s \in SUBSET (1 .. N) : h[s] = IF s = {} THEN <<>> ELSE F[<<Max(s), h[s \ {Max(s)}]>>]
    <2> HIDE DEF F, T, N
    <2>1. FoldsOver(T, <<>>, N, F) # {}
        BY <1>1, <1>2, FoldExists
    <2> QED
        BY <2>1 DEF FoldsOver
<1> HIDE DEF Step, q
<1>4. ASSUME NEW s \in SUBSET (1 .. N), s # {}
      PROVE  F[<<Max(s), h[s \ {Max(s)}]>>] = Step(h[s \ {Max(s)}], q[Max(s)])
    <2>1. Max(s) \in s
        <3>1. s \subseteq Int /\ N \in Int /\ \A x \in s : x <= N
            BY <1>1
        <3> HIDE DEF N
        <3> QED
            BY <1>4, <3>1, GreatestNumber
    <2>2. s \ {Max(s)} \in SUBSET (1 .. N) /\ Max(s) \in 1 .. N
        BY <2>1
    <2>3. h[s \ {Max(s)}] \in T
        BY <1>3, <2>2
    <2> HIDE DEF T, N
    <2> QED
        BY <2>2, <2>3
<1>5. h = Body(h)
    <2>1. \A s \in SUBSET (1 .. N) :
             h[s] = IF s = {} THEN <<>> ELSE Step(h[s \ {Max(s)}], q[Max(s)])
        <3> HIDE DEF F, N
        <3> QED
            BY <1>3, <1>4
    <2>2. h = [s \in SUBSET (1 .. N) |-> h[s]]
        BY <1>3
    <2> QED
        BY <2>1, <2>2
<1> DEFINE g == CHOOSE f : f = Body(f)
<1>6. g = Body(g)
    <2>1. \E f : f = Body(f)
        BY <1>5
    <2> HIDE DEF Body
    <2> QED
        BY <2>1
<1>7. Segments = g[1 .. N]
    BY <1>1 DEF Segments, Elementary, FoldLeft, MapThenFoldSet, Step, q
<1> HIDE DEF g
<1>8. \A s \in SUBSET (1 .. N) : g[s] = IF s = {} THEN <<>> ELSE Step(g[s \ {Max(s)}], q[Max(s)])
    BY <1>6
<1> HIDE DEF N
<1> DEFINE w == [n \in 0 .. N |-> g[1 .. n]]
<1>9. w[0] = <<>>
    <2>1. 1 .. 0 = {} /\ {} \in SUBSET (1 .. N) /\ 0 \in 0 .. N
        BY <1>1
    <2> QED
        BY <1>8, <2>1
<1>10. ASSUME NEW n \in 1 .. N
       PROVE  w[n] = Step(w[n - 1], q[n])
    <2>1. n \in Nat /\ n > 0 /\ n \in 0 .. N /\ n - 1 \in 0 .. N
        BY <1>1
    <2>2. 1 .. n # {} /\ Max(1 .. n) = n /\ (1 .. n) \ {n} = 1 .. n - 1
        BY <2>1, Initial
    <2>3. 1 .. n \in SUBSET (1 .. N)
        BY <1>1
    <2>4. g[1 .. n] = Step(g[1 .. n - 1], q[n])
        BY <1>8, <2>2, <2>3
    <2> QED
        BY <2>1, <2>4
<1>11. w[N] = g[1 .. N]
    BY <1>1
<1> HIDE DEF w
<1>12. \A n \in 0 .. N : w[n] \in T
    <2> DEFINE Good == {n \in Nat : n <= N => w[n] \in T}
    <2> HIDE DEF T
    <2>1. 0 \in Good
        BY <1>1, <1>9
    <2>2. ASSUME NEW n \in Nat, n \in Good
          PROVE  n + 1 \in Good
        <3> SUFFICES ASSUME n + 1 <= N PROVE w[n + 1] \in T
            OBVIOUS
        <3>1. w[n] \in T /\ n + 1 \in 1 .. N /\ (n + 1) - 1 = n
            BY <1>1, <2>2
        <3>2. w[n + 1] = Step(w[n], q[n + 1])
            BY <1>10, <3>1
        <3>3. F[<<n + 1, w[n]>>] \in T /\ F[<<n + 1, w[n]>>] = Step(w[n], q[n + 1])
            <4>1. <<n + 1, w[n]>> \in (1 .. N) \X T
                BY <3>1
            <4> QED
                BY <1>2, <4>1
        <3> QED
            BY <3>2, <3>3
    <2> HIDE DEF Good
    <2>3. Nat \subseteq Good
        BY <2>1, <2>2, NaturalInduction
    <2> QED
        BY <1>1, <2>3 DEF Good
<1>13. \A n \in 1 .. N : n - 1 \in 0 .. N
    BY <1>1
<1>14. N \in 0 .. N
    BY <1>1
<1> QED
    BY <1>7, <1>9, <1>10, <1>11, <1>12, <1>13, <1>14 DEF Step, q, N

\* The fields of segments.
LEMMA SegmentFields ==
    ASSUME RelationInv, NEW s \in Seq(Segment)
    PROVE  /\ Len(s) \in Nat
           /\ \A n \in 1 .. Len(s) :
                 /\ s[n] \in Segment /\ s[n].pairs \in SUBSET Pairs
                 /\ s[n].start \in Times /\ s[n].start \in Int
                 /\ s[n].end \in Times /\ s[n].end \in Int
<1>1. Len(s) \in Nat /\ \A n \in 1 .. Len(s) : s[n] \in Segment
    OBVIOUS
<1>2. \A x \in Segment : x.start \in Times /\ x.end \in Times /\ x.pairs \in SUBSET Pairs
    BY DEF Segment
<1>3. \A t \in Times : t \in Int
    BY RowsAre
<1> QED
    BY <1>1, <1>2, <1>3

\* Whatever joins them, the segments stay a chain and lose no association.
LEMMA AddSegmentKeeps ==
    ASSUME RelationInv, NEW s, Chained(s), NEW i \in Elementary,
           \A n \in 1 .. Len(s) : s[n].end <= i[1]
    PROVE  /\ Chained(AddSegment(s, i))
           /\ \A n \in 1 .. Len(AddSegment(s, i)) : AddSegment(s, i)[n].end <= i[2]
           /\ \A t \in Instants :
                 InSegment(s, t) \/ (i[1] <= t /\ t < i[2] /\ Holds(t) # {})
                    => InSegment(AddSegment(s, i), t)
<1> DEFINE P == PairsOver(i)
           L == Len(s)
           z == AddSegment(s, i)
           Extends == s # <<>> /\ s[L].end = i[1] /\ s[L].pairs = P
           new == [start |-> i[1], end |-> i[2], pairs |-> P]
<1>1. /\ s \in Seq(Segment) /\ L \in Nat
      /\ \A n \in 1 .. L : s[n] \in Segment /\ s[n].start \in Int /\ s[n].end \in Int
    <2>1. s \in Seq(Segment)
        BY DEF Chained
    <2> QED
        BY <2>1, SegmentFields
<1>2. /\ i \in Interval /\ i[1] \in Int /\ i[2] \in Int /\ i[1] < i[2]
      /\ \A t \in Instants : t \in Int /\ (i[1] <= t /\ t < i[2] => Holds(t) = P)
    <2>1. i \in Interval
        BY ElementaryAre
    <2> QED
        BY <2>1, ElementaryAre, RowsAre
<1>3. /\ P = {} => z = s
      /\ P # {} /\ Extends => z = [s EXCEPT ![L].end = i[2]]
      /\ P # {} /\ ~Extends => z = Append(s, new)
      /\ z \in Seq(Segment)
    BY <1>1, <1>2, AddSegmentIs
<1>4. /\ \A n \in 1 .. L :
            /\ s[n].start < s[n].end /\ s[n].pairs # {} /\ s[n].end <= i[1]
            /\ \A t \in Instants : s[n].start <= t /\ t < s[n].end => Holds(t) = s[n].pairs
      /\ \A n, m \in 1 .. L : n < m => s[n].end <= s[m].start
      /\ \A n \in 1 .. L - 1 : s[n].end = s[n + 1].start => s[n].pairs # s[n + 1].pairs
    BY DEF Chained
<1> HIDE DEF P, z
<1>5. CASE P = {}
    <2>1. \A n \in 1 .. Len(z) : z[n].end <= i[2]
        BY <1>1, <1>2, <1>3, <1>4, <1>5
    <2> QED
        BY <1>2, <1>3, <1>5, <2>1 DEF z
<1>6. CASE P # {} /\ Extends
    <2>1. L \in 1 .. L /\ L > 0
        BY <1>1, <1>6
    <2>2. /\ Len(z) = L
          /\ z[L].start = s[L].start /\ z[L].end = i[2] /\ z[L].pairs = P
          /\ \A n \in 1 .. L : n # L => z[n] = s[n]
        <3>1. z = [s EXCEPT ![L].end = i[2]]
            BY <1>3, <1>6
        <3>2. s[L] \in Segment /\ DOMAIN s = 1 .. L
            BY <1>1, <2>1
        <3>3. z[L] = [s[L] EXCEPT !.end = i[2]]
            BY <2>1, <3>1, <3>2
        <3>4. z[L].start = s[L].start /\ z[L].end = i[2] /\ z[L].pairs = s[L].pairs
            BY <3>2, <3>3 DEF Segment
        <3>5. \A n \in 1 .. L : n # L => z[n] = s[n]
            BY <3>1, <3>2
        <3>6. Len(z) = L
            BY <1>1, <3>1
        <3> QED
            BY <1>6, <3>4, <3>5, <3>6
    <2>3. \A n \in 1 .. L : z[n].start = s[n].start /\ z[n].pairs = s[n].pairs
        BY <1>6, <2>2
    <2>4. \A n \in 1 .. L : n # L => z[n].end = s[n].end
        BY <2>2
    <2> HIDE DEF L
    <2>5. ASSUME NEW n \in 1 .. L
          PROVE  /\ z[n].start < z[n].end /\ z[n].pairs # {} /\ z[n].end <= i[2]
                 /\ \A t \in Instants : z[n].start <= t /\ t < z[n].end => Holds(t) = z[n].pairs
        <3>1. CASE n # L
            <4>1. z[n] = s[n] /\ s[n].end <= i[1] /\ s[n].end \in Int
                BY <1>1, <1>4, <2>2, <3>1 DEF L
            <4>2. s[n].end <= i[2]
                BY <1>2, <4>1
            <4> QED
                BY <1>4, <4>1, <4>2
        <3>2. CASE n = L
            <4>1. s[L].start < s[L].end /\ s[L].end = i[1] /\ s[L].pairs = P
                BY <1>4, <1>6, <2>1
            <4>2. s[L].start \in Int /\ s[L].start < i[2]
                BY <1>1, <1>2, <2>1, <4>1
            <4>3. ASSUME NEW t \in Instants, s[L].start <= t, t < i[2]
                  PROVE  Holds(t) = P
                <5>1. CASE t < i[1]
                    BY <1>4, <2>1, <4>1, <4>3, <5>1
                <5>2. CASE i[1] <= t
                    BY <1>2, <4>3, <5>2
                <5>3. t \in Int
                    BY <1>2
                <5> QED
                    BY <1>2, <5>1, <5>2, <5>3
            <4> QED
                BY <1>2, <1>6, <2>2, <3>2, <4>2, <4>3
        <3> QED
            BY <3>1, <3>2
    <2>6. ASSUME NEW n \in 1 .. L, NEW m \in 1 .. L, n < m
          PROVE  z[n].end <= z[m].start
        <3>1. n # L
            BY <1>1, <2>6
        <3> QED
            BY <1>4, <2>3, <2>4, <2>6, <3>1
    <2>7. ASSUME NEW n \in 1 .. L - 1, z[n].end = z[n + 1].start
          PROVE  z[n].pairs # z[n + 1].pairs
        <3>1. n \in 1 .. L /\ n + 1 \in 1 .. L /\ n # L
            BY <1>1
        <3> QED
            BY <1>4, <2>3, <2>4, <2>7, <3>1
    <2>8. ASSUME NEW t \in Instants,
                 InSegment(s, t) \/ (i[1] <= t /\ t < i[2] /\ Holds(t) # {})
          PROVE  InSegment(z, t)
        <3>1. t \in Int
            BY <1>2
        <3>2. ASSUME NEW n \in 1 .. L, s[n].start <= t, t < s[n].end
              PROVE  InSegment(z, t)
            <4>1. z[n].start <= t /\ t < z[n].end
                <5>1. CASE n # L
                    BY <2>3, <2>4, <3>2, <5>1
                <5>2. CASE n = L
                    BY <1>1, <1>2, <1>4, <1>6, <2>1, <2>2, <3>1, <3>2, <5>2
                <5> QED
                    BY <5>1, <5>2
            <4> QED
                BY <2>2, <4>1 DEF InSegment, L
        <3>3. ASSUME i[1] <= t, t < i[2]
              PROVE  InSegment(z, t)
            <4>1. z[L].start <= t /\ t < z[L].end
                BY <1>1, <1>2, <1>4, <1>6, <2>1, <2>2, <3>1, <3>3
            <4> QED
                BY <2>1, <2>2, <4>1 DEF InSegment
        <3> QED
            BY <2>8, <3>2, <3>3 DEF InSegment, L
    <2>9. Chained(z)
        BY <1>3, <2>2, <2>5, <2>6, <2>7 DEF Chained
    <2> QED
        BY <2>2, <2>5, <2>8, <2>9 DEF z
<1>7. CASE P # {} /\ ~Extends
    <2>1. /\ Len(z) = L + 1 /\ z[L + 1] = new
          /\ \A n \in 1 .. L : z[n] = s[n]
        BY <1>1, <1>3, <1>7
    <2>2. new.start = i[1] /\ new.end = i[2] /\ new.pairs = P
        OBVIOUS
    <2>e. L > 0 => ~(s[L].end = i[1] /\ s[L].pairs = P)
        BY <1>1, <1>7
    <2> HIDE DEF new, L, Extends
    <2>3. \A n \in 1 .. L + 1 : n \in 1 .. L \/ n = L + 1
        BY <1>1
    <2>4. ASSUME NEW n \in 1 .. L + 1
          PROVE  /\ z[n].start < z[n].end /\ z[n].pairs # {} /\ z[n].end <= i[2]
                 /\ \A t \in Instants : z[n].start <= t /\ t < z[n].end => Holds(t) = z[n].pairs
        <3>1. CASE n \in 1 .. L
            <4>1. z[n] = s[n] /\ s[n].end <= i[1] /\ s[n].end \in Int
                BY <1>1, <1>4, <2>1, <3>1
            <4>2. s[n].end <= i[2]
                BY <1>2, <4>1
            <4> QED
                BY <1>4, <3>1, <4>1, <4>2
        <3>2. CASE n = L + 1
            BY <1>2, <1>7, <2>1, <2>2, <3>2
        <3> QED
            BY <2>3, <3>1, <3>2
    <2>5. ASSUME NEW n \in 1 .. L + 1, NEW m \in 1 .. L + 1, n < m
          PROVE  z[n].end <= z[m].start
        <3>1. n \in 1 .. L
            BY <1>1, <2>5
        <3>2. CASE m \in 1 .. L
            BY <1>4, <2>1, <2>5, <3>1, <3>2
        <3>3. CASE m = L + 1
            BY <1>4, <2>1, <2>2, <3>1, <3>3
        <3> QED
            BY <2>3, <3>2, <3>3
    <2>6. ASSUME NEW n \in 1 .. (L + 1) - 1, z[n].end = z[n + 1].start
          PROVE  z[n].pairs # z[n + 1].pairs
        <3>1. n \in 1 .. L
            BY <1>1
        <3>2. CASE n < L
            <4>1. n \in 1 .. L - 1 /\ n + 1 \in 1 .. L
                BY <1>1, <3>2
            <4> QED
                BY <1>4, <2>1, <2>6, <3>1, <4>1
        <3>3. CASE n = L
            BY <1>1, <2>1, <2>2, <2>6, <2>e, <3>1, <3>3
        <3> QED
            BY <1>1, <3>1, <3>2, <3>3
    <2>7. ASSUME NEW t \in Instants,
                 InSegment(s, t) \/ (i[1] <= t /\ t < i[2] /\ Holds(t) # {})
          PROVE  InSegment(z, t)
        <3>1. ASSUME NEW n \in 1 .. L, s[n].start <= t, t < s[n].end
              PROVE  InSegment(z, t)
            <4>1. n \in 1 .. Len(z)
                BY <1>1, <2>1
            <4> QED
                BY <2>1, <3>1, <4>1 DEF InSegment
        <3>2. ASSUME i[1] <= t, t < i[2]
              PROVE  InSegment(z, t)
            <4>1. L + 1 \in 1 .. Len(z)
                BY <1>1, <2>1
            <4> QED
                BY <2>1, <2>2, <3>2, <4>1 DEF InSegment
        <3> QED
            BY <2>7, <3>1, <3>2 DEF InSegment, L
    <2>8. Chained(z)
        BY <1>3, <2>1, <2>4, <2>5, <2>6 DEF Chained
    <2> QED
        BY <2>1, <2>4, <2>7, <2>8 DEF z
<1> QED
    BY <1>5, <1>6, <1>7

\* The segments are a chain that leaves out no association.
LEMMA SegmentsAre ==
    ASSUME RelationInv
    PROVE  /\ Chained(Segments)
           /\ \A t \in Instants : Holds(t) # {} => InSegment(Segments, t)
<1> DEFINE N == Cardinality(Elementary)
           q == InOrder(Elementary)
<1>1. /\ N \in Nat /\ \A n \in 1 .. N : q[n] \in Elementary
      /\ \A i \in Elementary : \E n \in 1 .. N : q[n] = i
      /\ \A n, k \in 1 .. N : n < k => q[n][2] <= q[k][1]
    <2>1. /\ N \in Nat /\ \A n \in 1 .. N : q[n] \in Elementary
          /\ \A i \in Elementary : \E n \in 1 .. N : q[n] = i
          /\ \A n, k \in 1 .. N : n < k => Before(q[n], q[k])
        BY ElementaryAre, InOrderLists
    <2> HIDE DEF N, q
    <2> QED
        BY <2>1, ElementaryAre
<1>2. PICK w : /\ w[0] = <<>>
               /\ \A n \in 1 .. N : w[n - 1] \in Seq(Segment) /\ w[n] = AddSegment(w[n - 1], q[n])
               /\ w[N] \in Seq(Segment) /\ Segments = w[N]
    BY SegmentsUnfold
<1> HIDE DEF N, q
<1> DEFINE Sound(n) ==
              /\ Chained(w[n])
              /\ n > 0 => \A m \in 1 .. Len(w[n]) : w[n][m].end <= q[n][2]
              /\ \A t \in Instants : \A k \in 1 .. n :
                    q[k][1] <= t /\ t < q[k][2] /\ Holds(t) # {} => InSegment(w[n], t)
           Good == {n \in Nat : n <= N => Sound(n)}
<1>3. 0 \in Good
    <2>1. Chained(<<>>)
        <3>1. <<>> \in Seq(Segment) /\ Len(<<>>) = 0
            OBVIOUS
        <3> QED
            BY <3>1 DEF Chained
    <2> QED
        BY <1>2, <2>1
<1>4. ASSUME NEW n \in Nat, n \in Good
      PROVE  n + 1 \in Good
    <2> SUFFICES ASSUME n + 1 <= N PROVE Sound(n + 1)
        OBVIOUS
    <2>1. n <= N /\ n + 1 \in 1 .. N /\ (n + 1) - 1 = n
        BY <1>1
    <2>2. Sound(n)
        BY <1>4, <2>1
    <2> HIDE DEF Good
    <2>3. w[n + 1] = AddSegment(w[n], q[n + 1]) /\ q[n + 1] \in Elementary /\ w[n] \in Seq(Segment)
        BY <1>1, <1>2, <2>1
    <2>4. \A m \in 1 .. Len(w[n]) : w[n][m].end <= q[n + 1][1]
        <3>1. CASE n = 0
            <4>1. Len(w[n]) = 0
                BY <1>2, <3>1
            <4> QED
                BY <4>1
        <3>2. CASE n > 0
            <4>1. n \in 1 .. N /\ n < n + 1
                BY <2>1, <3>2
            <4>2. q[n][2] <= q[n + 1][1]
                BY <1>1, <2>1, <4>1
            <4>3. q[n][2] \in Int /\ q[n + 1][1] \in Int
                <5>1. q[n] \in Interval /\ q[n + 1] \in Interval
                    BY <1>1, <2>1, <4>1, ElementaryAre
                <5> QED
                    BY <5>1, RowsAre
            <4>4. \A m \in 1 .. Len(w[n]) : w[n][m].end \in Int
                BY <2>3, SegmentFields
            <4> QED
                BY <2>2, <3>2, <4>2, <4>3, <4>4
        <3> QED
            BY <3>1, <3>2
    <2>5. /\ Chained(w[n + 1])
          /\ \A m \in 1 .. Len(w[n + 1]) : w[n + 1][m].end <= q[n + 1][2]
          /\ \A t \in Instants :
                InSegment(w[n], t) \/ (q[n + 1][1] <= t /\ t < q[n + 1][2] /\ Holds(t) # {})
                    => InSegment(w[n + 1], t)
        BY <2>2, <2>3, <2>4, AddSegmentKeeps
    <2>6. ASSUME NEW t \in Instants, NEW k \in 1 .. n + 1,
                 q[k][1] <= t, t < q[k][2], Holds(t) # {}
          PROVE  InSegment(w[n + 1], t)
        <3>1. k \in 1 .. n \/ k = n + 1
            OBVIOUS
        <3> QED
            BY <2>2, <2>5, <2>6, <3>1
    <2> QED
        BY <2>5, <2>6
<1> HIDE DEF Good
<1>5. Nat \subseteq Good
    BY <1>3, <1>4, NaturalInduction
<1>6. Sound(N)
    BY <1>1, <1>5 DEF Good
<1>7. ASSUME NEW t \in Instants, Holds(t) # {}
      PROVE  InSegment(Segments, t)
    <2>1. PICK e \in Elementary : e[1] <= t /\ t < e[2]
        BY <1>7, ElementaryAre
    <2>2. PICK k \in 1 .. N : q[k] = e
        BY <1>1
    <2> QED
        BY <1>2, <1>6, <1>7, <2>1, <2>2
<1> QED
    BY <1>2, <1>6, <1>7

\* Where the segments lie on the timeline.
LEMMA SegmentChain ==
    ASSUME RelationInv
    PROVE  /\ Len(Segments) \in Nat
           /\ \A n \in 1 .. Len(Segments) :
                 /\ Segments[n].pairs \in SUBSET Pairs /\ Segments[n].pairs # {}
                 /\ Segments[n].start \in Instants /\ Segments[n].end \in Times
                 /\ Segments[n].start < Segments[n].end
                 /\ \A t \in Instants : Segments[n].start <= t /\ t < Segments[n].end
                       => Holds(t) = Segments[n].pairs
           /\ \A n, m \in 1 .. Len(Segments) : n < m => Segments[n].end <= Segments[m].start
           /\ \A n \in 1 .. Len(Segments) - 1 :
                 Segments[n].end = Segments[n + 1].start => Segments[n].pairs # Segments[n + 1].pairs
           /\ \A t \in Instants : Holds(t) # {}
                 => \E n \in 1 .. Len(Segments) : Segments[n].start <= t /\ t < Segments[n].end
<1>1. Chained(Segments) /\ \A t \in Instants : Holds(t) # {} => InSegment(Segments, t)
    BY SegmentsAre
<1>2. Segments \in Seq(Segment)
    BY <1>1 DEF Chained
<1> DEFINE s == Segments
<1>3. Len(s) \in Nat /\ \A n \in 1 .. Len(s) : s[n].pairs \in SUBSET Pairs /\ s[n].start \in Times /\ s[n].end \in Times
    BY <1>2, SegmentFields
<1>4. /\ \A n \in 1 .. Len(s) :
            /\ s[n].start < s[n].end /\ s[n].pairs # {}
            /\ \A t \in Instants : s[n].start <= t /\ t < s[n].end => Holds(t) = s[n].pairs
      /\ \A n, m \in 1 .. Len(s) : n < m => s[n].end <= s[m].start
      /\ \A n \in 1 .. Len(s) - 1 : s[n].end = s[n + 1].start => s[n].pairs # s[n + 1].pairs
    BY <1>1 DEF Chained
<1>5. \A t \in Instants : Holds(t) # {} => \E n \in 1 .. Len(s) : s[n].start <= t /\ t < s[n].end
    BY <1>1 DEF InSegment
<1> HIDE DEF s
<1>6. \A a, b \in Times : a < b => a \in Instants
    BY RowsAre
<1> QED
    BY <1>3, <1>4, <1>5, <1>6 DEF s

\* What is associated when a segment ends is the next segment.
LEMMA NextSegment ==
    ASSUME RelationInv, NEW n \in 1 .. Len(Segments),
           Segments[n].end \in Instants, Holds(Segments[n].end) # {}
    PROVE  /\ n \in Touching(Segments) /\ n + 1 \in 1 .. Len(Segments)
           /\ Segments[n + 1].start = Segments[n].end
           /\ Holds(Segments[n].end) # Segments[n].pairs
<1> DEFINE s == Segments
           t == s[n].end
<1>1. PICK m \in 1 .. Len(s) : s[m].start <= t /\ t < s[m].end
    BY SegmentChain
<1>2. /\ Len(s) \in Nat
      /\ \A k \in 1 .. Len(s) : s[k].start \in Int /\ s[k].end \in Int /\ s[k].start < s[k].end
      /\ \A k, l \in 1 .. Len(s) : k < l => s[k].end <= s[l].start
    BY SegmentChain, RowsAre
<1>3. \A k \in 1 .. Len(s) - 1 : s[k].end = s[k + 1].start => s[k].pairs # s[k + 1].pairs
    BY SegmentChain
<1>4. Holds(t) = s[m].pairs
    BY <1>1, SegmentChain
<1> HIDE DEF s
<1>5. m > n
    <2>1. m # n
        BY <1>1, <1>2 DEF s
    <2>2. ~(m < n)
        <3> SUFFICES ASSUME m < n PROVE FALSE
            OBVIOUS
        <3>1. s[m].end <= s[n].start /\ n \in 1 .. Len(s)
            BY <1>2 DEF s
        <3> QED
            BY <1>1, <1>2, <3>1
    <2> QED
        BY <1>2, <2>1, <2>2 DEF s
<1>6. n + 1 \in 1 .. Len(s) /\ n \in 1 .. Len(s) - 1 /\ n \in 1 .. Len(s)
    BY <1>2, <1>5 DEF s
<1>7. m = n + 1
    <2> SUFFICES ASSUME n + 1 < m PROVE FALSE
        BY <1>5, <1>6
    <2>1. s[n + 1].end <= s[m].start /\ t <= s[n + 1].start /\ s[n + 1].start < s[n + 1].end
        BY <1>2, <1>6
    <2> QED
        BY <1>1, <1>2, <1>6, <2>1
<1>8. s[n + 1].start = t
    <2>1. t <= s[n + 1].start
        BY <1>2, <1>6
    <2> QED
        BY <1>1, <1>2, <1>6, <1>7, <2>1
<1> QED
    BY <1>3, <1>4, <1>6, <1>7, <1>8 DEF Touching, s

\* The relation changes from one association to another where two segments touch.
LEMMA ChangesAre ==
    ASSUME RelationInv
    PROVE  /\ \A n \in Touching(Segments) :
                 /\ n \in 1 .. Len(Segments) /\ n + 1 \in 1 .. Len(Segments)
                 /\ Segments[n].end = Segments[n + 1].start
                 /\ Segments[n].end \in Instants \ {0}
                 /\ Holds(Segments[n].end) = Segments[n + 1].pairs
                 /\ Holds(Segments[n].end - 1) = Segments[n].pairs
                 /\ Segments[n].pairs # Segments[n + 1].pairs
                 /\ Segments[n].pairs # {} /\ Segments[n + 1].pairs # {}
           /\ \A t \in Instants \ {0} :
                 Holds(t) # Holds(t - 1) /\ Holds(t) # {} /\ Holds(t - 1) # {}
                    => \E n \in Touching(Segments) : Segments[n].end = t
<1> DEFINE s == Segments
<1>1. /\ Len(s) \in Nat
      /\ \A k \in 1 .. Len(s) : s[k].start \in Int /\ s[k].end \in Int /\ s[k].start < s[k].end
      /\ \A k \in 1 .. Len(s) : s[k].start \in 0 .. Horizon - 1 /\ s[k].end \in 0 .. Horizon
      /\ Instants = 0 .. Horizon - 1 /\ Horizon \in Nat
    BY SegmentChain, RowsAre
<1>2. ASSUME NEW n \in Touching(s)
      PROVE  /\ n \in 1 .. Len(s) /\ n + 1 \in 1 .. Len(s) /\ s[n].end = s[n + 1].start
             /\ s[n].end \in Instants \ {0}
             /\ Holds(s[n].end) = s[n + 1].pairs /\ Holds(s[n].end - 1) = s[n].pairs
             /\ s[n].pairs # s[n + 1].pairs /\ s[n].pairs # {} /\ s[n + 1].pairs # {}
    <2>1. n \in 1 .. Len(s) - 1 /\ s[n].end = s[n + 1].start
        BY DEF Touching
    <2> HIDE DEF s
    <2>2. n \in 1 .. Len(s) /\ n + 1 \in 1 .. Len(s)
        BY <1>1, <2>1
    <2>3. /\ s[n].end \in Instants \ {0} /\ s[n].end - 1 \in Instants
          /\ s[n].start <= s[n].end - 1 /\ s[n].end - 1 < s[n].end
          /\ s[n + 1].start <= s[n].end /\ s[n].end < s[n + 1].end
        <3>1. /\ s[n].start \in 0 .. Horizon - 1 /\ s[n].end \in Int /\ s[n].start < s[n].end
              /\ s[n + 1].start \in 0 .. Horizon - 1 /\ s[n + 1].start < s[n + 1].end
            BY <1>1, <2>2
        <3> QED
            BY <1>1, <2>1, <3>1
    <2> QED
        BY <2>1, <2>2, <2>3, SegmentChain DEF s
<1>3. ASSUME NEW t \in Instants \ {0}, Holds(t) # Holds(t - 1), Holds(t) # {}, Holds(t - 1) # {}
      PROVE  \E n \in Touching(s) : s[n].end = t
    <2>1. t \in Int /\ t - 1 \in Instants
        BY <1>1
    <2>2. PICK n \in 1 .. Len(s) : s[n].start <= t - 1 /\ t - 1 < s[n].end
        BY <1>3, <2>1, SegmentChain
    <2>3. Holds(t - 1) = s[n].pairs
        BY <2>1, <2>2, SegmentChain
    <2>4. s[n].end = t
        <3> SUFFICES ASSUME s[n].end # t PROVE FALSE
            OBVIOUS
        <3>1. s[n].start <= t /\ t < s[n].end
            <4>1. s[n].start \in Int /\ s[n].end \in Int
                BY <1>1
            <4> HIDE DEF s
            <4> QED
                BY <2>1, <2>2, <4>1
        <3> QED
            BY <1>3, <2>3, <3>1, SegmentChain
    <2> QED
        BY <1>3, <2>4, NextSegment
<1> QED
    BY <1>2, <1>3

\* Where no track has two targets its target is a function of the track.
LEMMA FunctionalTargets ==
    ASSUME NEW x, x.pairs \in SUBSET Pairs, Functional(x)
    PROVE  /\ Tracked(x) = {k \in Tracks : \E g \in Targets : <<k, g>> \in x.pairs}
           /\ \A k \in Tracked(x) : TargetOf(x, k) \in Targets /\ <<k, TargetOf(x, k)>> \in x.pairs
           /\ \A k, g : <<k, g>> \in x.pairs => k \in Tracked(x) /\ g = TargetOf(x, k)
<1> DEFINE P == x.pairs
<1>1. \A p \in P : p = <<p[1], p[2]>> /\ p[1] \in Tracks /\ p[2] \in Targets
    BY DEF Pairs
<1>2. Tracked(x) = {p[1] : p \in P}
    BY DEF Tracked, TRACK
<1> HIDE DEF P
<1>3. \A k, g : <<k, g>> \in P => k \in Tracks /\ g \in Targets
    BY <1>1
<1>4. Tracked(x) = {k \in Tracks : \E g \in Targets : <<k, g>> \in P}
    <2>1. ASSUME NEW k \in Tracked(x)
          PROVE  k \in Tracks /\ \E g \in Targets : <<k, g>> \in P
        <3>1. PICK p \in P : k = p[1]
            BY <1>2
        <3>2. p = <<k, p[2]>> /\ k \in Tracks /\ p[2] \in Targets
            BY <1>1, <3>1
        <3> QED
            BY <3>2
    <2>2. ASSUME NEW k \in Tracks, NEW g \in Targets, <<k, g>> \in P
          PROVE  k \in Tracked(x)
        <3>1. <<k, g>>[1] = k
            OBVIOUS
        <3> QED
            BY <1>2, <2>2, <3>1
    <2> QED
        BY <2>1, <2>2
<1>5. ASSUME NEW k \in Tracked(x)
      PROVE  TargetOf(x, k) \in Targets /\ <<k, TargetOf(x, k)>> \in P
    BY <1>4 DEF TargetOf, P
<1>6. ASSUME NEW k, NEW g, <<k, g>> \in P
      PROVE  k \in Tracked(x) /\ g = TargetOf(x, k)
    <2>1. k \in Tracked(x)
        BY <1>3, <1>4, <1>6
    <2> DEFINE h == TargetOf(x, k)
               p == <<k, g>>
               q == <<k, h>>
    <2>2. p \in P /\ q \in P /\ p[1] = k /\ q[1] = k
        BY <1>5, <1>6, <2>1
    <2>3. Multiple(P, TRACK) = {}
        BY DEF Functional, P
    <2>4. \A a, b \in P : b # a => b[1] # a[1]
        BY <2>3 DEF Multiple, TRACK
    <2>5. p = q
        <3> HIDE DEF p, q
        <3> QED
            BY <2>2, <2>4
    <2> QED
        BY <2>1, <2>5
<1> QED
    BY <1>4, <1>5, <1>6 DEF P

\* The swap metric, told by instants.  Where one association gives way to
\* another, who changes its target, and whether two tracks exchange theirs.
ChangeTimes ==
    {t \in Instants \ {0} : Timeline[t] # Timeline[t - 1] /\ Timeline[t] # {} /\ Timeline[t - 1] # {}}

TurnedAt(t) ==
    {k \in Tracks : \E g, h \in Targets : g # h /\ <<k, g>> \in Timeline[t - 1] /\ <<k, h>> \in Timeline[t]}

CrossedAt(t) ==
    /\ Cardinality(TurnedAt(t)) = 2
    /\ \A k, l \in TurnedAt(t) : k # l =>
          \E g \in Targets : <<k, g>> \in Timeline[t - 1] /\ <<l, g>> \in Timeline[t]

SteadyOver(i) == \A t \in i[1] .. i[2] - 1 : Timeline[t] = Timeline[i[1]]

\* An interval counts when it begins with an exchange and the relation stays as
\* it is from there to its end, no longer, and at least for the threshold.
CountedOver(j) ==
    /\ j[1] \in ChangeTimes /\ CrossedAt(j[1])
    /\ SteadyOver(j) /\ (j[2] \in Instants => Timeline[j[2]] # Timeline[j[1]])
    /\ j[1] + Persistence <= j[2]

SwapOver(i) == [start |-> i[1], end |-> i[2], tracks |-> TurnedAt(i[1])]

\* The swaps are those of the timeline, computed segment by segment.
LEMMA SwapsAre ==
    ASSUME RelationInv
    PROVE  /\ SwapsRefused <=> \E t \in ChangeTimes : Multiple(Timeline[t], TRACK) # {}
                                                       \/ Multiple(Timeline[t - 1], TRACK) # {}
           /\ ~SwapsRefused => Swaps = {SwapOver(i) : i \in {j \in Interval : CountedOver(j)}}
<1> DEFINE timeline == Timeline
           Turned(t) == {k \in Tracks : \E g, h \in Targets :
                            g # h /\ <<k, g>> \in timeline[t - 1] /\ <<k, h>> \in timeline[t]}
           Steady(i) == \A t \in i[1] .. i[2] - 1 : timeline[t] = timeline[i[1]]
           Crossed(t) ==
               /\ Cardinality(Turned(t)) = 2
               /\ \A k, l \in Turned(t) : k # l =>
                     \E g \in Targets : <<k, g>> \in timeline[t - 1] /\ <<l, g>> \in timeline[t]
           changes == {t \in Instants \ {0} : timeline[t] # timeline[t - 1]
                                              /\ timeline[t] # {} /\ timeline[t - 1] # {}}
           s == Segments
           Shown(j) == /\ j[1] \in changes /\ Crossed(j[1])
                       /\ Steady(j) /\ (j[2] \in Instants => timeline[j[2]] # timeline[j[1]])
                       /\ j[1] + Persistence <= j[2]
           At(n) == [start |-> s[n + 1].start, end |-> s[n + 1].end, tracks |-> Changed(s[n], s[n + 1])]
           Counted(m) == Exchanged(s[m], s[m + 1]) /\ s[m + 1].start + Persistence <= s[m + 1].end
<1>1. /\ \A t \in Instants : timeline[t] = Holds(t)
      /\ \A t \in Instants \ {0} : t - 1 \in Instants /\ timeline[t - 1] = Holds(t - 1)
    <2>1. \A t \in Instants : timeline[t] = Holds(t)
        BY DEF Timeline
    <2>2. \A t \in Instants \ {0} : t - 1 \in Instants
        BY RowsAre
    <2> QED
        BY <2>1, <2>2
<1> HIDE DEF timeline
<1>2. /\ \A n \in Touching(s) :
            /\ n \in 1 .. Len(s) /\ n + 1 \in 1 .. Len(s) /\ s[n].end = s[n + 1].start
            /\ s[n].end \in Instants \ {0} /\ s[n].end \in changes
            /\ timeline[s[n].end] = s[n + 1].pairs /\ timeline[s[n].end - 1] = s[n].pairs
      /\ \A t \in changes : \E n \in Touching(s) : s[n].end = t
    <2>1. ASSUME NEW n \in Touching(s)
          PROVE  /\ n \in 1 .. Len(s) /\ n + 1 \in 1 .. Len(s) /\ s[n].end = s[n + 1].start
                 /\ s[n].end \in Instants \ {0} /\ s[n].end \in changes
                 /\ timeline[s[n].end] = s[n + 1].pairs /\ timeline[s[n].end - 1] = s[n].pairs
        <3>1. /\ n \in 1 .. Len(s) /\ n + 1 \in 1 .. Len(s) /\ s[n].end = s[n + 1].start
              /\ s[n].end \in Instants \ {0}
              /\ Holds(s[n].end) = s[n + 1].pairs /\ Holds(s[n].end - 1) = s[n].pairs
              /\ s[n].pairs # s[n + 1].pairs /\ s[n].pairs # {} /\ s[n + 1].pairs # {}
            BY ChangesAre
        <3> HIDE DEF s
        <3> QED
            BY <1>1, <3>1
    <2>2. ASSUME NEW t \in changes
          PROVE  \E n \in Touching(s) : s[n].end = t
        <3>1. /\ t \in Instants \ {0} /\ Holds(t) # Holds(t - 1) /\ Holds(t) # {}
              /\ Holds(t - 1) # {}
            BY <1>1
        <3> QED
            BY <3>1, ChangesAre
    <2> QED
        BY <2>1, <2>2
<1>3. SwapsRefused <=> \E t \in changes : Multiple(timeline[t], TRACK) # {}
                                           \/ Multiple(timeline[t - 1], TRACK) # {}
    <2>1. SwapsRefused <=> \E n \in Touching(s) : ~Functional(s[n]) \/ ~Functional(s[n + 1])
        BY DEF SwapsRefused
    <2>2. \A n \in Touching(s) :
             /\ Functional(s[n]) <=> Multiple(timeline[s[n].end - 1], TRACK) = {}
             /\ Functional(s[n + 1]) <=> Multiple(timeline[s[n].end], TRACK) = {}
        BY <1>2 DEF Functional
    <2> HIDE DEF s, changes
    <2> QED
        BY <1>2, <2>1, <2>2
<1>4. ASSUME ~SwapsRefused, NEW n \in Touching(s)
      PROVE  /\ Changed(s[n], s[n + 1]) = Turned(s[n].end)
             /\ Exchanged(s[n], s[n + 1]) <=> Crossed(s[n].end)
    <2> DEFINE a == s[n]
               b == s[n + 1]
               t == s[n].end
               C == Changed(a, b)
    <2>1. Functional(a) /\ Functional(b)
        BY <1>4 DEF SwapsRefused
    <2>2. a.pairs \in SUBSET Pairs /\ b.pairs \in SUBSET Pairs
        BY <1>2, SegmentChain
    <2>3. timeline[t] = b.pairs /\ timeline[t - 1] = a.pairs
        BY <1>2
    <2> HIDE DEF a, b, t
    <2>4. /\ Tracked(a) = {k \in Tracks : \E g \in Targets : <<k, g>> \in a.pairs}
          /\ \A k \in Tracked(a) : TargetOf(a, k) \in Targets /\ <<k, TargetOf(a, k)>> \in a.pairs
          /\ \A k, g : <<k, g>> \in a.pairs => k \in Tracked(a) /\ g = TargetOf(a, k)
        BY <2>1, <2>2, FunctionalTargets
    <2>5. /\ Tracked(b) = {k \in Tracks : \E g \in Targets : <<k, g>> \in b.pairs}
          /\ \A k \in Tracked(b) : TargetOf(b, k) \in Targets /\ <<k, TargetOf(b, k)>> \in b.pairs
          /\ \A k, g : <<k, g>> \in b.pairs => k \in Tracked(b) /\ g = TargetOf(b, k)
        BY <2>1, <2>2, FunctionalTargets
    <2>6. C = {k \in Tracked(a) \cap Tracked(b) : TargetOf(a, k) # TargetOf(b, k)}
        BY DEF Changed
    <2> HIDE DEF C
    <2>7. ASSUME NEW k
          PROVE  k \in C <=> k \in Turned(t)
        <3>1. k \in Turned(t) <=> k \in Tracks /\ \E g, h \in Targets :
                                     g # h /\ <<k, g>> \in a.pairs /\ <<k, h>> \in b.pairs
            BY <2>3
        <3> HIDE DEF Turned
        <3>2. ASSUME k \in C
              PROVE  k \in Turned(t)
            <4>1. /\ k \in Tracks /\ TargetOf(a, k) # TargetOf(b, k)
                  /\ TargetOf(a, k) \in Targets /\ <<k, TargetOf(a, k)>> \in a.pairs
                  /\ TargetOf(b, k) \in Targets /\ <<k, TargetOf(b, k)>> \in b.pairs
                BY <2>4, <2>5, <2>6, <3>2
            <4> QED
                BY <3>1, <4>1
        <3>3. ASSUME k \in Turned(t)
              PROVE  k \in C
            <4>1. PICK g, h \in Targets : g # h /\ <<k, g>> \in a.pairs /\ <<k, h>> \in b.pairs
                BY <3>1, <3>3
            <4>2. k \in Tracked(a) /\ g = TargetOf(a, k) /\ k \in Tracked(b) /\ h = TargetOf(b, k)
                BY <2>4, <2>5, <4>1
            <4> QED
                BY <2>6, <4>1, <4>2
        <3> QED
            BY <3>2, <3>3
    <2>8. C = Turned(t)
        <3> HIDE DEF Turned
        <3> QED
            BY <2>7
    <2>9. ASSUME NEW k \in C, NEW l \in C
          PROVE  TargetOf(a, k) = TargetOf(b, l)
                   <=> \E g \in Targets : <<k, g>> \in timeline[t - 1] /\ <<l, g>> \in timeline[t]
        <3>1. k \in Tracked(a) /\ l \in Tracked(b)
            BY <2>6
        <3>2. /\ TargetOf(a, k) \in Targets /\ <<k, TargetOf(a, k)>> \in a.pairs
              /\ TargetOf(b, l) \in Targets /\ <<l, TargetOf(b, l)>> \in b.pairs
            BY <2>4, <2>5, <3>1
        <3>3. \A g : <<k, g>> \in a.pairs /\ <<l, g>> \in b.pairs => g = TargetOf(a, k) /\ g = TargetOf(b, l)
            BY <2>4, <2>5
        <3> QED
            BY <2>3, <3>2, <3>3
    <2>10. Exchanged(a, b) <=> Cardinality(C) = 2 /\ \A k, l \in C :
                                  k # l => TargetOf(a, k) = TargetOf(b, l)
        BY DEF Exchanged, C
    <2>11. Exchanged(a, b) <=> Crossed(t)
        <3> DEFINE Same(k, l) == TargetOf(a, k) = TargetOf(b, l)
                   Meets(k, l) == \E g \in Targets : <<k, g>> \in timeline[t - 1] /\ <<l, g>> \in timeline[t]
        <3>1. \A k, l \in C : Same(k, l) <=> Meets(k, l)
            BY <2>9
        <3>2. Exchanged(a, b) <=> Cardinality(C) = 2 /\ \A k, l \in C : k # l => Same(k, l)
            BY <2>10
        <3>3. Crossed(t) <=> Cardinality(C) = 2 /\ \A k, l \in C : k # l => Meets(k, l)
            BY <2>8
        <3> HIDE DEF Turned, Crossed, Same, Meets
        <3> QED
            BY <3>1, <3>2, <3>3
    <2> QED
        BY <2>8, <2>11 DEF a, b, t, C
<1>5. ASSUME NEW n \in Touching(s), NEW i \in Interval, i[1] = s[n].end
      PROVE  (Steady(i) /\ (i[2] \in Instants => timeline[i[2]] # timeline[i[1]]))
                <=> i[2] = s[n + 1].end
    <2> DEFINE e == s[n + 1].end
               P == s[n + 1].pairs
    <2>1. /\ i[1] \in Instants /\ i[1] = s[n + 1].start /\ i[1] \in Int /\ i[2] \in Int /\ i[1] < i[2]
          /\ i[2] <= Horizon /\ e \in Times /\ e \in Int /\ i[1] < e /\ P # {}
          /\ timeline[i[1]] = P /\ \A t \in i[1] .. i[2] - 1 : t \in Instants
        <3>1. /\ n + 1 \in 1 .. Len(s) /\ s[n].end = s[n + 1].start /\ s[n].end \in Instants
              /\ timeline[s[n].end] = P
            BY <1>2
        <3>2. s[n + 1].start < e /\ e \in Times /\ P # {}
            BY <3>1, SegmentChain
        <3>3. i[1] \in Times /\ i[2] \in Times /\ i[1] < i[2]
            BY RowsAre
        <3>4. /\ Times = 0 .. Horizon /\ Instants = 0 .. Horizon - 1 /\ Horizon \in Nat
            BY RowsAre
        <3> HIDE DEF s, e, P
        <3> QED
            BY <1>5, <3>1, <3>2, <3>3, <3>4
    <2>2. \A t \in Instants : i[1] <= t /\ t < e => timeline[t] = P
        <3>1. n + 1 \in 1 .. Len(s)
            BY <1>2
        <3> QED
            BY <1>1, <2>1, <3>1, SegmentChain
    <2>3. e \in Instants => timeline[e] # P
        <3> SUFFICES ASSUME e \in Instants, timeline[e] = P PROVE FALSE
            OBVIOUS
        <3>1. n + 1 \in 1 .. Len(s) /\ Holds(e) = P
            BY <1>1, <1>2
        <3>2. Holds(s[n + 1].end) # s[n + 1].pairs
            BY <2>1, <3>1, NextSegment
        <3> QED
            BY <3>1, <3>2
    <2> HIDE DEF e, P, s
    <2>4. ASSUME i[2] = e
          PROVE  Steady(i) /\ (i[2] \in Instants => timeline[i[2]] # timeline[i[1]])
        <3>1. ASSUME NEW t \in i[1] .. i[2] - 1
              PROVE  timeline[t] = timeline[i[1]]
            <4>1. t \in Instants /\ i[1] <= t /\ t < e
                BY <2>1, <2>4
            <4> QED
                BY <2>1, <2>2, <4>1
        <3> QED
            BY <2>1, <2>3, <2>4, <3>1
    <2>5. ASSUME Steady(i), i[2] \in Instants => timeline[i[2]] # timeline[i[1]]
          PROVE  i[2] = e
        <3>1. ~(i[2] < e)
            <4> SUFFICES ASSUME i[2] < e PROVE FALSE
                OBVIOUS
            <4>1. i[2] \in Instants
                BY <2>1, RowsAre
            <4>2. timeline[i[2]] = P
                BY <2>1, <2>2, <4>1
            <4> QED
                BY <2>1, <2>5, <4>1, <4>2
        <3>2. ~(e < i[2])
            <4> SUFFICES ASSUME e < i[2] PROVE FALSE
                OBVIOUS
            <4>1. e \in i[1] .. i[2] - 1
                BY <2>1
            <4>2. e \in Instants /\ timeline[e] = P
                BY <2>1, <2>5, <4>1
            <4> QED
                BY <2>3, <4>2
        <3> QED
            BY <2>1, <3>1, <3>2
    <2> QED
        BY <2>4, <2>5 DEF e
<1>6. Swaps = {At(n) : n \in {m \in Touching(s) : Counted(m)}}
    BY DEF Swaps
<1> DEFINE Reference == {[start |-> i[1], end |-> i[2], tracks |-> Turned(i[1])] : i \in {j \in Interval : Shown(j)}}
<1> HIDE DEF Steady, Crossed, Turned, changes, s
<1>7. ASSUME ~SwapsRefused
      PROVE  Swaps = Reference
    <2>1. ASSUME NEW n \in Touching(s), Counted(n)
          PROVE  At(n) \in Reference
        <3> DEFINE i == <<s[n + 1].start, s[n + 1].end>>
        <3>1. /\ n + 1 \in 1 .. Len(s) /\ s[n].end = s[n + 1].start /\ s[n].end \in changes
            BY <1>2
        <3>2. i \in Interval /\ i[1] = s[n].end /\ i[2] = s[n + 1].end
            <4>1. s[n + 1].start \in Instants /\ s[n + 1].end \in Times /\ s[n + 1].start < s[n + 1].end
                BY <3>1, SegmentChain DEF s
            <4>2. Instants \subseteq Times
                BY RowsAre
            <4> HIDE DEF s
            <4> QED
                BY <3>1, <4>1, <4>2 DEF Interval
        <3> HIDE DEF i
        <3>3. Shown(i)
            <4>1. Steady(i) /\ (i[2] \in Instants => timeline[i[2]] # timeline[i[1]])
                BY <1>5, <3>2
            <4>2. Crossed(i[1])
                BY <1>4, <1>7, <2>1, <3>2
            <4> QED
                BY <2>1, <3>1, <3>2, <4>1, <4>2
        <3>4. At(n) = [start |-> i[1], end |-> i[2], tracks |-> Turned(i[1])]
            BY <1>4, <1>7, <3>1, <3>2
        <3> HIDE DEF Shown
        <3> QED
            BY <3>2, <3>3, <3>4
    <2>2. ASSUME NEW i \in Interval, Shown(i)
          PROVE  [start |-> i[1], end |-> i[2], tracks |-> Turned(i[1])] \in Swaps
        <3>1. PICK n \in Touching(s) : s[n].end = i[1]
            BY <1>2, <2>2
        <3>2. i[2] = s[n + 1].end /\ i[1] = s[n + 1].start
            BY <1>2, <1>5, <2>2, <3>1
        <3>3. Counted(n)
            BY <1>4, <1>7, <2>2, <3>1, <3>2
        <3>4. At(n) = [start |-> i[1], end |-> i[2], tracks |-> Turned(i[1])]
            BY <1>4, <1>7, <3>1, <3>2
        <3> HIDE DEF Counted
        <3>5. At(n) \in Swaps
            BY <1>6, <3>3
        <3> QED
            BY <3>4, <3>5
    <2> HIDE DEF At, Counted, Shown
    <2>3. Swaps \subseteq Reference
        BY <1>6, <2>1
    <2>4. Reference \subseteq Swaps
        BY <2>2
    <2> QED
        BY <2>3, <2>4
<1>8. /\ changes = ChangeTimes /\ timeline = Timeline
      /\ \A j : Shown(j) <=> CountedOver(j)
      /\ \A j : Turned(j[1]) = TurnedAt(j[1])
    BY DEF Steady, Crossed, Turned, changes, timeline, ChangeTimes, CountedOver, CrossedAt, SteadyOver,
           TurnedAt
<1> HIDE DEF Shown
<1>9. Reference = {SwapOver(i) : i \in {j \in Interval : CountedOver(j)}}
    BY <1>8 DEF SwapOver
<1> HIDE DEF Reference
<1> QED
    BY <1>3, <1>7, <1>8, <1>9

\* A set of two has two members, and no third.
LEMMA OfTwoMembers ==
    ASSUME NEW S, IsFiniteSet(S), Cardinality(S) = 2
    PROVE  \E k, l \in S : k # l /\ S = {k, l}
<1>1. S # {}
    BY FS_EmptySet
<1>2. PICK k \in S : TRUE
    BY <1>1
<1>3. IsFiniteSet(S \ {k}) /\ Cardinality(S \ {k}) = 1
    BY <1>2, FS_RemoveElement
<1>4. PICK l \in S \ {k} : TRUE
    BY <1>3, FS_EmptySet
<1>5. IsFiniteSet((S \ {k}) \ {l}) /\ Cardinality((S \ {k}) \ {l}) = 0
    BY <1>3, <1>4, FS_RemoveElement
<1>6. (S \ {k}) \ {l} = {}
    BY <1>5, FS_EmptySet
<1> QED
    BY <1>2, <1>4, <1>6

LEMMA SizeOfTwo ==
    ASSUME NEW k, NEW l, k # l
    PROVE  Cardinality({k, l}) = 2
<1>1. IsFiniteSet({k}) /\ Cardinality({k}) = 1
    BY FS_Singleton
<1>2. Cardinality({k} \cup {l}) = Cardinality({k}) + 1
    BY <1>1, FS_AddElement
<1>3. {k} \cup {l} = {k, l}
    OBVIOUS
<1> QED
    BY <1>1, <1>2, <1>3

\* A track that has not several targets has one at most.
LEMMA OneTarget ==
    ASSUME NEW P, Multiple(P, TRACK) = {}, NEW k, NEW g, NEW h, <<k, g>> \in P, <<k, h>> \in P
    PROVE  g = h
<1> DEFINE p == <<k, g>>
           q == <<k, h>>
<1>1. p \in P /\ q \in P /\ p[1] = k /\ q[1] = k
    OBVIOUS
<1>2. \A a, b \in P : b # a => b[1] # a[1]
    BY DEF Multiple, TRACK
<1>3. p = q
    <2> HIDE DEF p, q
    <2> QED
        BY <1>1, <1>2
<1> QED
    BY <1>3

\* What counts is an exchange that lasts.
LEMMA CountedIsTraded ==
    ASSUME RelationInv, ~SwapsRefused, NEW i \in Interval, CountedOver(i)
    PROVE  \E k, l \in Tracks : \E g, h \in Targets :
              /\ k # l /\ TurnedAt(i[1]) = {k, l} /\ g # h
              /\ <<k, g>> \in Timeline[i[1] - 1] /\ <<l, h>> \in Timeline[i[1] - 1]
              /\ \A u \in i[1] .. i[2] - 1 : <<k, h>> \in Timeline[u] /\ <<l, g>> \in Timeline[u]
<1> DEFINE t == i[1]
           old == Timeline[t - 1]
           new == Timeline[t]
           T == TurnedAt(t)
<1>1. t \in ChangeTimes /\ Cardinality(T) = 2
    BY DEF CountedOver, CrossedAt
<1>2. \A k, l \in T : k # l => \E g \in Targets : <<k, g>> \in old /\ <<l, g>> \in new
    BY DEF CountedOver, CrossedAt
<1>3. Multiple(old, TRACK) = {} /\ Multiple(new, TRACK) = {}
    BY <1>1, SwapsAre
<1>4. T \subseteq Tracks /\ IsFiniteSet(T)
    BY MetricConstants, FS_Subset DEF TurnedAt
<1>5. \A k \in T : \E g, h \in Targets : g # h /\ <<k, g>> \in old /\ <<k, h>> \in new
    BY DEF TurnedAt
<1> HIDE DEF T, old, new
<1>6. PICK k, l \in T : k # l /\ T = {k, l}
    BY <1>1, <1>4, OfTwoMembers
<1>7. PICK g, h \in Targets : g # h /\ <<k, g>> \in old /\ <<k, h>> \in new
    BY <1>5
<1>8. PICK a \in Targets : <<k, a>> \in old /\ <<l, a>> \in new
    BY <1>2, <1>6
<1>9. PICK b \in Targets : <<l, b>> \in old /\ <<k, b>> \in new
    BY <1>2, <1>6
<1>10. a = g
    BY <1>3, <1>7, <1>8, OneTarget
<1>11. b = h
    BY <1>3, <1>7, <1>9, OneTarget
<1>12. \A u \in i[1] .. i[2] - 1 : <<k, h>> \in Timeline[u] /\ <<l, g>> \in Timeline[u]
    <2>1. \A u \in i[1] .. i[2] - 1 : Timeline[u] = new
        BY DEF CountedOver, SteadyOver, new
    <2> QED
        BY <1>7, <1>8, <1>10, <2>1
<1>13. k \in Tracks /\ l \in Tracks
    BY <1>4
<1> QED
    BY <1>6, <1>7, <1>9, <1>11, <1>12, <1>13 DEF old, T

\* Two intervals that count and begin together are one.
LEMMA CountedIsOne ==
    ASSUME RelationInv, NEW i \in Interval, CountedOver(i), NEW j \in Interval, CountedOver(j), i[1] = j[1]
    PROVE  i = j
<1>1. /\ i = <<i[1], i[2]>> /\ i[1] \in Nat /\ i[2] \in Nat /\ i[1] < i[2] /\ i[2] <= Horizon
      /\ j = <<j[1], j[2]>> /\ j[1] \in Nat /\ j[2] \in Nat /\ j[1] < j[2] /\ j[2] <= Horizon
      /\ Instants = 0 .. Horizon - 1 /\ Horizon \in Nat
    BY RowsAre
<1>2. /\ \A u \in i[1] .. i[2] - 1 : Timeline[u] = Timeline[i[1]]
      /\ \A u \in j[1] .. j[2] - 1 : Timeline[u] = Timeline[i[1]]
      /\ i[2] \in Instants => Timeline[i[2]] # Timeline[i[1]]
      /\ j[2] \in Instants => Timeline[j[2]] # Timeline[i[1]]
    BY DEF CountedOver, SteadyOver
<1>3. ~(i[2] < j[2])
    <2> SUFFICES ASSUME i[2] < j[2] PROVE FALSE
        OBVIOUS
    <2>1. i[2] \in j[1] .. j[2] - 1 /\ i[2] \in Instants
        BY <1>1
    <2> QED
        BY <1>2, <2>1
<1>4. ~(j[2] < i[2])
    <2> SUFFICES ASSUME j[2] < i[2] PROVE FALSE
        OBVIOUS
    <2>1. j[2] \in i[1] .. i[2] - 1 /\ j[2] \in Instants
        BY <1>1
    <2> QED
        BY <1>2, <2>1
<1>5. i[2] = j[2]
    BY <1>1, <1>3, <1>4
<1> QED
    BY <1>1, <1>5

\* An exchange of two tracks that nothing follows for the threshold counts.
LEMMA TradeIsCounted ==
    ASSUME RelationInv, NEW t \in ChangeTimes, CrossedAt(t),
           \A u \in t .. t + Persistence - 1 : u \in Instants /\ Timeline[u] = Timeline[t]
    PROVE  \E i \in Interval : i[1] = t /\ CountedOver(i)
<1> DEFINE E == {e \in Times : t < e /\ \A u \in t .. e - 1 : Timeline[u] = Timeline[t]}
           d == t + Persistence
           e == Max(E)
<1>1. /\ t \in Nat /\ t \in Times /\ Persistence \in Nat /\ Persistence > 0 /\ Horizon \in Nat
      /\ Times = 0 .. Horizon /\ Instants = 0 .. Horizon - 1
    BY RowsAre DEF ChangeTimes
<1>2. d \in E
    <2>1. d - 1 \in t .. t + Persistence - 1
        BY <1>1
    <2>2. d - 1 \in Instants
        BY <2>1
    <2>3. d \in Times /\ t < d
        BY <1>1, <2>2
    <2>4. \A u \in t .. d - 1 : Timeline[u] = Timeline[t]
        BY <1>1
    <2> HIDE DEF d
    <2> QED
        BY <2>3, <2>4
<1>3. E \subseteq Int /\ \A x \in E : x <= Horizon
    BY <1>1
<1>4. e \in E /\ \A x \in E : x <= e
    <2>1. Horizon \in Int
        BY <1>1
    <2> HIDE DEF E
    <2>2. E # {}
        BY <1>2
    <2> QED
        BY <1>3, <2>1, <2>2, GreatestNumber
<1>5. e \in Int /\ d <= e /\ e \in Times /\ t < e /\ \A u \in t .. e - 1 : Timeline[u] = Timeline[t]
    BY <1>2, <1>3, <1>4
<1>6. e \in Instants => Timeline[e] # Timeline[t]
    <2> SUFFICES ASSUME e \in Instants, Timeline[e] = Timeline[t] PROVE FALSE
        OBVIOUS
    <2> HIDE DEF e
    <2>1. e + 1 \in Times /\ t < e + 1
        BY <1>1, <1>5
    <2>2. \A u \in t .. (e + 1) - 1 : u = e \/ u \in t .. e - 1
        BY <1>1, <1>5
    <2>3. e + 1 \in E
        BY <1>5, <2>1, <2>2
    <2> QED
        BY <1>4, <1>5, <2>3
<1> HIDE DEF e
<1> DEFINE i == <<t, e>>
<1>7. i \in Interval /\ i[1] = t /\ i[2] = e
    BY <1>1, <1>5 DEF Interval
<1> HIDE DEF i
<1>8. CountedOver(i)
    BY <1>5, <1>6, <1>7 DEF CountedOver, SteadyOver
<1> QED
    BY <1>7, <1>8

\* Two tracks have exchanged their targets at an instant and keep them to another.
TradedOver(k, l, t, end) ==
    \E g, h \in Targets :
        /\ g # h /\ {<<k, g>>, <<l, h>>} \subseteq Timeline[t - 1]
        /\ \A u \in t .. end - 1 : {<<k, h>>, <<l, g>>} \subseteq Timeline[u]

StaysFrom(t) == \A u \in t .. t + Persistence - 1 : u \in Instants /\ Timeline[u] = Timeline[t]

\* The swaps are what the timeline says they are.
LEMMA SwapsShown == RelationInv => SwapsExact
<1> SUFFICES ASSUME RelationInv PROVE SwapsExact
    OBVIOUS
<1> DEFINE timeline == Timeline
           changes == {t \in Instants \ {0} : timeline[t] # timeline[t - 1]
                                              /\ timeline[t] # {} /\ timeline[t - 1] # {}}
           Turned(t) ==
               {k \in Tracks : \E g, h \in Targets :
                   g # h /\ <<k, g>> \in timeline[t - 1] /\ <<k, h>> \in timeline[t]}
<1>1. timeline = Timeline /\ changes = ChangeTimes /\ \A t : Turned(t) = TurnedAt(t)
    BY DEF ChangeTimes, TurnedAt
<1>2. SwapsRefused <=> \E t \in changes : Multiple(timeline[t], TRACK) # {}
                                           \/ Multiple(timeline[t - 1], TRACK) # {}
    BY <1>1, SwapsAre
<1> HIDE DEF timeline, changes, Turned
<1>3. ASSUME ~SwapsRefused
      PROVE  \A x : x \in Swaps <=> \E i \in Interval : CountedOver(i) /\ x = SwapOver(i)
    <2>1. Swaps = {SwapOver(i) : i \in {j \in Interval : CountedOver(j)}}
        BY <1>3, SwapsAre
    <2> QED
        BY <2>1
<1>4. ASSUME ~SwapsRefused, NEW s \in Swaps
      PROVE  /\ s.start + Persistence <= s.end
             /\ \E k, l \in Tracks : k # l /\ s.tracks = {k, l} /\ TradedOver(k, l, s.start, s.end)
             /\ \A r \in Swaps : r.start = s.start => r = s
    <2>1. PICK i \in Interval : CountedOver(i) /\ s = SwapOver(i)
        BY <1>3, <1>4
    <2>2. s.start = i[1] /\ s.end = i[2] /\ s.tracks = TurnedAt(i[1])
        BY <2>1 DEF SwapOver
    <2>3. s.start + Persistence <= s.end
        BY <2>1, <2>2 DEF CountedOver
    <2>4. PICK k, l \in Tracks : \E g, h \in Targets :
              /\ k # l /\ TurnedAt(i[1]) = {k, l} /\ g # h
              /\ <<k, g>> \in Timeline[i[1] - 1] /\ <<l, h>> \in Timeline[i[1] - 1]
              /\ \A u \in i[1] .. i[2] - 1 : <<k, h>> \in Timeline[u] /\ <<l, g>> \in Timeline[u]
        BY <1>4, <2>1, CountedIsTraded
    <2>5. TradedOver(k, l, i[1], i[2])
        <3>1. PICK g, h \in Targets :
                 /\ g # h
                 /\ <<k, g>> \in Timeline[i[1] - 1] /\ <<l, h>> \in Timeline[i[1] - 1]
                 /\ \A u \in i[1] .. i[2] - 1 : <<k, h>> \in Timeline[u] /\ <<l, g>> \in Timeline[u]
            BY <2>4
        <3>2. {<<k, g>>, <<l, h>>} \subseteq timeline[i[1] - 1]
            BY <1>1, <3>1
        <3>3. \A u \in i[1] .. i[2] - 1 : {<<k, h>>, <<l, g>>} \subseteq timeline[u]
            BY <1>1, <3>1
        <3> QED
            BY <1>1, <3>1, <3>2, <3>3 DEF TradedOver
    <2>6. ASSUME NEW r \in Swaps, r.start = s.start
          PROVE  r = s
        <3>1. PICK j \in Interval : CountedOver(j) /\ r = SwapOver(j)
            BY <1>3, <1>4
        <3>2. j[1] = i[1]
            BY <2>2, <2>6, <3>1 DEF SwapOver
        <3>3. i = j
            BY <2>1, <3>1, <3>2, CountedIsOne
        <3> QED
            BY <2>1, <3>1, <3>3
    <2> QED
        BY <2>2, <2>3, <2>4, <2>5, <2>6
<1>5. ASSUME ~SwapsRefused, NEW t \in changes, NEW k \in Tracks, NEW l \in Tracks,
             k # l, Turned(t) = {k, l}, TradedOver(k, l, t, t + 1), StaysFrom(t)
      PROVE  \E s \in Swaps : s.start = t /\ s.tracks = {k, l}
    <2>1. t \in ChangeTimes /\ TurnedAt(t) = {k, l} /\ t \in Int
        BY <1>1, <1>5, RowsAre DEF ChangeTimes
    <2>2. CrossedAt(t)
        <3>1. Cardinality(TurnedAt(t)) = 2
            <4>1. k # l /\ TurnedAt(t) = {k, l}
                BY <1>5, <2>1
            <4>2. Cardinality({k, l}) = 2
                BY <4>1, SizeOfTwo
            <4> QED
                BY <4>1, <4>2
        <3>2. PICK g, h \in Targets :
                 /\ {<<k, g>>, <<l, h>>} \subseteq timeline[t - 1]
                 /\ \A u \in t .. (t + 1) - 1 : {<<k, h>>, <<l, g>>} \subseteq timeline[u]
            BY <1>1, <1>5 DEF TradedOver
        <3>3. t \in t .. (t + 1) - 1
            BY <2>1
        <3>4. /\ <<k, g>> \in Timeline[t - 1] /\ <<l, h>> \in Timeline[t - 1]
              /\ <<k, h>> \in Timeline[t] /\ <<l, g>> \in Timeline[t]
            BY <1>1, <3>2, <3>3
        <3>5. \A a, b \in {k, l} : a # b =>
                 \E x \in Targets : <<a, x>> \in Timeline[t - 1] /\ <<b, x>> \in Timeline[t]
            BY <3>4
        <3> QED
            BY <2>1, <3>1, <3>5 DEF CrossedAt
    <2>3. \A u \in t .. t + Persistence - 1 : u \in Instants /\ Timeline[u] = Timeline[t]
        BY <1>5 DEF StaysFrom
    <2>4. PICK i \in Interval : i[1] = t /\ CountedOver(i)
        BY <2>1, <2>2, <2>3, TradeIsCounted
    <2>5. SwapOver(i) \in Swaps
        BY <1>3, <1>5, <2>4
    <2>6. SwapOver(i).start = t /\ SwapOver(i).tracks = {k, l}
        BY <2>1, <2>4 DEF SwapOver
    <2> QED
        BY <2>5, <2>6
<1>6. ~SwapsRefused =>
         /\ \A s \in Swaps :
               /\ s.start + Persistence <= s.end
               /\ \E k, l \in Tracks : k # l /\ s.tracks = {k, l} /\ TradedOver(k, l, s.start, s.end)
               /\ \A r \in Swaps : r.start = s.start => r = s
         /\ \A t \in changes : \A k, l \in Tracks :
               (k # l /\ Turned(t) = {k, l} /\ TradedOver(k, l, t, t + 1) /\ StaysFrom(t))
               => \E s \in Swaps : s.start = t /\ s.tracks = {k, l}
    <2>1. ASSUME ~SwapsRefused
          PROVE  \A s \in Swaps :
                    /\ s.start + Persistence <= s.end
                    /\ \E k, l \in Tracks : k # l /\ s.tracks = {k, l} /\ TradedOver(k, l, s.start, s.end)
                    /\ \A r \in Swaps : r.start = s.start => r = s
        BY <1>4, <2>1
    <2>2. ASSUME ~SwapsRefused
          PROVE  \A t \in changes : \A k, l \in Tracks :
                    (k # l /\ Turned(t) = {k, l} /\ TradedOver(k, l, t, t + 1) /\ StaysFrom(t))
                    => \E s \in Swaps : s.start = t /\ s.tracks = {k, l}
        BY <1>5, <2>2
    <2> QED
        BY <2>1, <2>2
<1> QED
    BY <1>2, <1>6 DEF SwapsExact, TradedOver, StaysFrom, timeline, changes, Turned

-----------------------------------------------------------------------------
(* The time in which something is associated. *)

Busy == {t \in Instants : Holds(t) # {}}
Span == IF Busy = {} THEN {} ELSE Min(Busy) .. Max(Busy)

\* What is associated at an instant, or was when last anything was.
LatestPairs(t) == Holds(Max({u \in Busy : u <= t}))

\* Where the next segment begins; the last one ends.
Ends(n) == IF n < Len(Segments) THEN Segments[n + 1].start ELSE Segments[n].end

\* Every instant of the span is in a segment or between it and the next.
LEMMA SpanIs ==
    ASSUME RelationInv, relation # {}
    PROVE  /\ Len(Segments) \in Nat /\ Len(Segments) > 0 /\ Span \subseteq Instants
           /\ \A n \in 1 .. Len(Segments) :
                 /\ Ends(n) \in Times /\ Segments[n].start < Ends(n) /\ Segments[n].end <= Ends(n)
                 /\ \A t \in Instants : Segments[n].start <= t /\ t < Ends(n)
                       => t \in Span /\ LatestPairs(t) = Segments[n].pairs
           /\ \A t \in Span :
                 /\ \E n \in 1 .. Len(Segments) : Segments[n].start <= t /\ t < Ends(n)
                 /\ Segments[1].start <= t /\ t < Segments[Len(Segments)].end
<1> DEFINE s == Segments
           N == Len(s)
<1>1. /\ N \in Nat
      /\ \A n \in 1 .. N : /\ s[n].pairs # {} /\ s[n].start \in Instants /\ s[n].end \in Times
                           /\ s[n].start < s[n].end
                           /\ \A t \in Instants : s[n].start <= t /\ t < s[n].end => Holds(t) = s[n].pairs
      /\ \A n, m \in 1 .. N : n < m => s[n].end <= s[m].start
      /\ \A t \in Instants : Holds(t) # {} => \E n \in 1 .. N : s[n].start <= t /\ t < s[n].end
    BY SegmentChain
<1>2. /\ Times = 0 .. Horizon /\ Instants = 0 .. Horizon - 1 /\ Horizon \in Nat
    BY RowsAre
<1> HIDE DEF s, N
<1>3. \A n \in 1 .. N : s[n].start \in Int /\ s[n].end \in Int /\ s[n].start \in Busy
    <2> SUFFICES ASSUME NEW n \in 1 .. N
                 PROVE  s[n].start \in Int /\ s[n].end \in Int /\ s[n].start \in Busy
        OBVIOUS
    <2>1. s[n].start \in Instants /\ s[n].end \in Times /\ s[n].start < s[n].end /\ s[n].pairs # {}
        BY <1>1
    <2>2. s[n].start \in Int /\ s[n].end \in Int
        BY <1>2, <2>1
    <2>3. Holds(s[n].start) = s[n].pairs
        BY <1>1, <2>1, <2>2
    <2> QED
        BY <2>1, <2>2, <2>3 DEF Busy
<1>4. N > 0
    <2>1. PICK r \in relation : TRUE
        OBVIOUS
    <2>2. r.span[1] \in Times /\ r.span[2] \in Times /\ r.span[1] < r.span[2]
        BY RowsAre
    <2>3. r.span[1] \in Instants /\ Holds(r.span[1]) # {}
        <3>1. r.span[1] \in Int /\ r.span[1] \in Instants /\ r.span[1] <= r.span[1]
            BY <1>2, <2>2
        <3>2. r \in {x \in relation : x.span[1] <= r.span[1] /\ r.span[1] < x.span[2]}
            BY <2>2, <3>1
        <3>3. <<r.track, r.target>> \in Holds(r.span[1])
            BY <3>2 DEF Holds
        <3> QED
            BY <3>1, <3>3
    <2>4. PICK n \in 1 .. N : TRUE
        BY <1>1, <2>3
    <2> QED
        BY <1>1, <2>4
<1>5. Busy # {} /\ Busy \subseteq Nat /\ Busy \subseteq Int /\ \A t \in Busy : t < Horizon /\ t \in Instants
    <2>1. 1 \in 1 .. N
        BY <1>1, <1>4
    <2> QED
        BY <1>2, <1>3, <2>1 DEF Busy
<1>6. \A t \in Busy : \E n \in 1 .. N : s[n].start <= t /\ t < s[n].end
    BY <1>1 DEF Busy
<1>7. Min(Busy) = s[1].start
    <2>1. Min(Busy) \in Busy /\ \A x \in Busy : Min(Busy) <= x
        BY <1>5, SmallestNumber
    <2>2. PICK n \in 1 .. N : s[n].start <= Min(Busy) /\ Min(Busy) < s[n].end
        BY <1>6, <2>1
    <2>3. 1 \in 1 .. N /\ s[1].start \in Busy
        BY <1>1, <1>3, <1>4
    <2>4. s[1].start <= s[n].start
        <3>1. CASE n = 1
            BY <1>3, <2>3, <3>1
        <3>2. CASE n # 1
            <4>1. s[1].end <= s[n].start /\ s[1].start < s[1].end
                BY <1>1, <2>3, <3>2
            <4> QED
                BY <1>3, <2>3, <4>1
        <3> QED
            BY <3>1, <3>2
    <2>5. Min(Busy) \in Int /\ Min(Busy) <= s[1].start
        BY <1>5, <2>1, <2>3
    <2> QED
        BY <1>3, <2>2, <2>3, <2>4, <2>5
<1>8. Max(Busy) = s[N].end - 1
    <2>1. N \in 1 .. N
        BY <1>1, <1>4
    <2>2. s[N].end - 1 \in Busy
        <3>1. s[N].end - 1 \in Instants /\ s[N].start <= s[N].end - 1 /\ s[N].end - 1 < s[N].end
            <4>1. s[N].start \in Instants /\ s[N].end \in Times /\ s[N].start < s[N].end
                BY <1>1, <2>1
            <4> QED
                BY <1>2, <4>1
        <3> QED
            BY <1>1, <2>1, <3>1 DEF Busy
    <2>3. ASSUME NEW t \in Busy
          PROVE  t <= s[N].end - 1
        <3>1. PICK n \in 1 .. N : s[n].start <= t /\ t < s[n].end
            BY <1>6
        <3>2. s[n].end <= s[N].end
            <4>1. CASE n = N
                BY <1>3, <2>1, <4>1
            <4>2. CASE n # N
                <5>1. s[n].end <= s[N].start /\ s[N].start < s[N].end
                    BY <1>1, <2>1, <4>2
                <5> QED
                    BY <1>3, <2>1, <5>1
            <4> QED
                BY <4>1, <4>2
        <3>3. t \in Int
            BY <1>5
        <3> QED
            BY <1>3, <2>1, <3>1, <3>2, <3>3
    <2> QED
        BY <1>5, <2>2, <2>3, GreatestIs
<1>9. Span = s[1].start .. s[N].end - 1
    BY <1>5, <1>7, <1>8 DEF Span
<1>10. ASSUME NEW n \in 1 .. N
       PROVE  /\ Ends(n) \in Times /\ s[n].start < Ends(n) /\ s[n].end <= Ends(n)
              /\ n < N => Ends(n) = s[n + 1].start /\ n + 1 \in 1 .. N
              /\ n = N => Ends(n) = s[N].end
    <2>1. s[n].start \in Int /\ s[n].end \in Int /\ s[n].end \in Times /\ s[n].start < s[n].end
        BY <1>1, <1>3
    <2>2. CASE n < N
        <3>1. n + 1 \in 1 .. N /\ Ends(n) = s[n + 1].start
            BY <1>1, <2>2 DEF Ends, s, N
        <3>2. s[n].end <= s[n + 1].start /\ s[n + 1].start \in Instants
            BY <1>1, <3>1
        <3> QED
            BY <1>2, <2>1, <2>2, <3>1, <3>2
    <2>3. CASE n = N
        <3>1. Ends(n) = s[n].end
            BY <1>1, <2>3 DEF Ends, s, N
        <3> QED
            BY <1>1, <2>1, <2>3, <3>1
    <2> QED
        BY <1>1, <2>2, <2>3
<1>11. ASSUME NEW n \in 1 .. N, NEW t \in Instants, s[n].start <= t, t < Ends(n)
       PROVE  t \in Span /\ LatestPairs(t) = s[n].pairs
    <2>1. /\ t \in Int /\ s[n].start \in Int /\ s[n].end \in Int /\ Ends(n) \in Int
          /\ s[n].start < s[n].end
        BY <1>1, <1>2, <1>3, <1>10
    <2>2. s[1].start <= s[n].start /\ Ends(n) <= s[N].end
        <3>1. 1 \in 1 .. N /\ N \in 1 .. N
            BY <1>1, <1>4
        <3>2. s[1].start <= s[n].start
            <4>1. CASE n = 1
                BY <2>1, <4>1
            <4>2. CASE n # 1
                <5>1. s[1].end <= s[n].start /\ s[1].start < s[1].end
                    BY <1>1, <3>1, <4>2
                <5> QED
                    BY <1>3, <3>1, <5>1
            <4> QED
                BY <4>1, <4>2
        <3>3. CASE n = N
            BY <1>3, <1>10, <3>1, <3>2, <3>3
        <3>4. CASE n < N
            <4>1. Ends(n) = s[n + 1].start /\ n + 1 \in 1 .. N
                BY <1>10, <3>4
            <4>2. s[n + 1].start < s[n + 1].end
                BY <1>1, <4>1
            <4>3. s[n + 1].end <= s[N].end
                <5>1. CASE n + 1 = N
                    BY <1>3, <3>1, <5>1
                <5>2. CASE n + 1 # N
                    <6>1. s[n + 1].end <= s[N].start /\ s[N].start < s[N].end
                        BY <1>1, <3>1, <4>1, <5>2
                    <6> QED
                        BY <1>3, <3>1, <4>1, <6>1
                <5> QED
                    BY <5>1, <5>2
            <4> QED
                BY <1>3, <3>1, <3>2, <4>1, <4>2, <4>3
        <3> QED
            BY <1>1, <3>3, <3>4
    <2>3. t \in Span
        <3>1. s[1].start \in Int /\ s[N].end \in Int
            BY <1>1, <1>3, <1>4
        <3> QED
            BY <1>9, <1>11, <2>1, <2>2, <3>1
    <2> DEFINE L == {u \in Busy : u <= t}
               v == IF t < s[n].end THEN t ELSE s[n].end - 1
    <2>4. v \in Instants /\ s[n].start <= v /\ v < s[n].end /\ v <= t
        <3>1. s[n].end \in Times /\ s[n].start \in Instants
            BY <1>1
        <3> QED
            BY <1>2, <1>11, <2>1, <3>1
    <2>5. Holds(v) = s[n].pairs /\ s[n].pairs # {}
        <3> HIDE DEF v
        <3> QED
            BY <1>1, <2>4
    <2>6. v \in L
        <3> HIDE DEF v
        <3> QED
            BY <2>4, <2>5 DEF Busy
    <2>7. ASSUME NEW u \in L
          PROVE  u <= v
        <3>1. u \in Busy /\ u <= t /\ u \in Int
            BY <1>5
        <3>2. PICK m \in 1 .. N : s[m].start <= u /\ u < s[m].end
            BY <1>6, <3>1
        <3>3. m <= n
            <4> SUFFICES ASSUME n < m PROVE FALSE
                BY <1>1
            <4>1. Ends(n) = s[n + 1].start /\ n + 1 \in 1 .. N
                BY <1>1, <1>10
            <4>2. s[n + 1].start <= s[m].start
                <5>1. CASE n + 1 = m
                    BY <1>3, <4>1, <5>1
                <5>2. CASE n + 1 # m
                    <6>1. s[n + 1].end <= s[m].start /\ s[n + 1].start < s[n + 1].end
                        BY <1>1, <4>1, <5>2
                    <6> QED
                        BY <1>3, <4>1, <6>1
                <5> QED
                    BY <5>1, <5>2
            <4> QED
                BY <1>3, <1>11, <2>1, <3>1, <3>2, <4>1, <4>2
        <3>4. u < s[n].end
            <4>1. CASE m = n
                BY <3>2, <4>1
            <4>2. CASE m < n
                <5>1. s[m].end <= s[n].start
                    BY <1>1, <4>2
                <5> QED
                    BY <1>3, <2>1, <3>1, <3>2, <5>1
            <4> QED
                BY <1>1, <3>3, <4>1, <4>2
        <3> QED
            BY <2>1, <3>1, <3>4
    <2>8. Max(L) = v
        <3>1. L \subseteq Int
            BY <1>5
        <3> HIDE DEF L, v
        <3> QED
            BY <2>6, <2>7, <3>1, GreatestIs
    <2> QED
        BY <2>3, <2>5, <2>8 DEF LatestPairs
<1>12. ASSUME NEW t \in Span
       PROVE  \E n \in 1 .. N : s[n].start <= t /\ t < Ends(n)
    <2> DEFINE M == {m \in 1 .. N : s[m].start <= t}
    <2>1. 1 \in 1 .. N /\ N \in 1 .. N /\ t \in Int /\ s[1].start <= t /\ t < s[N].end
        BY <1>1, <1>3, <1>4, <1>9
    <2>2. 1 \in M /\ M \subseteq Int /\ \A x \in M : x <= N
        BY <1>1, <2>1
    <2>3. Max(M) \in M /\ \A x \in M : x <= Max(M)
        <3>1. N \in Int
            BY <1>1
        <3> HIDE DEF M
        <3> QED
            BY <2>2, <3>1, GreatestNumber
    <2> DEFINE n == Max(M)
    <2> HIDE DEF n
    <2>4. n \in 1 .. N /\ s[n].start <= t /\ \A x \in 1 .. N : s[x].start <= t => x <= n
        BY <2>3 DEF n
    <2>5. t < Ends(n)
        <3>1. CASE n = N
            BY <1>10, <2>1, <3>1
        <3>2. CASE n < N
            <4>1. Ends(n) = s[n + 1].start /\ n + 1 \in 1 .. N
                BY <1>10, <2>4, <3>2
            <4>2. ~(s[n + 1].start <= t)
                BY <1>1, <2>4, <4>1
            <4> QED
                BY <1>3, <2>1, <4>1, <4>2
        <3> QED
            BY <1>1, <2>4, <3>1, <3>2
    <2> QED
        BY <2>4, <2>5
<1>13. Span \subseteq Instants
    BY <1>1, <1>2, <1>4, <1>9
<1>14. \A t \in Span : s[1].start <= t /\ t < s[N].end
    BY <1>1, <1>3, <1>4, <1>9
<1> QED
    BY <1>1, <1>4, <1>10, <1>11, <1>12, <1>13, <1>14 DEF s, N

-----------------------------------------------------------------------------
(* Stretches. *)

\* An interval that a set of instants fills and that cannot be prolonged.
Maximal(i, instants) ==
    /\ i[1] .. i[2] - 1 \subseteq instants
    /\ (i[1] = 0 \/ i[1] - 1 \notin instants) /\ i[2] \notin instants

LEMMA StretchesAre ==
    ASSUME NEW A, NEW length
    PROVE  Stretches(A, length) = {i \in Interval : Maximal(i, A) /\ i[1] + length <= i[2]}
BY DEF Stretches, Maximal

\* Two of them that share an instant are one.
LEMMA MaximalIsOne ==
    ASSUME RelationInv, NEW A, NEW i \in Interval, NEW j \in Interval, Maximal(i, A), Maximal(j, A),
           NEW t \in Int, i[1] <= t, t < i[2], j[1] <= t, t < j[2]
    PROVE  i = j
<1>1. /\ i = <<i[1], i[2]>> /\ i[1] \in Nat /\ i[2] \in Nat
      /\ j = <<j[1], j[2]>> /\ j[1] \in Nat /\ j[2] \in Nat
    BY RowsAre
<1>2. /\ \A u \in i[1] .. i[2] - 1 : u \in A
      /\ \A u \in j[1] .. j[2] - 1 : u \in A
      /\ i[1] = 0 \/ i[1] - 1 \notin A
      /\ j[1] = 0 \/ j[1] - 1 \notin A
      /\ i[2] \notin A /\ j[2] \notin A
    BY DEF Maximal
<1>3. ~(i[1] < j[1])
    <2> SUFFICES ASSUME i[1] < j[1] PROVE FALSE
        OBVIOUS
    <2>1. j[1] - 1 \in i[1] .. i[2] - 1 /\ j[1] # 0
        BY <1>1
    <2> QED
        BY <1>2, <2>1
<1>4. ~(j[1] < i[1])
    <2> SUFFICES ASSUME j[1] < i[1] PROVE FALSE
        OBVIOUS
    <2>1. i[1] - 1 \in j[1] .. j[2] - 1 /\ i[1] # 0
        BY <1>1
    <2> QED
        BY <1>2, <2>1
<1>5. ~(i[2] < j[2])
    <2> SUFFICES ASSUME i[2] < j[2] PROVE FALSE
        OBVIOUS
    <2>1. i[2] \in j[1] .. j[2] - 1
        BY <1>1
    <2> QED
        BY <1>2, <2>1
<1>6. ~(j[2] < i[2])
    <2> SUFFICES ASSUME j[2] < i[2] PROVE FALSE
        OBVIOUS
    <2>1. j[2] \in i[1] .. i[2] - 1
        BY <1>1
    <2> QED
        BY <1>2, <2>1
<1>7. i[1] = j[1] /\ i[2] = j[2]
    BY <1>1, <1>3, <1>4, <1>5, <1>6
<1> QED
    BY <1>1, <1>7

-----------------------------------------------------------------------------
(* Episodes. *)

Keys(side) == IF side = TRACK THEN Tracks ELSE Targets

\* The instants in which a key has several counterparts, or had when last
\* anything was associated.
Several(k, side) == {t \in Span : k \in Multiple(LatestPairs(t), side)}

ActiveIn(n, side) == Multiple(Segments[n].pairs, side)

\* The keys with several counterparts are tracks or targets.
LEMMA MultipleKeys ==
    ASSUME NEW pairs \in SUBSET Pairs, NEW side \in {TRACK, TARGET}
    PROVE  Multiple(pairs, side) \in SUBSET Keys(side)
<1>1. \A p \in pairs : p[1] \in Tracks /\ p[2] \in Targets
    BY DEF Pairs
<1> QED
    BY <1>1 DEF Multiple, Keys, TRACK, TARGET

\* From one segment to the next a key is active or not.
LEMMA SeveralIs ==
    ASSUME RelationInv, relation # {}, NEW side \in {TRACK, TARGET}, NEW n \in 1 .. Len(Segments)
    PROVE  /\ ActiveIn(n, side) \in SUBSET Keys(side)
           /\ \A t \in Instants : \A k : Segments[n].start <= t /\ t < Ends(n)
                 => (t \in Several(k, side) <=> k \in ActiveIn(n, side))
<1>1. Segments[n].pairs \in SUBSET Pairs
    BY SegmentChain
<1>2. ActiveIn(n, side) \in SUBSET Keys(side)
    BY <1>1, MultipleKeys DEF ActiveIn
<1>3. \A t \in Instants : Segments[n].start <= t /\ t < Ends(n)
         => t \in Span /\ LatestPairs(t) = Segments[n].pairs
    BY SpanIs
<1> QED
    BY <1>2, <1>3 DEF Several, ActiveIn

\* What following the segments has found.
EpisodeStates(side) ==
    [open : UNION {[K -> Instants] : K \in SUBSET Keys(side)},
     closed : SUBSET (Keys(side) \X Instants \X Times)]

Final(side) ==
    FoldLeft(LAMBDA state, segment : Advance(state, segment, side),
             [open |-> <<>>, closed |-> {}], Segments)

\* The fields after one segment.
Advanced(next, state, n, side) ==
    /\ next \in EpisodeStates(side)
    /\ next.open = [k \in ActiveIn(n, side) |->
                       IF k \in DOMAIN state.open THEN state.open[k] ELSE Segments[n].start]
    /\ next.closed = state.closed
          \cup Qualified(state.open, DOMAIN state.open \ ActiveIn(n, side), Segments[n].start)

LEMMA AdvanceIs ==
    ASSUME RelationInv, NEW side \in {TRACK, TARGET}, NEW n \in 1 .. Len(Segments),
           NEW state \in EpisodeStates(side)
    PROVE  Advanced(Advance(state, Segments[n], side), state, n, side)
<1> DEFINE A == ActiveIn(n, side)
           b == Segments[n].start
           o == [k \in A |-> IF k \in DOMAIN state.open THEN state.open[k] ELSE b]
           c == state.closed \cup Qualified(state.open, DOMAIN state.open \ A, b)
<1>1. Advance(state, Segments[n], side) = [open |-> o, closed |-> c]
    BY DEF Advance, ActiveIn
<1>2. PICK K \in SUBSET Keys(side) : state.open \in [K -> Instants]
    BY DEF EpisodeStates
<1>3. state.closed \in SUBSET (Keys(side) \X Instants \X Times)
    BY DEF EpisodeStates
<1>4. A \in SUBSET Keys(side) /\ b \in Instants /\ b \in Times
    <2>1. Segments[n].pairs \in SUBSET Pairs /\ b \in Instants
        BY SegmentChain
    <2>2. Instants \subseteq Times
        BY RowsAre
    <2> QED
        BY <2>1, <2>2, MultipleKeys DEF ActiveIn
<1> HIDE DEF A, b
<1>5. o \in [A -> Instants]
    BY <1>2, <1>4
<1>6. Qualified(state.open, DOMAIN state.open \ A, b) \in SUBSET (Keys(side) \X Instants \X Times)
    BY <1>2, <1>4 DEF Qualified
<1>7. [open |-> o, closed |-> c] \in EpisodeStates(side)
    <2>1. o \in UNION {[X -> Instants] : X \in SUBSET Keys(side)}
        BY <1>4, <1>5
    <2>2. c \in SUBSET (Keys(side) \X Instants \X Times)
        BY <1>3, <1>6
    <2> HIDE DEF o, c
    <2> QED
        BY <2>1, <2>2 DEF EpisodeStates
<1>8. /\ [open |-> o, closed |-> c].open = o
      /\ [open |-> o, closed |-> c].closed = c
    OBVIOUS
<1>9. /\ Advance(state, Segments[n], side) \in EpisodeStates(side)
      /\ Advance(state, Segments[n], side).open = o
      /\ Advance(state, Segments[n], side).closed = c
    BY <1>1, <1>7, <1>8
<1> QED
    BY <1>9 DEF A, b, Advanced

\* The segments are followed one after the other.
LEMMA FinalUnfolds ==
    ASSUME RelationInv, NEW side \in {TRACK, TARGET}
    PROVE  \E w : /\ w[0] = [open |-> <<>>, closed |-> {}]
                  /\ \A n \in 1 .. Len(Segments) :
                        w[n - 1] \in EpisodeStates(side) /\ w[n] = Advance(w[n - 1], Segments[n], side)
                  /\ w[Len(Segments)] \in EpisodeStates(side) /\ Final(side) = w[Len(Segments)]
<1> DEFINE N == Len(Segments)
           q == Segments
           T == EpisodeStates(side)
           Step(y, x) == Advance(y, x, side)
           Body(g) == [s \in SUBSET (1 .. N) |->
                          IF s = {} THEN [open |-> <<>>, closed |-> {}] ELSE Step(g[s \ {Max(s)}], q[Max(s)])]
           F == [p \in (1 .. N) \X T |-> Step(p[2], q[p[1]])]
<1>1. N \in Nat /\ DOMAIN q = 1 .. N /\ [open |-> <<>>, closed |-> {}] \in T
    <2>1. N \in Nat /\ DOMAIN q = 1 .. N
        <3>1. q \in Seq(Segment)
            BY SegmentsAre DEF Chained
        <3> QED
            BY <3>1
    <2>2. <<>> \in UNION {[K -> Instants] : K \in SUBSET Keys(side)}
        <3>1. <<>> \in [{} -> Instants]
            OBVIOUS
        <3> QED
            BY <3>1
    <2>3. [open |-> <<>>, closed |-> {}] \in T
        BY <2>2 DEF EpisodeStates
    <2> QED
        BY <2>1, <2>3
<1>2. F \in [(1 .. N) \X T -> T]
    <2>1. \A i \in 1 .. N : \A y \in T : Step(y, q[i]) \in T
        BY AdvanceIs DEF Advanced
    <2> HIDE DEF Step, T, q, N
    <2> QED
        BY <2>1
<1>3. PICK h \in [SUBSET (1 .. N) -> T] :
         \A s \in SUBSET (1 .. N) : h[s] = IF s = {} THEN [open |-> <<>>, closed |-> {}] ELSE F[<<Max(s), h[s \ {Max(s)}]>>]
    <2> HIDE DEF F, T, N
    <2>1. FoldsOver(T, [open |-> <<>>, closed |-> {}], N, F) # {}
        BY <1>1, <1>2, FoldExists
    <2> QED
        BY <2>1 DEF FoldsOver
<1> HIDE DEF Step, q
<1>4. ASSUME NEW s \in SUBSET (1 .. N), s # {}
      PROVE  F[<<Max(s), h[s \ {Max(s)}]>>] = Step(h[s \ {Max(s)}], q[Max(s)])
    <2>1. Max(s) \in s
        <3>1. s \subseteq Int /\ N \in Int /\ \A x \in s : x <= N
            BY <1>1
        <3> HIDE DEF N
        <3> QED
            BY <1>4, <3>1, GreatestNumber
    <2>2. s \ {Max(s)} \in SUBSET (1 .. N) /\ Max(s) \in 1 .. N
        BY <2>1
    <2>3. h[s \ {Max(s)}] \in T
        BY <1>3, <2>2
    <2> HIDE DEF T, N
    <2> QED
        BY <2>2, <2>3
<1>5. h = Body(h)
    <2>1. \A s \in SUBSET (1 .. N) :
             h[s] = IF s = {} THEN [open |-> <<>>, closed |-> {}] ELSE Step(h[s \ {Max(s)}], q[Max(s)])
        <3> HIDE DEF F, N
        <3> QED
            BY <1>3, <1>4
    <2>2. h = [s \in SUBSET (1 .. N) |-> h[s]]
        BY <1>3
    <2> QED
        BY <2>1, <2>2
<1> DEFINE g == CHOOSE f : f = Body(f)
<1>6. g = Body(g)
    <2>1. \E f : f = Body(f)
        BY <1>5
    <2> HIDE DEF Body
    <2> QED
        BY <2>1
<1>7. Final(side) = g[1 .. N]
    BY <1>1 DEF Final, FoldLeft, MapThenFoldSet, Step, q
<1> HIDE DEF g
<1>8. \A s \in SUBSET (1 .. N) : g[s] = IF s = {} THEN [open |-> <<>>, closed |-> {}] ELSE Step(g[s \ {Max(s)}], q[Max(s)])
    BY <1>6
<1> HIDE DEF N
<1> DEFINE w == [n \in 0 .. N |-> g[1 .. n]]
<1>9. w[0] = [open |-> <<>>, closed |-> {}]
    <2>1. 1 .. 0 = {} /\ {} \in SUBSET (1 .. N) /\ 0 \in 0 .. N
        BY <1>1
    <2> QED
        BY <1>8, <2>1
<1>10. ASSUME NEW n \in 1 .. N
       PROVE  w[n] = Step(w[n - 1], q[n])
    <2>1. n \in Nat /\ n > 0 /\ n \in 0 .. N /\ n - 1 \in 0 .. N
        BY <1>1
    <2>2. 1 .. n # {} /\ Max(1 .. n) = n /\ (1 .. n) \ {n} = 1 .. n - 1
        BY <2>1, Initial
    <2>3. 1 .. n \in SUBSET (1 .. N)
        BY <1>1
    <2>4. g[1 .. n] = Step(g[1 .. n - 1], q[n])
        BY <1>8, <2>2, <2>3
    <2> QED
        BY <2>1, <2>4
<1>11. w[N] = g[1 .. N]
    BY <1>1
<1> HIDE DEF w
<1>12. \A n \in 0 .. N : w[n] \in T
    <2> DEFINE Good == {n \in Nat : n <= N => w[n] \in T}
    <2> HIDE DEF T
    <2>1. 0 \in Good
        BY <1>1, <1>9
    <2>2. ASSUME NEW n \in Nat, n \in Good
          PROVE  n + 1 \in Good
        <3> SUFFICES ASSUME n + 1 <= N PROVE w[n + 1] \in T
            OBVIOUS
        <3>1. w[n] \in T /\ n + 1 \in 1 .. N /\ (n + 1) - 1 = n
            BY <1>1, <2>2
        <3>2. w[n + 1] = Step(w[n], q[n + 1])
            BY <1>10, <3>1
        <3>3. F[<<n + 1, w[n]>>] \in T /\ F[<<n + 1, w[n]>>] = Step(w[n], q[n + 1])
            <4>1. <<n + 1, w[n]>> \in (1 .. N) \X T
                BY <3>1
            <4> QED
                BY <1>2, <4>1
        <3> QED
            BY <3>2, <3>3
    <2> HIDE DEF Good
    <2>3. Nat \subseteq Good
        BY <2>1, <2>2, NaturalInduction
    <2> QED
        BY <1>1, <2>3 DEF Good
<1>13. \A n \in 1 .. N : n - 1 \in 0 .. N
    BY <1>1
<1>14. N \in 0 .. N
    BY <1>1
<1> QED
    BY <1>7, <1>9, <1>10, <1>11, <1>12, <1>13, <1>14 DEF Step, q, N

\* An episode that has ended at a time: a stretch in which a key has several
\* counterparts.
Ended(x, side, time) ==
    \E k \in Keys(side) : \E i \in Stretches(Several(k, side), Persistence) :
        i[2] <= time /\ x = <<k, i[1], i[2]>>

\* After n segments the active keys are open since their stretch began, and the
\* closed episodes are those that have ended.
Followed(state, n, side) ==
    /\ state \in EpisodeStates(side)
    /\ DOMAIN state.open = ActiveIn(n, side)
    /\ \A k \in ActiveIn(n, side) :
          /\ state.open[k] \in Instants /\ state.open[k] <= Segments[n].start
          /\ state.open[k] .. Ends(n) - 1 \subseteq Several(k, side)
          /\ state.open[k] = 0 \/ state.open[k] - 1 \notin Several(k, side)
    /\ \A x : x \in state.closed <=> Ended(x, side, Segments[n].start)

\* The keys that are not active any more where the next segment begins close there.
LEMMA Closing ==
    ASSUME RelationInv, relation # {}, NEW side \in {TRACK, TARGET}, NEW n \in 1 .. Len(Segments),
           NEW state, Followed(state, n, side), NEW K \in SUBSET ActiveIn(n, side),
           \A k \in ActiveIn(n, side) : k \in K <=> Ends(n) \notin Several(k, side)
    PROVE  \A x : x \in state.closed \cup Qualified(state.open, K, Ends(n))
                    <=> Ended(x, side, Ends(n))
<1> DEFINE e == Ends(n)
           b == Segments[n].start
           A == ActiveIn(n, side)
           o == state.open
           S(k) == Several(k, side)
<1>1. /\ e \in Times /\ e \in Int /\ b < e /\ b \in Int /\ b \in Instants
      /\ Times = 0 .. Horizon /\ Instants = 0 .. Horizon - 1 /\ Horizon \in Nat
    <2>1. e \in Times /\ b < e /\ b \in Instants
        BY SpanIs, SegmentChain
    <2> QED
        BY <2>1, RowsAre
<1>2. /\ A \in SUBSET Keys(side)
      /\ \A t \in Instants : \A k : b <= t /\ t < e => (t \in S(k) <=> k \in A)
    BY SeveralIs
<1>3. /\ DOMAIN o = A
      /\ \A k \in A : /\ o[k] \in Instants /\ o[k] \in Int /\ o[k] <= b
                      /\ o[k] .. e - 1 \subseteq S(k)
                      /\ o[k] = 0 \/ o[k] - 1 \notin S(k)
      /\ \A x : x \in state.closed <=> Ended(x, side, b)
    BY <1>1 DEF Followed
<1>4. \A k \in A : k \in K <=> e \notin S(k)
    OBVIOUS
<1>5. \A x : Ended(x, side, e) <=>
         \E k \in Keys(side) : \E i \in Interval :
            /\ Maximal(i, S(k)) /\ i[1] + Persistence <= i[2] /\ i[2] <= e
            /\ x = <<k, i[1], i[2]>>
    BY StretchesAre DEF Ended
<1>6. \A x : Ended(x, side, b) <=>
         \E k \in Keys(side) : \E i \in Interval :
            /\ Maximal(i, S(k)) /\ i[1] + Persistence <= i[2] /\ i[2] <= b
            /\ x = <<k, i[1], i[2]>>
    BY StretchesAre DEF Ended
<1>7. \A x : x \in Qualified(o, K, e) <=> \E k \in K : o[k] + Persistence <= e /\ x = <<k, o[k], e>>
    BY DEF Qualified
<1>8. ASSUME NEW k \in K
      PROVE  <<o[k], e>> \in Interval /\ Maximal(<<o[k], e>>, S(k))
    <2>1. o[k] \in Instants /\ o[k] \in Times /\ o[k] < e /\ k \in A
        BY <1>1, <1>3
    <2> QED
        BY <1>1, <1>3, <1>4, <2>1 DEF Maximal, Interval
<1> HIDE DEF e, b, A, o, S
<1>9. ASSUME NEW x, x \in state.closed
      PROVE  Ended(x, side, e)
    <2>1. PICK k \in Keys(side), i \in Interval :
             /\ Maximal(i, S(k)) /\ i[1] + Persistence <= i[2] /\ i[2] <= b
             /\ x = <<k, i[1], i[2]>>
        BY <1>3, <1>6, <1>9
    <2>2. i[2] \in Int
        BY RowsAre
    <2>3. i[2] <= e
        BY <1>1, <2>1, <2>2
    <2> QED
        BY <1>5, <2>1, <2>3
<1>10. ASSUME NEW x, x \in Qualified(o, K, e)
       PROVE  Ended(x, side, e)
    <2>1. PICK k \in K : o[k] + Persistence <= e /\ x = <<k, o[k], e>>
        BY <1>7, <1>10
    <2> DEFINE i == <<o[k], e>>
    <2>2. i \in Interval /\ Maximal(i, S(k)) /\ i[1] = o[k] /\ i[2] = e /\ k \in Keys(side)
        BY <1>2, <1>8 DEF A
    <2>3. i[2] <= e /\ i[1] + Persistence <= i[2] /\ x = <<k, i[1], i[2]>>
        BY <1>1, <2>1, <2>2
    <2> HIDE DEF i
    <2> QED
        BY <1>5, <2>2, <2>3
<1>11. ASSUME NEW x, Ended(x, side, e)
       PROVE  x \in state.closed \/ x \in Qualified(o, K, e)
    <2>1. PICK k \in Keys(side), i \in Interval :
             /\ Maximal(i, S(k)) /\ i[1] + Persistence <= i[2] /\ i[2] <= e
             /\ x = <<k, i[1], i[2]>>
        BY <1>5, <1>11
    <2>2. i[1] \in Int /\ i[2] \in Int /\ i[1] >= 0 /\ i[1] < i[2] /\ i = <<i[1], i[2]>>
        <3>1. i[1] \in Times /\ i[2] \in Times /\ i[1] < i[2] /\ i = <<i[1], i[2]>>
            BY RowsAre
        <3> QED
            BY <1>1, <3>1
    <2>3. CASE i[2] <= b
        BY <1>3, <1>6, <2>1, <2>3
    <2>4. CASE b < i[2]
        <3>1. i[2] - 1 \in Instants /\ b <= i[2] - 1 /\ i[2] - 1 < e /\ i[2] - 1 \in i[1] .. i[2] - 1
            BY <1>1, <2>1, <2>2, <2>4
        <3>2. i[2] - 1 \in S(k)
            BY <2>1, <3>1 DEF Maximal
        <3>3. k \in A
            BY <1>2, <3>1, <3>2
        <3>4. i[2] = e
            <4> SUFFICES ASSUME i[2] < e PROVE FALSE
                BY <1>1, <2>1, <2>2
            <4>1. i[2] \in Instants /\ b <= i[2]
                BY <1>1, <2>2, <2>4
            <4>2. i[2] \in S(k)
                BY <1>2, <3>3, <4>1
            <4> QED
                BY <2>1, <4>2 DEF Maximal
        <3>5. k \in K
            BY <1>4, <2>1, <3>3, <3>4 DEF Maximal
        <3> DEFINE j == <<o[k], e>>
                   t == e - 1
        <3>6. j \in Interval /\ Maximal(j, S(k)) /\ j[1] = o[k] /\ j[2] = e
            BY <1>8, <3>5
        <3>7. o[k] \in Int /\ o[k] <= b
            BY <1>3, <3>3
        <3>8. t \in Int /\ i[1] <= t /\ t < i[2] /\ o[k] <= t /\ t < e
            BY <1>1, <2>2, <3>1, <3>4, <3>7
        <3> HIDE DEF j, t
        <3>9. i = j
            BY <2>1, <3>6, <3>8, MaximalIsOne
        <3>10. x = <<k, o[k], e>> /\ o[k] + Persistence <= e
            BY <2>1, <3>6, <3>9
        <3> QED
            BY <1>7, <3>5, <3>10
    <2> QED
        BY <1>1, <2>2, <2>3, <2>4
<1> QED
    BY <1>9, <1>10, <1>11 DEF e, o

\* The first segment opens its active keys.
LEMMA FollowsFirst ==
    ASSUME RelationInv, relation # {}, NEW side \in {TRACK, TARGET}
    PROVE  Followed(Advance([open |-> <<>>, closed |-> {}], Segments[1], side), 1, side)
<1> DEFINE base == [open |-> <<>>, closed |-> {}]
           next == Advance(base, Segments[1], side)
           A == ActiveIn(1, side)
           b == Segments[1].start
<1>1. base \in EpisodeStates(side)
    <2>1. <<>> \in [{} -> Instants]
        OBVIOUS
    <2>2. <<>> \in UNION {[K -> Instants] : K \in SUBSET Keys(side)}
        BY <2>1
    <2> QED
        BY <2>2 DEF EpisodeStates
<1>2. 1 \in 1 .. Len(Segments)
    BY SpanIs
<1>12. base.open = <<>> /\ base.closed = {} /\ DOMAIN base.open = {}
    OBVIOUS
<1> HIDE DEF base
<1>3. /\ next \in EpisodeStates(side)
      /\ next.open = [k \in A |-> IF k \in DOMAIN base.open THEN base.open[k] ELSE b]
      /\ next.closed = base.closed \cup Qualified(base.open, DOMAIN base.open \ A, b)
    <2>1. Advanced(next, base, 1, side)
        BY <1>1, <1>2, AdvanceIs
    <2> QED
        BY <2>1 DEF Advanced
<1>5. next.open = [k \in A |-> b] /\ next.closed = {}
    BY <1>3, <1>12 DEF Qualified
<1> HIDE DEF next
<1>6. /\ b \in Instants /\ b \in Int /\ Ends(1) \in Int /\ Ends(1) \in Times
      /\ Times = 0 .. Horizon /\ Instants = 0 .. Horizon - 1 /\ Horizon \in Nat
    <2>1. b \in Instants /\ Ends(1) \in Times
        BY <1>2, SegmentChain, SpanIs
    <2> QED
        BY <2>1, RowsAre
<1>7. \A k : \A t \in Several(k, side) : t \in Span /\ b <= t
    <2>1. \A t \in Span : b <= t
        BY SpanIs
    <2> QED
        BY <2>1 DEF Several
<1>8. ASSUME NEW k \in A
      PROVE  /\ b .. Ends(1) - 1 \subseteq Several(k, side)
             /\ b - 1 \notin Several(k, side)
    <2>1. \A t \in b .. Ends(1) - 1 : t \in Instants /\ b <= t /\ t < Ends(1)
        BY <1>6
    <2>2. \A t \in b .. Ends(1) - 1 : t \in Several(k, side)
        BY <1>2, <2>1, SeveralIs
    <2>3. b - 1 \notin Several(k, side)
        BY <1>6, <1>7
    <2> QED
        BY <2>2, <2>3
<1>9. ASSUME NEW x, Ended(x, side, b)
      PROVE  FALSE
    <2>1. PICK k \in Keys(side), i \in Interval : Maximal(i, Several(k, side)) /\ i[2] <= b
        BY <1>9, StretchesAre DEF Ended
    <2>2. i[1] \in Int /\ i[2] \in Int /\ i[1] < i[2]
        BY RowsAre
    <2>3. i[1] \in i[1] .. i[2] - 1
        BY <2>2
    <2>4. i[1] \in Several(k, side)
        BY <2>1, <2>3 DEF Maximal
    <2> QED
        BY <1>6, <1>7, <2>1, <2>2, <2>4
<1> HIDE DEF A, b
<1>10. DOMAIN next.open = A /\ \A k \in A : next.open[k] = b
    BY <1>5
<1>4. ASSUME NEW k \in A
      PROVE  /\ next.open[k] \in Instants /\ next.open[k] <= b
             /\ next.open[k] .. Ends(1) - 1 \subseteq Several(k, side)
             /\ next.open[k] = 0 \/ next.open[k] - 1 \notin Several(k, side)
    BY <1>6, <1>8, <1>10
<1>11. Followed(next, 1, side)
    BY <1>3, <1>4, <1>5, <1>9, <1>10 DEF Followed, A, b
<1> QED
    BY <1>11 DEF next, base

\* Each further segment closes the keys that are not active in it.
LEMMA FollowsNext ==
    ASSUME RelationInv, relation # {}, NEW side \in {TRACK, TARGET},
           NEW n \in 1 .. Len(Segments), n + 1 \in 1 .. Len(Segments),
           NEW state, Followed(state, n, side)
    PROVE  Followed(Advance(state, Segments[n + 1], side), n + 1, side)
<1> DEFINE next == Advance(state, Segments[n + 1], side)
           A == ActiveIn(n, side)
           B == ActiveIn(n + 1, side)
           e == Segments[n + 1].start
           S(k) == Several(k, side)
           f == Ends(n + 1)
           K == A \ B
<1>1. Ends(n) = e
    BY SpanIs DEF Ends
<1>2. /\ e \in Instants /\ e \in Int /\ f \in Int /\ f \in Times /\ e < f
      /\ Segments[n].start \in Int /\ Segments[n].start < e
      /\ Times = 0 .. Horizon /\ Instants = 0 .. Horizon - 1 /\ Horizon \in Nat
    <2>1. /\ e \in Instants /\ f \in Times /\ e < f /\ Segments[n].start < Ends(n)
          /\ Segments[n].start \in Instants
        BY SegmentChain, SpanIs
    <2> QED
        BY <1>1, <2>1, RowsAre
<1>3. state \in EpisodeStates(side) /\ DOMAIN state.open = A
    BY DEF Followed
<1>4. /\ next \in EpisodeStates(side)
      /\ next.open = [k \in B |-> IF k \in DOMAIN state.open THEN state.open[k] ELSE e]
      /\ next.closed = state.closed \cup Qualified(state.open, DOMAIN state.open \ B, e)
    <2>1. Advanced(next, state, n + 1, side)
        BY <1>3, AdvanceIs
    <2> QED
        BY <2>1 DEF Advanced
<1>5. \A k : e \in S(k) <=> k \in B
    <2>1. e <= e
        BY <1>2
    <2> QED
        BY <1>2, <2>1, SeveralIs
<1>6. \A x : x \in next.closed <=> Ended(x, side, e)
    <2>1. K \in SUBSET A /\ \A k \in A : k \in K <=> Ends(n) \notin S(k)
        BY <1>1, <1>5
    <2>2. \A x : x \in state.closed \cup Qualified(state.open, K, Ends(n)) <=> Ended(x, side, Ends(n))
        <3> HIDE DEF K
        <3> QED
            BY <2>1, Closing
    <2> QED
        BY <1>1, <1>3, <1>4, <2>2
<1> HIDE DEF next
<1>7. ASSUME NEW k \in B
      PROVE  /\ next.open[k] \in Instants /\ next.open[k] <= e
             /\ next.open[k] .. f - 1 \subseteq S(k)
             /\ next.open[k] = 0 \/ next.open[k] - 1 \notin S(k)
    <2>1. \A t \in e .. f - 1 : t \in S(k)
        <3>1. \A t \in e .. f - 1 : t \in Instants /\ e <= t /\ t < f
            BY <1>2
        <3> QED
            BY <3>1, SeveralIs
    <2>2. CASE k \in A
        <3>1. next.open[k] = state.open[k]
            BY <1>3, <1>4, <2>2
        <3>2. /\ state.open[k] \in Instants /\ state.open[k] <= Segments[n].start
              /\ state.open[k] .. e - 1 \subseteq S(k)
              /\ state.open[k] = 0 \/ state.open[k] - 1 \notin S(k)
            BY <1>1, <2>2 DEF Followed
        <3>3. state.open[k] \in Int
            BY <1>2, <3>2
        <3>4. \A t \in state.open[k] .. f - 1 : t \in state.open[k] .. e - 1 \/ t \in e .. f - 1
            BY <1>2, <3>3
        <3> HIDE DEF S, e, f
        <3>5. state.open[k] .. f - 1 \subseteq S(k)
            BY <2>1, <3>2, <3>4
        <3>6. state.open[k] <= e
            BY <1>2, <3>2, <3>3
        <3> QED
            BY <3>1, <3>2, <3>5, <3>6
    <2>3. CASE k \notin A
        <3>1. next.open[k] = e
            BY <1>3, <1>4, <2>3
        <3>2. e - 1 \in Instants /\ Segments[n].start <= e - 1 /\ e - 1 < e
            <4>1. Segments[n].start \in Instants
                BY SegmentChain
            <4> QED
                BY <1>2, <4>1
        <3>3. e - 1 \notin S(k)
            BY <1>1, <2>3, <3>2, SeveralIs
        <3> HIDE DEF S, e, f
        <3> QED
            BY <1>2, <2>1, <3>1, <3>3
    <2> QED
        BY <2>2, <2>3
<1>8. DOMAIN next.open = B
    BY <1>4
<1>9. Followed(next, n + 1, side)
    BY <1>4, <1>6, <1>7, <1>8 DEF Followed
<1> QED
    BY <1>9 DEF next

\* The episodes are the stretches of several counterparts.
LEMMA EpisodesAre ==
    ASSUME RelationInv, relation # {}, NEW side \in {TRACK, TARGET}
    PROVE  \A x : x \in Episodes(side) <=>
              \E k \in Keys(side) : \E i \in Stretches(Several(k, side), Persistence) :
                  x = <<k, i[1], i[2]>>
<1> DEFINE N == Len(Segments)
<1>1. N \in Nat /\ N > 0
    BY SpanIs
<1>2. PICK w : /\ w[0] = [open |-> <<>>, closed |-> {}]
               /\ \A n \in 1 .. N : w[n] = Advance(w[n - 1], Segments[n], side)
               /\ Final(side) = w[N]
    BY FinalUnfolds
<1> DEFINE Good == {n \in Nat : n + 1 <= N => Followed(w[n + 1], n + 1, side)}
<1> HIDE DEF N
<1>3. 0 \in Good
    <2>1. 1 \in 1 .. N /\ 1 - 1 = 0 /\ 0 + 1 = 1
        BY <1>1
    <2>2. w[1] = Advance([open |-> <<>>, closed |-> {}], Segments[1], side)
        BY <1>2, <2>1
    <2> QED
        BY <2>1, <2>2, FollowsFirst
<1>4. ASSUME NEW n \in Nat, n \in Good
      PROVE  n + 1 \in Good
    <2> SUFFICES ASSUME (n + 1) + 1 <= N
                 PROVE  Followed(w[(n + 1) + 1], (n + 1) + 1, side)
        OBVIOUS
    <2> DEFINE m == n + 1
    <2>1. m \in 1 .. N /\ m + 1 \in 1 .. N /\ (m + 1) - 1 = m /\ n + 1 <= N
        BY <1>1
    <2>2. Followed(w[m], m, side)
        BY <1>4, <2>1
    <2> HIDE DEF m, Good
    <2>3. w[m + 1] = Advance(w[m], Segments[m + 1], side)
        BY <1>2, <2>1
    <2>4. Followed(w[m + 1], m + 1, side)
        BY <2>1, <2>2, <2>3, FollowsNext DEF N
    <2> QED
        BY <2>4 DEF m
<1> HIDE DEF Good
<1>5. Nat \subseteq Good
    BY <1>3, <1>4, NaturalInduction
<1>6. Followed(w[N], N, side)
    <2>1. N - 1 \in Good /\ (N - 1) + 1 = N
        BY <1>1, <1>5
    <2> QED
        BY <1>1, <2>1 DEF Good
<1> DEFINE state == Final(side)
           A == ActiveIn(N, side)
           e == Ends(N)
<1>7. Followed(state, N, side) /\ DOMAIN state.open = A
    BY <1>2, <1>6 DEF Followed
<1>8. N \in 1 .. N /\ e = Segments[N].end
    BY <1>1 DEF Ends, N
<1>9. \A k : \A t \in Several(k, side) : t < e
    <2>1. \A t \in Span : t < Segments[N].end
        BY SpanIs DEF N
    <2> QED
        BY <1>8, <2>1 DEF Several
<1>10. e \in Times /\ \A t \in Times : t \in Int
    BY <1>8, SpanIs, RowsAre DEF N
<1>11. \A k : e \notin Several(k, side)
    BY <1>9, <1>10
<1> HIDE DEF state, e
<1>12. \A x : x \in state.closed \cup Qualified(state.open, A, e) <=> Ended(x, side, e)
    <2>1. A \in SUBSET A /\ \A k \in A : k \in A <=> Ends(N) \notin Several(k, side)
        BY <1>11 DEF e
    <2> HIDE DEF A
    <2> QED
        BY <1>7, <1>8, <2>1, Closing DEF e, N, A
<1>13. Episodes(side) = state.closed \cup Qualified(state.open, DOMAIN state.open, e)
    <2>1. Episodes(side) = Final(side).closed
             \cup Qualified(Final(side).open, DOMAIN Final(side).open, Last(Segments).end)
        BY DEF Episodes, Final
    <2>2. Last(Segments).end = e
        BY <1>8 DEF Last, N
    <2> QED
        BY <2>1, <2>2 DEF state
<1>14. \A k : \A i \in Stretches(Several(k, side), Persistence) : i[2] <= e
    <2> SUFFICES ASSUME NEW k, NEW i \in Stretches(Several(k, side), Persistence)
                 PROVE  i[2] <= e
        OBVIOUS
    <2>1. i \in Interval /\ Maximal(i, Several(k, side))
        BY StretchesAre
    <2>2. i[1] \in Int /\ i[2] \in Int /\ i[1] < i[2]
        BY <2>1, RowsAre
    <2>3. i[2] - 1 \in i[1] .. i[2] - 1
        BY <2>2
    <2>4. i[2] - 1 < e
        BY <1>9, <2>1, <2>3 DEF Maximal
    <2> QED
        BY <1>10, <2>2, <2>4
<1>15. \A x : Ended(x, side, e) <=> \E k \in Keys(side) :
                 \E i \in Stretches(Several(k, side), Persistence) : x = <<k, i[1], i[2]>>
    BY <1>14 DEF Ended
<1> QED
    BY <1>7, <1>12, <1>13, <1>15

-----------------------------------------------------------------------------
(* Sums are counts: what a sum adds for each element is the size of a set, *)
(* and these sets have nothing in common. *)

\* Sets within a finite one, none of which meets another.
Apart(c, S, whole) ==
    /\ IsFiniteSet(S) /\ IsFiniteSet(whole)
    /\ \A x \in S : c[x] \in SUBSET whole
    /\ \A x, y \in S : x # y => c[x] \cap c[y] = {}

First(s) == CHOOSE x \in s : TRUE

Added(v, S, g) ==
    g = [s \in SUBSET S |-> IF s = {} THEN 0 ELSE v[First(s)] + g[s \ {First(s)}]]

\* Taking one set away takes its size away.
LEMMA OneLess ==
    ASSUME NEW c, NEW S, NEW whole, Apart(c, S, whole), NEW s \in SUBSET S, s # {}
    PROVE  /\ First(s) \in s /\ s \ {First(s)} \in SUBSET S
           /\ Cardinality(UNION {c[x] : x \in s})
                 = Cardinality(c[First(s)]) + Cardinality(UNION {c[x] : x \in s \ {First(s)}})
           /\ Cardinality(c[First(s)]) \in Nat
           /\ Cardinality(UNION {c[x] : x \in s \ {First(s)}}) \in Nat
           /\ Cardinality(UNION {c[x] : x \in s}) \in Nat
<1> DEFINE f == First(s)
           U == UNION {c[x] : x \in s}
           V == UNION {c[x] : x \in s \ {f}}
<1>1. f \in s
    BY DEF First
<1> HIDE DEF f
<1>2. c[f] \in SUBSET whole /\ U \in SUBSET whole /\ V \in SUBSET whole
    BY <1>1 DEF Apart
<1>3. U = c[f] \cup V
    BY <1>1
<1>4. c[f] \cap V = {}
    <2> SUFFICES ASSUME NEW z \in c[f], NEW x \in s \ {f}, z \in c[x]
                 PROVE  FALSE
        OBVIOUS
    <2>1. x \in S /\ f \in S /\ x # f
        BY <1>1
    <2> QED
        BY <2>1 DEF Apart
<1> HIDE DEF U, V
<1>5. IsFiniteSet(c[f]) /\ IsFiniteSet(U) /\ IsFiniteSet(V)
    BY <1>2, FS_Subset DEF Apart
<1>6. Cardinality(U) = Cardinality(c[f]) + Cardinality(V) - Cardinality(c[f] \cap V)
    BY <1>3, <1>5, FS_Union
<1>7. Cardinality(c[f] \cap V) = 0
    BY <1>4, FS_EmptySet
<1>8. Cardinality(c[f]) \in Nat /\ Cardinality(V) \in Nat /\ Cardinality(U) \in Nat
    BY <1>5, FS_CardinalityType
<1>9. Cardinality(U) = Cardinality(c[f]) + Cardinality(V)
    BY <1>6, <1>7, <1>8
<1> QED
    BY <1>1, <1>8, <1>9 DEF f, U, V

\* A sum exists, and it is the size of the union.
LEMMA SumsCount ==
    ASSUME NEW c, NEW S, NEW whole, Apart(c, S, whole), NEW v, \A x \in S : v[x] = Cardinality(c[x])
    PROVE  /\ \E g : Added(v, S, g)
           /\ \A g : Added(v, S, g) => g[S] = Cardinality(UNION {c[x] : x \in S})
<1> DEFINE U(s) == UNION {c[x] : x \in s}
           h == [s \in SUBSET S |-> Cardinality(U(s))]
<1>1. ASSUME NEW s \in SUBSET S
      PROVE  h[s] = IF s = {} THEN 0 ELSE v[First(s)] + h[s \ {First(s)}]
    <2>1. CASE s = {}
        <3>1. U(s) = {}
            BY <2>1
        <3>2. Cardinality(U(s)) = 0
            BY <3>1, FS_EmptySet
        <3> HIDE DEF U
        <3> QED
            BY <2>1, <3>2
    <2>2. CASE s # {}
        <3>1. /\ First(s) \in S /\ s \ {First(s)} \in SUBSET S
              /\ Cardinality(U(s)) = Cardinality(c[First(s)]) + Cardinality(U(s \ {First(s)}))
            BY <2>2, OneLess
        <3>2. v[First(s)] = Cardinality(c[First(s)])
            BY <3>1
        <3> HIDE DEF U
        <3> QED
            BY <2>2, <3>1, <3>2
    <2> QED
        BY <2>1, <2>2
<1>2. Added(v, S, h)
    <2>1. h = [s \in SUBSET S |-> h[s]]
        OBVIOUS
    <2> HIDE DEF h
    <2> QED
        BY <1>1, <2>1 DEF Added
<1>3. ASSUME NEW g, Added(v, S, g)
      PROVE  g[S] = Cardinality(U(S))
    <2>1. \A s \in SUBSET S : g[s] = IF s = {} THEN 0 ELSE v[First(s)] + g[s \ {First(s)}]
        BY <1>3 DEF Added
    <2> DEFINE Good == {n \in Nat : \A s \in SUBSET S : Cardinality(s) = n => g[s] = h[s]}
    <2> HIDE DEF h
    <2>2. \A s \in SUBSET S : IsFiniteSet(s) /\ Cardinality(s) \in Nat
        BY FS_Subset, FS_CardinalityType DEF Apart
    <2>3. 0 \in Good
        <3> SUFFICES ASSUME NEW s \in SUBSET S, Cardinality(s) = 0
                     PROVE  g[s] = h[s]
            OBVIOUS
        <3>1. s = {}
            BY <2>2, FS_EmptySet
        <3> QED
            BY <1>1, <2>1, <3>1
    <2>4. ASSUME NEW n \in Nat, n \in Good
          PROVE  n + 1 \in Good
        <3> SUFFICES ASSUME NEW s \in SUBSET S, Cardinality(s) = n + 1
                     PROVE  g[s] = h[s]
            OBVIOUS
        <3>1. s # {}
            BY FS_EmptySet
        <3>2. First(s) \in s
            BY <3>1 DEF First
        <3> DEFINE r == s \ {First(s)}
        <3>3. Cardinality(r) = Cardinality(s) - 1 /\ r \in SUBSET S
            BY <2>2, <3>2, FS_RemoveElement
        <3>4. Cardinality(r) = n
            BY <3>3
        <3> HIDE DEF r
        <3>5. g[r] = h[r]
            BY <2>4, <3>3, <3>4
        <3> HIDE DEF Good
        <3> QED
            BY <1>1, <2>1, <3>1, <3>5 DEF r
    <2> HIDE DEF Good
    <2>5. Nat \subseteq Good
        BY <2>3, <2>4, NaturalInduction
    <2>6. S \in SUBSET S /\ Cardinality(S) \in Nat
        BY <2>2
    <2>7. g[S] = h[S]
        BY <2>5, <2>6 DEF Good
    <2> QED
        BY <2>7 DEF h
<1> QED
    BY <1>2, <1>3

-----------------------------------------------------------------------------
(* Merged intervals. *)

\* Intervals in order of time, each of which ends before the next begins.
Spread(s) ==
    /\ s \in Seq(Interval)
    /\ \A a, b \in 1 .. Len(s) : a < b => s[a][2] < s[b][1]

\* The instant is within one of the intervals.
Touched(s, t) == \E a \in 1 .. Len(s) : s[a][1] <= t /\ t < s[a][2]

\* The ends of intervals.
LEMMA IntervalFields ==
    ASSUME RelationInv, NEW s \in Seq(Interval)
    PROVE  /\ Len(s) \in Nat
           /\ \A n \in 1 .. Len(s) :
                 /\ s[n] \in Interval /\ s[n] = <<s[n][1], s[n][2]>> /\ s[n][1] < s[n][2]
                 /\ s[n][1] \in Times /\ s[n][1] \in Int
                 /\ s[n][2] \in Times /\ s[n][2] \in Int
<1>1. Len(s) \in Nat /\ \A n \in 1 .. Len(s) : s[n] \in Interval
    OBVIOUS
<1> QED
    BY <1>1, RowsAre

\* An interval that begins within the last one prolongs it, or is within it.
LEMMA AbsorbIs ==
    ASSUME RelationInv, NEW s \in Seq(Interval), NEW i \in Interval
    PROVE  /\ Absorb(s, i) \in Seq(Interval) /\ Absorb(s, i) # <<>>
           /\ s # <<>> /\ i[1] <= s[Len(s)][2]
                 => \E e \in Times :
                       /\ e \in {s[Len(s)][2], i[2]} /\ s[Len(s)][2] <= e /\ i[2] <= e
                       /\ Absorb(s, i) = [s EXCEPT ![Len(s)] = <<s[Len(s)][1], e>>]
           /\ ~(s # <<>> /\ i[1] <= s[Len(s)][2]) => Absorb(s, i) = Append(s, i)
<1> DEFINE Extends == s # <<>> /\ i[1] <= s[Len(s)][2]
           e == Max({s[Len(s)][2], i[2]})
<1>1. /\ i[1] \in Times /\ i[2] \in Times /\ i[1] < i[2] /\ Times = 0 .. Horizon /\ Horizon \in Nat
    BY RowsAre
<1>2. ASSUME Extends
      PROVE  /\ e \in Times /\ e \in {s[Len(s)][2], i[2]} /\ s[Len(s)][2] <= e /\ i[2] <= e
             /\ Absorb(s, i) = [s EXCEPT ![Len(s)] = <<s[Len(s)][1], e>>]
             /\ [s EXCEPT ![Len(s)] = <<s[Len(s)][1], e>>] \in Seq(Interval)
    <2> DEFINE L == Len(s)
               a == s[L][1]
               b == s[L][2]
               E == {b, i[2]}
    <2>1. /\ L \in 1 .. L /\ s[L] = <<a, b>> /\ a \in Times /\ b \in Times /\ a < b /\ DOMAIN s = 1 .. L
        <3>1. L \in 1 .. L /\ DOMAIN s = 1 .. L
            BY <1>2
        <3> QED
            BY <3>1, IntervalFields
    <2>2. Max(E) \in E /\ \A x \in E : x <= Max(E)
        <3>1. E \subseteq Int /\ E # {} /\ Horizon \in Int /\ \A x \in E : x <= Horizon
            BY <1>1, <2>1
        <3> HIDE DEF E
        <3> QED
            BY <3>1, GreatestNumber
    <2>3. e = Max(E)
        OBVIOUS
    <2> HIDE DEF e
    <2>4. e \in Times /\ e \in E /\ b <= e /\ i[2] <= e
        BY <1>1, <2>1, <2>2, <2>3
    <2>5. <<a, e>> \in Interval
        BY <1>1, <2>1, <2>4 DEF Interval
    <2>6. Absorb(s, i) = [s EXCEPT ![L] = [s[L] EXCEPT ![2] = e]]
        BY <1>2, <2>3 DEF Absorb, Last
    <2>7. [<<a, b>> EXCEPT ![2] = e] = <<a, e>>
        OBVIOUS
    <2>8. Absorb(s, i) = [s EXCEPT ![L] = <<a, e>>]
        BY <2>1, <2>6, <2>7
    <2>9. [s EXCEPT ![L] = <<a, e>>] \in Seq(Interval)
        <3> HIDE DEF L, a
        <3> QED
            BY <2>1, <2>5 DEF L
    <2> QED
        BY <2>4, <2>8, <2>9
<1>3. ASSUME ~Extends
      PROVE  Absorb(s, i) = Append(s, i)
    BY <1>3 DEF Absorb, Last
<1>4. Append(s, i) \in Seq(Interval) /\ Append(s, i) # <<>>
    <2>1. Append(s, i) \in Seq(Interval) /\ Len(Append(s, i)) = Len(s) + 1 /\ Len(s) \in Nat
        OBVIOUS
    <2>2. Len(Append(s, i)) # 0
        BY <2>1
    <2> QED
        BY <2>1, <2>2
<1>5. Extends => Absorb(s, i) # <<>>
    <2> SUFFICES ASSUME Extends PROVE Absorb(s, i) # <<>>
        OBVIOUS
    <2> HIDE DEF e
    <2>1. Absorb(s, i) = [s EXCEPT ![Len(s)] = <<s[Len(s)][1], e>>]
        BY <1>2
    <2>2. DOMAIN Absorb(s, i) = DOMAIN s /\ DOMAIN s # {}
        BY <2>1
    <2> QED
        BY <2>2
<1> HIDE DEF e
<1>6. /\ Extends => \E x \in Times :
                       /\ x \in {s[Len(s)][2], i[2]} /\ s[Len(s)][2] <= x /\ i[2] <= x
                       /\ Absorb(s, i) = [s EXCEPT ![Len(s)] = <<s[Len(s)][1], x>>]
      /\ Absorb(s, i) \in Seq(Interval)
    BY <1>2, <1>3, <1>4
<1> QED
    BY <1>3, <1>4, <1>5, <1>6

\* The intervals are absorbed one after the other.
LEMMA MergedUnfolds ==
    ASSUME RelationInv, NEW S \in SUBSET Interval, IsFiniteSet(S)
    PROVE  \E w : /\ w[0] = <<>>
                  /\ \A n \in 1 .. Cardinality(S) :
                        w[n - 1] \in Seq(Interval) /\ w[n] = Absorb(w[n - 1], InOrder(S)[n])
                  /\ w[Cardinality(S)] \in Seq(Interval) /\ Merged(S) = w[Cardinality(S)]
<1> DEFINE N == Cardinality(S)
           q == InOrder(S)
           T == Seq(Interval)
           Step(y, x) == Absorb(y, x)
           Body(g) == [s \in SUBSET (1 .. N) |->
                          IF s = {} THEN <<>> ELSE Step(g[s \ {Max(s)}], q[Max(s)])]
           F == [p \in (1 .. N) \X T |-> Step(p[2], q[p[1]])]
<1>1. N \in Nat /\ DOMAIN q = 1 .. N /\ <<>> \in T
    BY InOrderLists
<1>2. F \in [(1 .. N) \X T -> T]
    <2>1. \A i \in 1 .. N : \A y \in T : Step(y, q[i]) \in T
        <3>1. \A i \in 1 .. N : q[i] \in Interval
            BY InOrderLists
        <3> HIDE DEF q, N
        <3> QED
            BY <3>1, AbsorbIs
    <2> HIDE DEF Step, T, q, N
    <2> QED
        BY <2>1
<1>3. PICK h \in [SUBSET (1 .. N) -> T] :
         \A s \in SUBSET (1 .. N) : h[s] = IF s = {} THEN <<>> ELSE F[<<Max(s), h[s \ {Max(s)}]>>]
    <2> HIDE DEF F, T, N
    <2>1. FoldsOver(T, <<>>, N, F) # {}
        BY <1>1, <1>2, FoldExists
    <2> QED
        BY <2>1 DEF FoldsOver
<1> HIDE DEF Step, q
<1>4. ASSUME NEW s \in SUBSET (1 .. N), s # {}
      PROVE  F[<<Max(s), h[s \ {Max(s)}]>>] = Step(h[s \ {Max(s)}], q[Max(s)])
    <2>1. Max(s) \in s
        <3>1. s \subseteq Int /\ N \in Int /\ \A x \in s : x <= N
            BY <1>1
        <3> HIDE DEF N
        <3> QED
            BY <1>4, <3>1, GreatestNumber
    <2>2. s \ {Max(s)} \in SUBSET (1 .. N) /\ Max(s) \in 1 .. N
        BY <2>1
    <2>3. h[s \ {Max(s)}] \in T
        BY <1>3, <2>2
    <2> HIDE DEF T, N
    <2> QED
        BY <2>2, <2>3
<1>5. h = Body(h)
    <2>1. \A s \in SUBSET (1 .. N) :
             h[s] = IF s = {} THEN <<>> ELSE Step(h[s \ {Max(s)}], q[Max(s)])
        <3> HIDE DEF F, N
        <3> QED
            BY <1>3, <1>4
    <2>2. h = [s \in SUBSET (1 .. N) |-> h[s]]
        BY <1>3
    <2> QED
        BY <2>1, <2>2
<1> DEFINE g == CHOOSE f : f = Body(f)
<1>6. g = Body(g)
    <2>1. \E f : f = Body(f)
        BY <1>5
    <2> HIDE DEF Body
    <2> QED
        BY <2>1
<1>7. Merged(S) = g[1 .. N]
    BY <1>1 DEF Merged, FoldLeft, MapThenFoldSet, Step, q
<1> HIDE DEF g
<1>8. \A s \in SUBSET (1 .. N) : g[s] = IF s = {} THEN <<>> ELSE Step(g[s \ {Max(s)}], q[Max(s)])
    BY <1>6
<1> HIDE DEF N
<1> DEFINE w == [n \in 0 .. N |-> g[1 .. n]]
<1>9. w[0] = <<>>
    <2>1. 1 .. 0 = {} /\ {} \in SUBSET (1 .. N) /\ 0 \in 0 .. N
        BY <1>1
    <2> QED
        BY <1>8, <2>1
<1>10. ASSUME NEW n \in 1 .. N
       PROVE  w[n] = Step(w[n - 1], q[n])
    <2>1. n \in Nat /\ n > 0 /\ n \in 0 .. N /\ n - 1 \in 0 .. N
        BY <1>1
    <2>2. 1 .. n # {} /\ Max(1 .. n) = n /\ (1 .. n) \ {n} = 1 .. n - 1
        BY <2>1, Initial
    <2>3. 1 .. n \in SUBSET (1 .. N)
        BY <1>1
    <2>4. g[1 .. n] = Step(g[1 .. n - 1], q[n])
        BY <1>8, <2>2, <2>3
    <2> QED
        BY <2>1, <2>4
<1>11. w[N] = g[1 .. N]
    BY <1>1
<1> HIDE DEF w
<1>12. \A n \in 0 .. N : w[n] \in T
    <2> DEFINE Good == {n \in Nat : n <= N => w[n] \in T}
    <2> HIDE DEF T
    <2>1. 0 \in Good
        BY <1>1, <1>9
    <2>2. ASSUME NEW n \in Nat, n \in Good
          PROVE  n + 1 \in Good
        <3> SUFFICES ASSUME n + 1 <= N PROVE w[n + 1] \in T
            OBVIOUS
        <3>1. w[n] \in T /\ n + 1 \in 1 .. N /\ (n + 1) - 1 = n
            BY <1>1, <2>2
        <3>2. w[n + 1] = Step(w[n], q[n + 1])
            BY <1>10, <3>1
        <3>3. F[<<n + 1, w[n]>>] \in T /\ F[<<n + 1, w[n]>>] = Step(w[n], q[n + 1])
            <4>1. <<n + 1, w[n]>> \in (1 .. N) \X T
                BY <3>1
            <4> QED
                BY <1>2, <4>1
        <3> QED
            BY <3>2, <3>3
    <2> HIDE DEF Good
    <2>3. Nat \subseteq Good
        BY <2>1, <2>2, NaturalInduction
    <2> QED
        BY <1>1, <2>3 DEF Good
<1>13. \A n \in 1 .. N : n - 1 \in 0 .. N
    BY <1>1
<1>14. N \in 0 .. N
    BY <1>1
<1> QED
    BY <1>7, <1>9, <1>10, <1>11, <1>12, <1>13, <1>14 DEF Step, q, N

\* Whatever is absorbed, the intervals stay spread and cover what it covers.
LEMMA AbsorbKeeps ==
    ASSUME RelationInv, NEW s, Spread(s), NEW i \in Interval, s # <<>> => s[Len(s)][1] <= i[1]
    PROVE  /\ Spread(Absorb(s, i))
           /\ Absorb(s, i) # <<>> /\ Absorb(s, i)[Len(Absorb(s, i))][1] <= i[1]
           /\ \A t \in Instants : Touched(Absorb(s, i), t) <=> Touched(s, t) \/ (i[1] <= t /\ t < i[2])
<1> DEFINE L == Len(s)
           z == Absorb(s, i)
           Extends == s # <<>> /\ i[1] <= s[L][2]
<1>1. /\ s \in Seq(Interval) /\ L \in Nat /\ (s # <<>> => L \in 1 .. L)
      /\ \A a, b \in 1 .. L : a < b => s[a][2] < s[b][1]
      /\ \A a \in 1 .. L : s[a] \in Interval /\ s[a][1] \in Int /\ s[a][2] \in Int /\ s[a][1] < s[a][2]
    <2>1. s \in Seq(Interval)
        BY DEF Spread
    <2> QED
        BY <2>1, IntervalFields DEF Spread
<1>2. /\ i[1] \in Int /\ i[2] \in Int /\ i[1] < i[2] /\ \A t \in Instants : t \in Int
      /\ \A t \in Times : t \in Int
    BY RowsAre
<1>3. z \in Seq(Interval) /\ z # <<>>
    BY <1>1, AbsorbIs
<1>4. CASE Extends
    <2>1. PICK e \in Times : /\ e \in {s[L][2], i[2]} /\ s[L][2] <= e /\ i[2] <= e
                             /\ z = [s EXCEPT ![L] = <<s[L][1], e>>]
        BY <1>1, <1>4, AbsorbIs
    <2>2. /\ Len(z) = L /\ z[L][1] = s[L][1] /\ z[L][2] = e /\ L \in 1 .. L
          /\ \A n \in 1 .. L : n # L => z[n] = s[n]
        BY <1>1, <1>4, <2>1
    <2>3. \A n \in 1 .. L : z[n][1] = s[n][1]
        BY <2>2
    <2>4. e \in Int /\ s[L][1] <= i[1] /\ i[1] <= s[L][2]
        BY <1>2, <1>4
    <2> HIDE DEF L, z, Extends
    <2>5. ASSUME NEW a \in 1 .. L, NEW b \in 1 .. L, a < b
          PROVE  z[a][2] < z[b][1]
        <3>1. a # L
            BY <1>1, <2>5
        <3> QED
            BY <1>1, <2>2, <2>3, <2>5, <3>1
    <2>6. ASSUME NEW t \in Instants
          PROVE  (\E a \in 1 .. L : z[a][1] <= t /\ t < z[a][2])
                    <=> (\E a \in 1 .. L : s[a][1] <= t /\ t < s[a][2]) \/ (i[1] <= t /\ t < i[2])
        <3>1. t \in Int
            BY <1>2
        <3>2. ASSUME NEW a \in 1 .. L, z[a][1] <= t, t < z[a][2]
              PROVE  (s[a][1] <= t /\ t < s[a][2]) \/ (i[1] <= t /\ t < i[2])
            <4>1. CASE a # L
                BY <2>2, <3>2, <4>1
            <4>2. CASE a = L
                BY <1>1, <1>2, <2>1, <2>2, <2>4, <3>1, <3>2, <4>2
            <4> QED
                BY <4>1, <4>2
        <3>3. ASSUME NEW a \in 1 .. L, s[a][1] <= t, t < s[a][2]
              PROVE  z[a][1] <= t /\ t < z[a][2]
            <4>1. CASE a # L
                BY <2>2, <3>3, <4>1
            <4>2. CASE a = L
                BY <1>1, <1>2, <2>1, <2>2, <2>4, <3>1, <3>3, <4>2
            <4> QED
                BY <4>1, <4>2
        <3>4. ASSUME i[1] <= t, t < i[2]
              PROVE  z[L][1] <= t /\ t < z[L][2]
            BY <1>1, <1>2, <2>1, <2>2, <2>4, <3>1, <3>4
        <3> QED
            BY <2>2, <3>2, <3>3, <3>4
    <2>7. Spread(z)
        BY <1>3, <2>2, <2>5 DEF Spread
    <2>8. \A t \in Instants : Touched(z, t) <=> Touched(s, t) \/ (i[1] <= t /\ t < i[2])
        BY <2>2, <2>6 DEF Touched, L
    <2> QED
        BY <1>3, <2>2, <2>4, <2>7, <2>8 DEF z
<1>5. CASE ~Extends
    <2>1. /\ Len(z) = L + 1 /\ z[L + 1] = i
          /\ \A n \in 1 .. L : z[n] = s[n]
        <3>1. z = Append(s, i)
            BY <1>1, <1>5, AbsorbIs
        <3> QED
            BY <1>1, <3>1
    <2>e. \A a \in 1 .. L : s[a][2] < i[1]
        <3> SUFFICES ASSUME NEW a \in 1 .. L
                     PROVE  s[a][2] < i[1]
            OBVIOUS
        <3>1. L \in 1 .. L /\ L > 0
            BY <1>1
        <3>2. s[L][2] < i[1]
            <4>1. s # <<>>
                BY <1>1, <3>1
            <4> QED
                BY <1>1, <1>2, <1>5, <3>1, <4>1
        <3> HIDE DEF L
        <3>3. CASE a = L
            BY <3>2, <3>3
        <3>4. CASE a < L
            <4>1. s[a][2] < s[L][1] /\ s[L][1] < s[L][2] /\ s[L][1] \in Int /\ s[L][2] \in Int
                BY <1>1, <3>1, <3>4
            <4> QED
                BY <1>1, <1>2, <3>2, <4>1
        <3> QED
            BY <1>1, <3>3, <3>4
    <2> HIDE DEF L, z, Extends
    <2>2. \A n \in 1 .. L + 1 : n \in 1 .. L \/ n = L + 1
        BY <1>1
    <2>3. L + 1 \in 1 .. L + 1 /\ \A n \in 1 .. L : n \in 1 .. L + 1
        BY <1>1
    <2>4. ASSUME NEW a \in 1 .. L + 1, NEW b \in 1 .. L + 1, a < b
          PROVE  z[a][2] < z[b][1]
        <3>1. a \in 1 .. L
            BY <1>1, <2>4
        <3>2. CASE b \in 1 .. L
            BY <1>1, <2>1, <2>4, <3>1, <3>2
        <3>3. CASE b = L + 1
            BY <2>1, <2>e, <3>1, <3>3
        <3> QED
            BY <2>2, <3>2, <3>3
    <2>5. ASSUME NEW t \in Instants
          PROVE  (\E a \in 1 .. L + 1 : z[a][1] <= t /\ t < z[a][2])
                    <=> (\E a \in 1 .. L : s[a][1] <= t /\ t < s[a][2]) \/ (i[1] <= t /\ t < i[2])
        BY <2>1, <2>2, <2>3
    <2>6. Spread(z)
        BY <1>3, <2>1, <2>4 DEF Spread
    <2>7. \A t \in Instants : Touched(z, t) <=> Touched(s, t) \/ (i[1] <= t /\ t < i[2])
        BY <2>1, <2>5 DEF Touched, L
    <2> QED
        BY <1>2, <1>3, <2>1, <2>6, <2>7 DEF z
<1> QED
    BY <1>4, <1>5

\* The instants within some of the intervals.
Covered(S) == {t \in Instants : \E i \in S : i[1] <= t /\ t < i[2]}

\* Merged intervals are spread, and cover what the intervals cover.
LEMMA MergedSpreads ==
    ASSUME RelationInv, NEW S \in SUBSET Interval, IsFiniteSet(S)
    PROVE  /\ Spread(Merged(S))
           /\ \A t \in Instants : Touched(Merged(S), t) <=> t \in Covered(S)
<1> DEFINE N == Cardinality(S)
           q == InOrder(S)
<1>1. /\ N \in Nat /\ \A n \in 1 .. N : q[n] \in S /\ q[n] \in Interval
      /\ \A i \in S : \E n \in 1 .. N : q[n] = i
      /\ \A n, k \in 1 .. N : n < k => Before(q[n], q[k])
    BY InOrderLists
<1>2. PICK w : /\ w[0] = <<>>
               /\ \A n \in 1 .. N : w[n - 1] \in Seq(Interval) /\ w[n] = Absorb(w[n - 1], q[n])
               /\ w[N] \in Seq(Interval) /\ Merged(S) = w[N]
    BY MergedUnfolds
<1> HIDE DEF N, q
<1> DEFINE Sound(n) ==
              /\ Spread(w[n])
              /\ n > 0 => w[n][Len(w[n])][1] <= q[n][1]
              /\ \A t \in Instants :
                    Touched(w[n], t) <=> \E k \in 1 .. n : q[k][1] <= t /\ t < q[k][2]
           Good == {n \in Nat : n <= N => Sound(n)}
<1>3. 0 \in Good
    <2>1. <<>> \in Seq(Interval) /\ Len(<<>>) = 0
        OBVIOUS
    <2>2. Spread(<<>>) /\ \A t : ~Touched(<<>>, t)
        BY <2>1 DEF Spread, Touched
    <2> QED
        BY <1>2, <2>2
<1>4. ASSUME NEW n \in Nat, n \in Good
      PROVE  n + 1 \in Good
    <2> SUFFICES ASSUME n + 1 <= N PROVE Sound(n + 1)
        OBVIOUS
    <2>1. n <= N /\ n + 1 \in 1 .. N /\ (n + 1) - 1 = n
        BY <1>1
    <2>2. Sound(n)
        BY <1>4, <2>1
    <2> HIDE DEF Good
    <2>3. w[n + 1] = Absorb(w[n], q[n + 1]) /\ q[n + 1] \in Interval /\ w[n] \in Seq(Interval)
        BY <1>1, <1>2, <2>1
    <2>4. w[n] # <<>> => w[n][Len(w[n])][1] <= q[n + 1][1]
        <3> SUFFICES ASSUME w[n] # <<>> PROVE w[n][Len(w[n])][1] <= q[n + 1][1]
            OBVIOUS
        <3>1. n > 0
            BY <1>2
        <3>2. n \in 1 .. N /\ n < n + 1
            BY <2>1, <3>1
        <3>3. Before(q[n], q[n + 1])
            BY <1>1, <2>1, <3>2
        <3>4. q[n][1] \in Int /\ q[n + 1][1] \in Int
            BY <1>1, <2>1, <3>2, RowsAre
        <3>5. w[n][Len(w[n])][1] \in Int
            <4>1. Len(w[n]) \in 1 .. Len(w[n])
                BY <2>3
            <4> QED
                BY <2>3, <4>1, IntervalFields
        <3>6. q[n][1] <= q[n + 1][1]
            BY <3>3, <3>4 DEF Before
        <3> QED
            BY <2>2, <3>1, <3>4, <3>5, <3>6
    <2>5. /\ Spread(w[n + 1])
          /\ w[n + 1][Len(w[n + 1])][1] <= q[n + 1][1]
          /\ \A t \in Instants :
                Touched(w[n + 1], t) <=> Touched(w[n], t) \/ (q[n + 1][1] <= t /\ t < q[n + 1][2])
        BY <2>2, <2>3, <2>4, AbsorbKeeps
    <2>6. \A k : k \in 1 .. n + 1 <=> k \in 1 .. n \/ k = n + 1
        OBVIOUS
    <2>7. \A t \in Instants :
             Touched(w[n + 1], t) <=> \E k \in 1 .. n + 1 : q[k][1] <= t /\ t < q[k][2]
        BY <2>2, <2>5, <2>6
    <2> QED
        BY <2>5, <2>7
<1> HIDE DEF Good
<1>5. Nat \subseteq Good
    BY <1>3, <1>4, NaturalInduction
<1>6. Sound(N)
    BY <1>1, <1>5 DEF Good
<1>7. ASSUME NEW t \in Instants
      PROVE  Touched(Merged(S), t) <=> t \in Covered(S)
    <2>1. t \in Covered(S) <=> \E i \in S : i[1] <= t /\ t < i[2]
        BY DEF Covered
    <2>2. (\E i \in S : i[1] <= t /\ t < i[2]) <=> \E k \in 1 .. N : q[k][1] <= t /\ t < q[k][2]
        BY <1>1
    <2> QED
        BY <1>2, <1>6, <2>1, <2>2
<1> QED
    BY <1>2, <1>6, <1>7

\* There are finitely many intervals and instants.
LEMMA IntervalsFinite ==
    ASSUME RelationInv
    PROVE  /\ IsFiniteSet(Instants) /\ IsFiniteSet(Times) /\ IsFiniteSet(Interval)
           /\ \A S \in SUBSET Interval : IsFiniteSet(S)
<1>1. 0 \in Int /\ Horizon \in Int /\ Horizon - 1 \in Int /\ Times = 0 .. Horizon /\ Instants = 0 .. Horizon - 1
    BY RowsAre
<1>2. IsFiniteSet(Times) /\ IsFiniteSet(Instants)
    BY <1>1, FS_Interval
<1>3. IsFiniteSet(Times \X Times) /\ Interval \subseteq Times \X Times
    BY <1>2, FS_Product DEF Interval
<1>4. IsFiniteSet(Interval)
    BY <1>3, FS_Subset
<1> QED
    BY <1>2, <1>4, FS_Subset

\* The merged intervals are the maximal ones among the instants covered.
LEMMA MergedAre ==
    ASSUME RelationInv, NEW S \in SUBSET Interval
    PROVE  /\ Spread(Merged(S))
           /\ ToSet(Merged(S)) = {Merged(S)[a] : a \in 1 .. Len(Merged(S))}
           /\ ToSet(Merged(S)) = {i \in Interval : Maximal(i, Covered(S))}
           /\ Covered(S) \in SUBSET Instants
           /\ \A t \in Covered(S) : \E i \in ToSet(Merged(S)) : i[1] <= t /\ t < i[2]
<1> DEFINE s == Merged(S)
           A == Covered(S)
           N == Len(s)
<1>1. IsFiniteSet(S)
    BY IntervalsFinite
<1>2. Spread(s) /\ \A t \in Instants : Touched(s, t) <=> t \in A
    BY <1>1, MergedSpreads
<1>3. s \in Seq(Interval)
    BY <1>2 DEF Spread
<1>4. ToSet(s) = {s[a] : a \in 1 .. N} /\ N \in Nat
    BY <1>3, MembersOf
<1>5. /\ \A a \in 1 .. N : /\ s[a] \in Interval /\ s[a][1] \in Int /\ s[a][2] \in Int /\ s[a][1] < s[a][2]
                           /\ s[a][1] \in Times /\ s[a][2] \in Times
      /\ \A a, b \in 1 .. N : a < b => s[a][2] < s[b][1]
    BY <1>2, <1>3, IntervalFields DEF Spread
<1>6. \A t : t \in A <=> t \in Instants /\ \E a \in 1 .. N : s[a][1] <= t /\ t < s[a][2]
    <2>1. \A t \in A : t \in Instants
        BY DEF Covered
    <2> QED
        BY <1>2, <2>1 DEF Touched
<1>7. Times = 0 .. Horizon /\ Instants = 0 .. Horizon - 1 /\ Horizon \in Nat
    BY RowsAre
<1> HIDE DEF s, A, N
<1>8. ASSUME NEW a \in 1 .. N
      PROVE  Maximal(s[a], A)
    <2> DEFINE b == s[a][1]
               e == s[a][2]
    <2>1. b \in Int /\ e \in Int /\ b < e /\ b >= 0 /\ e <= Horizon
        BY <1>5, <1>7
    <2>2. \A t \in b .. e - 1 : t \in A
        <3>1. \A t \in b .. e - 1 : t \in Instants /\ b <= t /\ t < e
            BY <1>7, <2>1
        <3> QED
            BY <1>6, <3>1
    <2>3. ASSUME NEW t \in Int, t = e \/ t = b - 1, t \in A
          PROVE  FALSE
        <3>1. PICK c \in 1 .. N : s[c][1] <= t /\ t < s[c][2]
            BY <1>6, <2>3
        <3>2. s[c][1] \in Int /\ s[c][2] \in Int
            BY <1>5
        <3>3. c # a
            BY <2>1, <2>3, <3>1
        <3>4. a < c \/ c < a
            BY <1>4, <3>3
        <3>5. e < s[c][1] \/ s[c][2] < b
            BY <1>5, <3>4
        <3> HIDE DEF b, e
        <3> QED
            BY <2>1, <2>3, <3>1, <3>2, <3>5
    <2>4. e \notin A /\ b - 1 \notin A
        BY <2>1, <2>3
    <2> QED
        BY <2>2, <2>4 DEF Maximal
<1>9. ASSUME NEW i \in Interval, Maximal(i, A)
      PROVE  \E a \in 1 .. N : i = s[a]
    <2>1. i[1] \in Int /\ i[2] \in Int /\ i[1] < i[2]
        BY RowsAre
    <2>2. i[1] \in i[1] .. i[2] - 1
        BY <2>1
    <2>3. i[1] \in A
        BY <1>9, <2>2 DEF Maximal
    <2>4. PICK a \in 1 .. N : s[a][1] <= i[1] /\ i[1] < s[a][2]
        BY <1>6, <2>3
    <2>5. i[1] <= i[1] /\ s[a] \in Interval /\ Maximal(s[a], A)
        BY <1>5, <1>8, <2>1
    <2>6. i = s[a]
        BY <1>9, <2>1, <2>4, <2>5, MaximalIsOne
    <2> QED
        BY <2>6
<1>10. ToSet(s) = {i \in Interval : Maximal(i, A)}
    BY <1>4, <1>5, <1>8, <1>9
<1>11. A \in SUBSET Instants
    BY <1>6
<1>12. \A t \in A : \E i \in ToSet(s) : i[1] <= t /\ t < i[2]
    BY <1>4, <1>6
<1> QED
    BY <1>2, <1>4, <1>10, <1>11, <1>12 DEF s, A, N

\* The rows of some pairs cover the instants in which one of them is associated.
LEMMA SpansCover ==
    ASSUME RelationInv, NEW pairs
    PROVE  SpansOf(pairs) \in SUBSET Interval /\ Covered(SpansOf(pairs)) = CoveredBy(pairs)
<1>1. SpansOf(pairs) \in SUBSET Interval
    BY RowsAre DEF SpansOf
<1>2. ASSUME NEW t \in Instants
      PROVE  (\E i \in SpansOf(pairs) : i[1] <= t /\ t < i[2]) <=> Holds(t) \cap pairs # {}
    <2>1. ASSUME NEW i \in SpansOf(pairs), i[1] <= t, t < i[2]
          PROVE  Holds(t) \cap pairs # {}
        <3>1. PICK r \in relation : <<r.track, r.target>> \in pairs /\ i = r.span
            BY DEF SpansOf
        <3>2. <<r.track, r.target>> \in Holds(t)
            BY <2>1, <3>1 DEF Holds
        <3> QED
            BY <3>1, <3>2
    <2>2. ASSUME NEW p \in Holds(t) \cap pairs
          PROVE  \E i \in SpansOf(pairs) : i[1] <= t /\ t < i[2]
        <3>1. PICK r \in relation : r.span[1] <= t /\ t < r.span[2] /\ p = <<r.track, r.target>>
            BY DEF Holds
        <3>2. r.span \in SpansOf(pairs)
            BY <3>1 DEF SpansOf
        <3> QED
            BY <3>1, <3>2
    <2> QED
        BY <2>1, <2>2
<1> QED
    BY <1>1, <1>2 DEF Covered, CoveredBy

-----------------------------------------------------------------------------
(* Durations. *)

\* The instants of an interval.
Within(i) == i[1] .. i[2] - 1

\* An interval is as long as it has instants.
LEMMA LengthCounts ==
    ASSUME RelationInv, NEW i \in Interval
    PROVE  /\ Length(i) = Cardinality(Within(i)) /\ Within(i) \in SUBSET Instants
           /\ \A t \in Instants : t \in Within(i) <=> i[1] <= t /\ t < i[2]
<1>1. /\ i[1] \in Times /\ i[2] \in Times /\ i[1] < i[2]
      /\ Times = 0 .. Horizon /\ Instants = 0 .. Horizon - 1 /\ Horizon \in Nat
    BY RowsAre
<1>2. i[1] \in Int /\ i[2] - 1 \in Int
    BY <1>1
<1>3. Cardinality(i[1] .. i[2] - 1) = IF i[1] > i[2] - 1 THEN 0 ELSE (i[2] - 1) - i[1] + 1
    BY <1>2, FS_Interval
<1> QED
    BY <1>1, <1>3 DEF Length, Within

\* A duration is the number of instants covered.
LEMMA DurationIs ==
    ASSUME RelationInv, NEW S \in SUBSET Interval
    PROVE  Duration(S) = Cardinality(Covered(S))
<1> DEFINE M == ToSet(Merged(S))
           A == Covered(S)
           c == [i \in M |-> Within(i)]
           v == [i \in M |-> Length(i)]
           Body(g) == [s \in SUBSET M |-> IF s = {} THEN 0 ELSE Length(First(s)) + g[s \ {First(s)}]]
<1>1. /\ M = {i \in Interval : Maximal(i, A)} /\ A \in SUBSET Instants
      /\ \A t \in A : \E i \in M : i[1] <= t /\ t < i[2]
    BY MergedAre
<1> HIDE DEF M, A
<1>2. \A i \in M : /\ i \in Interval /\ v[i] = Cardinality(c[i]) /\ c[i] = Within(i)
                   /\ Within(i) \in SUBSET A /\ Within(i) \in SUBSET Instants
                   /\ \A t \in Instants : t \in Within(i) <=> i[1] <= t /\ t < i[2]
    <2>1. \A i \in M : i \in Interval /\ Maximal(i, A)
        BY <1>1
    <2>2. \A i \in M : Within(i) \in SUBSET A
        BY <2>1 DEF Maximal, Within
    <2> QED
        BY <2>1, <2>2, LengthCounts
<1>3. ASSUME NEW i \in M, NEW j \in M, NEW t, t \in c[i], t \in c[j]
      PROVE  i = j
    <2>1. t \in Instants /\ t \in Within(i) /\ t \in Within(j)
        BY <1>2, <1>3
    <2>2. t \in Int /\ i[1] <= t /\ t < i[2] /\ j[1] <= t /\ t < j[2]
        BY <1>2, <2>1, RowsAre
    <2>3. i \in Interval /\ j \in Interval /\ Maximal(i, A) /\ Maximal(j, A)
        BY <1>1
    <2> QED
        BY <2>2, <2>3, MaximalIsOne
<1>4. Apart(c, M, Instants)
    <2>1. IsFiniteSet(M) /\ IsFiniteSet(Instants)
        BY <1>1, IntervalsFinite
    <2> QED
        BY <1>2, <1>3, <2>1 DEF Apart
<1>5. UNION {c[i] : i \in M} = A
    <2>1. \A t \in A : \E i \in M : t \in c[i]
        <3>1. \A t \in A : t \in Instants
            BY <1>1
        <3> HIDE DEF c
        <3> QED
            BY <1>1, <1>2, <3>1
    <2>2. \A i \in M : c[i] \in SUBSET A
        BY <1>2
    <2> HIDE DEF c
    <2> QED
        BY <2>1, <2>2
<1>6. \A g : Added(v, M, g) <=> g = Body(g)
    <2>1. \A s \in SUBSET M : s # {} => v[First(s)] = Length(First(s))
        BY DEF First
    <2> HIDE DEF v
    <2>2. \A g : Body(g) = [s \in SUBSET M |-> IF s = {} THEN 0 ELSE v[First(s)] + g[s \ {First(s)}]]
        BY <2>1
    <2> QED
        BY <2>2 DEF Added
<1> DEFINE g == CHOOSE f : f = Body(f)
<1>7. Duration(S) = g[M]
    BY DEF Duration, MapThenSumSet, MapThenFoldSet, First, M
<1> HIDE DEF Body, c, v
<1>8. (\E f : Added(v, M, f)) /\ \A f : Added(v, M, f) => f[M] = Cardinality(UNION {c[i] : i \in M})
    BY <1>2, <1>4, SumsCount
<1>9. g = Body(g)
    BY <1>6, <1>8
<1> HIDE DEF g
<1> QED
    BY <1>5, <1>6, <1>7, <1>8, <1>9 DEF A

\* The larger and the smaller of two times.
LEMMA OfTwo ==
    ASSUME NEW a \in Nat, NEW b \in Nat
    PROVE  /\ Max({a, b}) = (IF a <= b THEN b ELSE a)
           /\ Min({a, b}) = (IF a <= b THEN a ELSE b)
<1> DEFINE S == {a, b}
<1>1. S \subseteq Nat /\ S \subseteq Int /\ S # {} /\ a \in S /\ b \in S /\ \A x \in S : x = a \/ x = b
    OBVIOUS
<1>2. Min(S) \in S /\ \A x \in S : Min(S) <= x
    <2> HIDE DEF S
    <2> QED
        BY <1>1, SmallestNumber
<1>3. \A x \in S : x <= a + b
    OBVIOUS
<1>4. Max(S) \in S /\ \A x \in S : x <= Max(S)
    <2>1. a + b \in Int
        OBVIOUS
    <2> HIDE DEF S
    <2> QED
        BY <1>1, <1>3, <2>1, GreatestNumber
<1> DEFINE p == Max(S)
           q == Min(S)
<1> HIDE DEF p, q
<1>5. (p = a \/ p = b) /\ a <= p /\ b <= p /\ (q = a \/ q = b) /\ q <= a /\ q <= b
    BY <1>1, <1>2, <1>4 DEF p, q
<1>6. p = (IF a <= b THEN b ELSE a) /\ q = (IF a <= b THEN a ELSE b)
    BY <1>5
<1> QED
    BY <1>6 DEF p, q

\* What two intervals have in common are the instants within both.
LEMMA CommonIs ==
    ASSUME RelationInv, NEW i \in Interval, NEW j \in Interval
    PROVE  /\ Meet(i, j) => /\ Common(<<i, j>>) \in Interval
                            /\ \A t \in Int : Common(<<i, j>>)[1] <= t /\ t < Common(<<i, j>>)[2]
                                  <=> i[1] <= t /\ t < i[2] /\ j[1] <= t /\ t < j[2]
           /\ \A t \in Int : i[1] <= t /\ t < i[2] /\ j[1] <= t /\ t < j[2] => Meet(i, j)
<1>1. /\ i[1] \in Times /\ i[2] \in Times /\ i[1] < i[2] /\ j[1] \in Times /\ j[2] \in Times /\ j[1] < j[2]
      /\ Times = 0 .. Horizon /\ Horizon \in Nat
    BY RowsAre
<1> DEFINE b == Max({i[1], j[1]})
           e == Min({i[2], j[2]})
<1>2. b = (IF i[1] <= j[1] THEN j[1] ELSE i[1]) /\ e = (IF i[2] <= j[2] THEN i[2] ELSE j[2])
    <2>1. i[1] \in Nat /\ i[2] \in Nat /\ j[1] \in Nat /\ j[2] \in Nat
        BY <1>1
    <2>2. b = IF i[1] <= j[1] THEN j[1] ELSE i[1]
        BY <2>1, OfTwo
    <2>3. e = IF i[2] <= j[2] THEN i[2] ELSE j[2]
        BY <2>1, OfTwo
    <2> HIDE DEF b, e
    <2> QED
        BY <2>2, <2>3
<1>3. Common(<<i, j>>) = <<b, e>> /\ (Meet(i, j) <=> b < e)
    BY DEF Common, Meet
<1> HIDE DEF b, e
<1>4. b \in Times /\ e \in Times /\ b \in Int /\ e \in Int
    BY <1>1, <1>2
<1>5. b < e => <<b, e>> \in Interval
    BY <1>4 DEF Interval
<1>6. \A t \in Int : b <= t /\ t < e <=> i[1] <= t /\ t < i[2] /\ j[1] <= t /\ t < j[2]
    BY <1>1, <1>2
<1>7. \A t \in Int : b <= t /\ t < e => b < e
    BY <1>4
<1>8. Common(<<i, j>>)[1] = b /\ Common(<<i, j>>)[2] = e
    BY <1>3
<1> QED
    BY <1>3, <1>5, <1>6, <1>7, <1>8

\* The duration of an intersection is the number of instants covered twice.
LEMMA IntersectionIs ==
    ASSUME RelationInv, NEW S \in SUBSET Interval, NEW T \in SUBSET Interval
    PROVE  IntersectionDuration(S, T) = Cardinality(Covered(S) \cap Covered(T))
<1> DEFINE M == ToSet(Merged(S))
           N == ToSet(Merged(T))
           A == Covered(S)
           B == Covered(T)
           P == {pair \in M \X N : Meet(pair[1], pair[2])}
           c == [pair \in P |-> Within(Common(pair))]
           v == [pair \in P |-> Length(Common(pair))]
           Body(g) == [s \in SUBSET P |->
                          IF s = {} THEN 0 ELSE Length(Common(First(s))) + g[s \ {First(s)}]]
<1>1. /\ M = {i \in Interval : Maximal(i, A)} /\ A \in SUBSET Instants
      /\ \A t \in A : \E i \in M : i[1] <= t /\ t < i[2]
    BY MergedAre
<1>2. /\ N = {i \in Interval : Maximal(i, B)} /\ B \in SUBSET Instants
      /\ \A t \in B : \E i \in N : i[1] <= t /\ t < i[2]
    BY MergedAre
<1> HIDE DEF M, N, A, B
<1>i. \A t \in Instants : t \in Int
    BY RowsAre
<1>3. ASSUME NEW i \in M, NEW j \in N, Meet(i, j)
      PROVE  /\ Length(Common(<<i, j>>)) = Cardinality(Within(Common(<<i, j>>)))
             /\ Within(Common(<<i, j>>)) \in SUBSET Instants
             /\ \A t \in Instants : t \in Within(Common(<<i, j>>))
                   <=> i[1] <= t /\ t < i[2] /\ j[1] <= t /\ t < j[2]
    <2>1. i \in Interval /\ j \in Interval
        BY <1>1, <1>2
    <2>2. /\ Common(<<i, j>>) \in Interval
          /\ \A t \in Int : Common(<<i, j>>)[1] <= t /\ t < Common(<<i, j>>)[2]
                               <=> i[1] <= t /\ t < i[2] /\ j[1] <= t /\ t < j[2]
        BY <1>3, <2>1, CommonIs
    <2> QED
        BY <1>i, <2>2, LengthCounts
<1>4. ASSUME NEW p \in P
      PROVE  /\ p = <<p[1], p[2]>> /\ p[1] \in M /\ p[2] \in N
             /\ c[p] = Within(Common(p)) /\ v[p] = Length(Common(p))
             /\ v[p] = Cardinality(c[p]) /\ c[p] \in SUBSET Instants
             /\ \A t \in Instants : t \in c[p]
                   <=> p[1][1] <= t /\ t < p[1][2] /\ p[2][1] <= t /\ t < p[2][2]
    <2>1. p = <<p[1], p[2]>> /\ p[1] \in M /\ p[2] \in N /\ Meet(p[1], p[2])
        OBVIOUS
    <2>2. c[p] = Within(Common(p)) /\ v[p] = Length(Common(p))
        OBVIOUS
    <2> HIDE DEF P, c, v
    <2> QED
        BY <1>3, <2>1, <2>2
<1>m. \A i \in M, j \in N : \A t \in Int :
         i[1] <= t /\ t < i[2] /\ j[1] <= t /\ t < j[2] => <<i, j>> \in P
    <2>1. \A i \in M, j \in N : \A t \in Int :
             i[1] <= t /\ t < i[2] /\ j[1] <= t /\ t < j[2] => Meet(i, j)
        BY <1>1, <1>2, CommonIs
    <2> QED
        BY <2>1
<1>p. P \subseteq M \X N
    OBVIOUS
<1>6. \A g : Added(v, P, g) <=> g = Body(g)
    <2>1. \A s \in SUBSET P : s # {} => v[First(s)] = Length(Common(First(s)))
        <3>1. \A s \in SUBSET P : s # {} => First(s) \in P
            BY DEF First
        <3> HIDE DEF P, v
        <3> QED
            BY <1>4, <3>1
    <2> HIDE DEF v, P
    <2>2. \A g : Body(g) = [s \in SUBSET P |-> IF s = {} THEN 0 ELSE v[First(s)] + g[s \ {First(s)}]]
        BY <2>1
    <2> QED
        BY <2>2 DEF Added
<1> DEFINE g == CHOOSE f : f = Body(f)
<1>7. IntersectionDuration(S, T) = g[P]
    BY DEF IntersectionDuration, MapThenSumSet, MapThenFoldSet, First, M, N
<1> HIDE DEF Body, c, v, P
<1>8. Apart(c, P, Instants)
    <2>1. IsFiniteSet(P) /\ IsFiniteSet(Instants)
        <3>1. IsFiniteSet(M) /\ IsFiniteSet(N) /\ IsFiniteSet(Instants)
            BY <1>1, <1>2, IntervalsFinite
        <3>2. IsFiniteSet(M \X N)
            BY <3>1, FS_Product
        <3> QED
            BY <1>p, <3>1, <3>2, FS_Subset
    <2>2. ASSUME NEW p \in P, NEW q \in P, NEW t, t \in c[p], t \in c[q]
          PROVE  p = q
        <3>1. t \in Instants /\ t \in Int
            BY <1>4, <1>i, <2>2
        <3>2. /\ p[1][1] <= t /\ t < p[1][2] /\ p[2][1] <= t /\ t < p[2][2]
              /\ q[1][1] <= t /\ t < q[1][2] /\ q[2][1] <= t /\ t < q[2][2]
            BY <1>4, <2>2, <3>1
        <3>3. /\ p[1] \in Interval /\ q[1] \in Interval /\ Maximal(p[1], A) /\ Maximal(q[1], A)
              /\ p[2] \in Interval /\ q[2] \in Interval /\ Maximal(p[2], B) /\ Maximal(q[2], B)
            BY <1>1, <1>2, <1>4
        <3>4. p[1] = q[1]
            BY <3>1, <3>2, <3>3, MaximalIsOne
        <3>5. p[2] = q[2]
            BY <3>1, <3>2, <3>3, MaximalIsOne
        <3>6. p = <<p[1], p[2]>> /\ q = <<q[1], q[2]>>
            BY <1>4
        <3> QED
            BY <3>4, <3>5, <3>6
    <2>3. \A p \in P : c[p] \in SUBSET Instants
        BY <1>4
    <2> QED
        BY <2>1, <2>2, <2>3 DEF Apart
<1>9. UNION {c[p] : p \in P} = A \cap B
    <2>1. ASSUME NEW p \in P, NEW t \in c[p]
          PROVE  t \in A \cap B
        <3>1. t \in Instants
            BY <1>4
        <3>2. p[1][1] <= t /\ t < p[1][2] /\ p[2][1] <= t /\ t < p[2][2]
            BY <1>4, <3>1
        <3>3. p[1] \in Interval /\ Maximal(p[1], A) /\ p[2] \in Interval /\ Maximal(p[2], B)
            BY <1>1, <1>2, <1>4
        <3>4. t \in Within(p[1]) /\ t \in Within(p[2])
            BY <3>1, <3>2, <3>3, LengthCounts
        <3> QED
            BY <3>3, <3>4 DEF Maximal, Within
    <2>2. ASSUME NEW t \in A \cap B
          PROVE  \E p \in P : t \in c[p]
        <3>1. t \in Instants /\ t \in Int
            BY <1>1, <1>i
        <3>2. PICK i \in M : i[1] <= t /\ t < i[2]
            BY <1>1
        <3>3. PICK j \in N : j[1] <= t /\ t < j[2]
            BY <1>2
        <3>4. <<i, j>> \in P
            BY <1>m, <3>1, <3>2, <3>3
        <3> DEFINE p == <<i, j>>
        <3>5. p[1] = i /\ p[2] = j
            OBVIOUS
        <3> HIDE DEF p
        <3>6. t \in c[p]
            BY <1>4, <3>1, <3>2, <3>3, <3>4, <3>5 DEF p
        <3> QED
            BY <3>4, <3>6 DEF p
    <2> QED
        BY <2>1, <2>2
<1>10. (\E f : Added(v, P, f)) /\ \A f : Added(v, P, f) => f[P] = Cardinality(UNION {c[p] : p \in P})
    <2>1. \A p \in P : v[p] = Cardinality(c[p])
        BY <1>4
    <2> QED
        BY <1>8, <2>1, SumsCount
<1>11. g = Body(g)
    BY <1>6, <1>10
<1> HIDE DEF g
<1> QED
    BY <1>6, <1>7, <1>9, <1>10, <1>11 DEF A, B

-----------------------------------------------------------------------------
(* Drops. *)

\* What some intervals have in common with an opportunity.
Clips(V, o) == {Common(<<v, o>>) : v \in {w \in V : Meet(w, o)}}

\* Where a drop after an interval ends.
Regained(s, o, n) == IF n < Len(s) THEN s[n + 1][1] ELSE o[2]

DropsIn(s, o) ==
    {<<s[n][2], Regained(s, o, n)>> : n \in {m \in DOMAIN s : s[m][2] + Persistence <= Regained(s, o, m)}}

\* The clipped intervals cover what is covered within the opportunity.
LEMMA ClipsCover ==
    ASSUME RelationInv, NEW S \in SUBSET Interval, NEW o \in Interval
    PROVE  /\ Clips(ToSet(Merged(S)), o) \in SUBSET Interval
           /\ \A t \in Instants : t \in Covered(Clips(ToSet(Merged(S)), o))
                 <=> t \in Covered(S) /\ o[1] <= t /\ t < o[2]
<1> DEFINE V == ToSet(Merged(S))
           A == Covered(S)
           C == Clips(V, o)
<1>1. /\ V = {i \in Interval : Maximal(i, A)} /\ A \in SUBSET Instants
      /\ \A t \in A : \E i \in V : i[1] <= t /\ t < i[2]
    BY MergedAre
<1> HIDE DEF V, A
<1>2. \A v \in V : /\ Meet(v, o) => /\ Common(<<v, o>>) \in Interval
                                    /\ \A t \in Int : Common(<<v, o>>)[1] <= t /\ t < Common(<<v, o>>)[2]
                                          <=> v[1] <= t /\ t < v[2] /\ o[1] <= t /\ t < o[2]
                   /\ \A t \in Int : v[1] <= t /\ t < v[2] /\ o[1] <= t /\ t < o[2] => Meet(v, o)
    BY <1>1, CommonIs
<1>3. C \in SUBSET Interval
    BY <1>2 DEF Clips
<1>4. ASSUME NEW t \in Instants
      PROVE  t \in Covered(C) <=> t \in A /\ o[1] <= t /\ t < o[2]
    <2>1. t \in Int
        BY RowsAre
    <2>2. ASSUME NEW i \in C, i[1] <= t, t < i[2]
          PROVE  t \in A /\ o[1] <= t /\ t < o[2]
        <3>1. PICK v \in V : Meet(v, o) /\ i = Common(<<v, o>>)
            BY DEF Clips
        <3>2. v[1] <= t /\ t < v[2] /\ o[1] <= t /\ t < o[2]
            BY <1>2, <2>1, <2>2, <3>1
        <3>3. v \in Interval /\ Maximal(v, A)
            BY <1>1
        <3>4. t \in Within(v)
            BY <3>2, <3>3, LengthCounts
        <3> QED
            BY <3>2, <3>3, <3>4 DEF Maximal, Within
    <2>3. ASSUME t \in A, o[1] <= t, t < o[2]
          PROVE  \E i \in C : i[1] <= t /\ t < i[2]
        <3>1. PICK v \in V : v[1] <= t /\ t < v[2]
            BY <1>1, <2>3
        <3>2. Meet(v, o)
            BY <1>2, <2>1, <2>3, <3>1
        <3>3. Common(<<v, o>>)[1] <= t /\ t < Common(<<v, o>>)[2]
            BY <1>2, <2>1, <2>3, <3>1, <3>2
        <3>4. Common(<<v, o>>) \in C
            BY <3>2 DEF Clips
        <3> QED
            BY <3>3, <3>4
    <2> HIDE DEF C
    <2> QED
        BY <2>2, <2>3 DEF Covered
<1> QED
    BY <1>3, <1>4 DEF V, A

\* Instants that are lost within an opportunity, after an instant that is not.
Dropped(i, A, B, o) ==
    /\ i \in Interval /\ Maximal(i, B \ A) /\ i[1] + Persistence <= i[2]
    /\ i[1] - 1 \in A /\ o[1] <= i[1] - 1 /\ i[1] - 1 < o[2]

\* The drops of an opportunity are the stretches in which it goes on without.
LEMMA DropsInAre ==
    ASSUME RelationInv, NEW A \in SUBSET Instants, NEW B \in SUBSET Instants,
           NEW o \in Interval, Maximal(o, B), NEW s, Spread(s),
           \A t \in Instants : Touched(s, t) <=> t \in A /\ o[1] <= t /\ t < o[2]
    PROVE  \A x : x \in DropsIn(s, o) <=> Dropped(x, A, B, o)
<1> DEFINE N == Len(s)
           R(n) == Regained(s, o, n)
           In(n) == <<s[n][2], R(n)>>
<1>1. /\ s \in Seq(Interval) /\ DOMAIN s = 1 .. N /\ N \in Nat
      /\ \A n \in 1 .. N : s[n][1] \in Int /\ s[n][2] \in Int /\ s[n][1] < s[n][2] /\ s[n] \in Interval
      /\ \A a, b \in 1 .. N : a < b => s[a][2] < s[b][1]
    <2>1. s \in Seq(Interval)
        BY DEF Spread
    <2> QED
        BY <2>1, IntervalFields DEF Spread
<1>2. /\ Times = 0 .. Horizon /\ Instants = 0 .. Horizon - 1 /\ Horizon \in Nat
      /\ o[1] \in Times /\ o[2] \in Times /\ o[1] \in Int /\ o[2] \in Int /\ o[1] < o[2]
      /\ Persistence \in Nat /\ Persistence > 0
    BY RowsAre
<1>3. \A t \in Instants : (\E n \in 1 .. N : s[n][1] <= t /\ t < s[n][2]) <=> t \in A /\ o[1] <= t /\ t < o[2]
    BY DEF Touched
<1>4. /\ \A t \in Int : o[1] <= t /\ t < o[2] => t \in B
      /\ o[2] \notin B
    <2>1. \A t \in Int : o[1] <= t /\ t < o[2] => t \in o[1] .. o[2] - 1
        BY <1>2
    <2> QED
        BY <2>1 DEF Maximal
<1>5. \A x : x \in DropsIn(s, o) <=> \E n \in 1 .. N : s[n][2] + Persistence <= R(n) /\ x = In(n)
    BY <1>1 DEF DropsIn
<1>6. \A n \in 1 .. N : /\ n < N => R(n) = s[n + 1][1] /\ n + 1 \in 1 .. N
                        /\ n = N => R(n) = o[2]
                        /\ n < N \/ n = N
    <2> SUFFICES ASSUME NEW n \in 1 .. N
                 PROVE  /\ n < N => R(n) = s[n + 1][1] /\ n + 1 \in 1 .. N
                        /\ n = N => R(n) = o[2]
                        /\ n < N \/ n = N
        OBVIOUS
    <2>1. R(n) = IF n < N THEN s[n + 1][1] ELSE o[2]
        BY DEF Regained
    <2>2. N \in Nat
        BY <1>1
    <2> HIDE DEF N, R
    <2>3. (n < N => n + 1 \in 1 .. N) /\ (n = N => ~(n < N)) /\ (n < N \/ n = N)
        BY <2>2
    <2> QED
        BY <2>1, <2>3
<1> HIDE DEF N, R
\* each piece lies within the opportunity
<1>7. ASSUME NEW n \in 1 .. N
      PROVE  /\ o[1] <= s[n][1] /\ s[n][2] <= o[2] /\ s[n][1] >= 0 /\ s[n][2] <= Horizon
             /\ s[n][2] - 1 \in A /\ o[1] <= s[n][2] - 1 /\ s[n][2] - 1 < o[2]
    <2> DEFINE a == s[n][1]
               b == s[n][2] - 1
    <2>1. a \in Int /\ b \in Int /\ a <= b /\ a >= 0 /\ b < Horizon
        <3>1. s[n][1] \in Times /\ s[n][2] \in Times
            BY <1>1, RowsAre
        <3> QED
            BY <1>1, <1>2, <3>1
    <2>2. a \in Instants /\ b \in Instants /\ s[n][1] <= b /\ b < s[n][2] /\ a < s[n][2] /\ s[n][1] <= a
        BY <1>1, <1>2, <2>1
    <2> HIDE DEF a, b
    <2>3. o[1] <= a /\ b < o[2] /\ b \in A /\ o[1] <= b
        BY <1>3, <2>2
    <2> QED
        BY <1>1, <1>2, <2>1, <2>3 DEF a, b
\* no instant between a piece and where it is regained is valid
<1>8. ASSUME NEW n \in 1 .. N, s[n][2] < R(n)
      PROVE  /\ R(n) \in Int /\ R(n) <= o[2] /\ In(n) \in Interval
             /\ \A t \in Int : s[n][2] <= t /\ t < R(n) => t \in B \ A
             /\ R(n) \notin B \ A
    <2>1. R(n) \in Int /\ R(n) <= o[2]
        <3>1. CASE n < N
            <4>1. R(n) = s[n + 1][1] /\ n + 1 \in 1 .. N
                BY <1>6, <3>1
            <4>2. s[n + 1][1] \in Int /\ s[n + 1][2] \in Int /\ s[n + 1][1] < s[n + 1][2] /\ s[n + 1][2] <= o[2]
                BY <1>1, <1>7, <4>1
            <4> QED
                BY <1>2, <4>1, <4>2
        <3>2. CASE n = N
            BY <1>2, <1>6, <3>2
        <3> QED
            BY <1>6, <3>1, <3>2
    <2>2. ASSUME NEW t \in Int, s[n][2] <= t, t < R(n)
          PROVE  t \in B \ A
        <3>1. o[1] <= t /\ t < o[2] /\ t \in Instants
            BY <1>1, <1>2, <1>7, <2>1, <2>2
        <3>2. ASSUME NEW m \in 1 .. N, s[m][1] <= t, t < s[m][2]
              PROVE  FALSE
            <4>1. n < m
                <5>1. m # n
                    BY <1>1, <2>2, <3>2
                <5>2. ~(m < n)
                    <6> SUFFICES ASSUME m < n PROVE FALSE
                        OBVIOUS
                    <6>1. s[m][2] < s[n][1]
                        BY <1>1
                    <6> QED
                        BY <1>1, <2>2, <3>2, <6>1
                <5> QED
                    BY <5>1, <5>2
            <4>2. n < N /\ R(n) = s[n + 1][1] /\ n + 1 \in 1 .. N
                BY <1>1, <1>6, <4>1
            <4>3. CASE m = n + 1
                BY <1>1, <2>1, <2>2, <3>2, <4>2, <4>3
            <4>4. CASE n + 1 < m
                <5>1. s[n + 1][2] < s[m][1]
                    BY <1>1, <4>2, <4>4
                <5> QED
                    BY <1>1, <2>1, <2>2, <3>2, <4>2, <5>1
            <4> QED
                BY <4>1, <4>3, <4>4
        <3>3. t \notin A
            BY <1>3, <3>1, <3>2
        <3> QED
            BY <1>4, <3>1, <3>3
    <2>3. R(n) \notin B \ A
        <3>1. CASE n < N
            <4>1. R(n) = s[n + 1][1] /\ n + 1 \in 1 .. N
                BY <1>6, <3>1
            <4>2. R(n) \in Instants /\ s[n + 1][1] <= R(n) /\ R(n) < s[n + 1][2]
                BY <1>1, <1>2, <1>7, <2>1, <4>1
            <4> QED
                BY <1>3, <4>1, <4>2
        <3>2. CASE n = N
            BY <1>4, <1>6, <3>2
        <3> QED
            BY <1>6, <3>1, <3>2
    <2>4. In(n) \in Interval
        <3>1. s[n][2] \in Times /\ R(n) \in Times
            BY <1>1, <1>2, <1>7, <1>8, <2>1
        <3> QED
            BY <1>8, <3>1 DEF Interval
    <2> QED
        BY <2>1, <2>2, <2>3, <2>4
<1>9. ASSUME NEW n \in 1 .. N, s[n][2] < R(n)
      PROVE  Maximal(In(n), B \ A)
    <2>1. \A t \in s[n][2] .. R(n) - 1 : t \in B \ A
        <3>1. \A t \in s[n][2] .. R(n) - 1 : t \in Int /\ s[n][2] <= t /\ t < R(n)
            <4>1. s[n][2] \in Int /\ R(n) \in Int
                BY <1>1, <1>8, <1>9
            <4> QED
                BY <4>1
        <3> QED
            BY <1>8, <1>9, <3>1
    <2>2. s[n][2] - 1 \notin B \ A /\ R(n) \notin B \ A
        BY <1>7, <1>8, <1>9
    <2>3. In(n)[1] = s[n][2] /\ In(n)[2] = R(n)
        OBVIOUS
    <2> HIDE DEF In
    <2> QED
        BY <2>1, <2>2, <2>3 DEF Maximal
<1>10. ASSUME NEW n \in 1 .. N, s[n][2] + Persistence <= R(n)
       PROVE  Dropped(In(n), A, B, o)
    <2>1. R(n) \in Int
        <3>1. CASE n < N
            BY <1>1, <1>6, <3>1
        <3>2. CASE n = N
            BY <1>2, <1>6, <3>2
        <3> QED
            BY <1>6, <3>1, <3>2
    <2>2. s[n][2] < R(n)
        BY <1>1, <1>2, <1>10, <2>1
    <2>3. In(n)[1] = s[n][2] /\ In(n)[2] = R(n)
        OBVIOUS
    <2>4. In(n) \in Interval /\ Maximal(In(n), B \ A)
        BY <1>8, <1>9, <2>2
    <2> HIDE DEF In
    <2> QED
        BY <1>7, <1>10, <2>3, <2>4 DEF Dropped
<1>11. ASSUME NEW i, Dropped(i, A, B, o)
       PROVE  \E n \in 1 .. N : s[n][2] + Persistence <= R(n) /\ i = In(n)
    <2>1. /\ i \in Interval /\ Maximal(i, B \ A) /\ i[1] + Persistence <= i[2]
          /\ i[1] - 1 \in A /\ o[1] <= i[1] - 1 /\ i[1] - 1 < o[2]
        BY <1>11 DEF Dropped
    <2>2. i[1] \in Int /\ i[2] \in Int /\ i[1] < i[2] /\ i[1] >= 0 /\ i[2] <= Horizon
        <3>1. i[1] \in Times /\ i[2] \in Times /\ i[1] < i[2]
            BY <2>1, RowsAre
        <3> QED
            BY <1>2, <3>1
    <2>3. i[1] \in B /\ i[1] \notin A
        <3>1. i[1] \in i[1] .. i[2] - 1
            BY <2>2
        <3> QED
            BY <2>1, <3>1 DEF Maximal
    <2>4. i[1] < o[2]
        <3> SUFFICES ASSUME i[1] >= o[2] PROVE FALSE
            BY <1>2, <2>2
        <3>1. i[1] = o[2]
            BY <1>2, <2>1, <2>2
        <3> QED
            BY <1>4, <2>3, <3>1
    <2>5. PICK n \in 1 .. N : s[n][1] <= i[1] - 1 /\ i[1] - 1 < s[n][2]
        BY <1>3, <2>1
    <2>6. s[n][2] = i[1]
        <3> SUFFICES ASSUME i[1] < s[n][2] PROVE FALSE
            BY <1>1, <2>2, <2>5
        <3>1. i[1] \in Instants /\ s[n][1] <= i[1]
            BY <1>1, <1>2, <2>2, <2>5
        <3> QED
            BY <1>3, <2>3, <3>1
    <2>7. s[n][2] < R(n)
        <3>1. CASE n < N
            <4>1. R(n) = s[n + 1][1] /\ n + 1 \in 1 .. N /\ n < n + 1
                BY <1>1, <1>6, <3>1
            <4> QED
                BY <1>1, <4>1
        <3>2. CASE n = N
            BY <1>6, <2>4, <2>6, <3>2
        <3> QED
            BY <1>6, <3>1, <3>2
    <2>8. In(n) \in Interval /\ Maximal(In(n), B \ A) /\ In(n)[1] = i[1] /\ In(n)[2] = R(n) /\ R(n) \in Int
        BY <1>8, <1>9, <2>6, <2>7
    <2> DEFINE j == In(n)
               t == i[1]
    <2>9. t \in Int /\ i[1] <= t /\ t < i[2] /\ j[1] <= t /\ t < j[2]
        BY <2>2, <2>6, <2>7, <2>8
    <2> HIDE DEF j, t
    <2>10. i = j
        BY <2>1, <2>8, <2>9, MaximalIsOne DEF j
    <2> QED
        BY <2>1, <2>6, <2>8, <2>10 DEF j
<1> HIDE DEF In
<1> QED
    BY <1>5, <1>10, <1>11

\* The drops are the stretches of lost instants that begin within an opportunity.
LEMMA DropsAre ==
    ASSUME RelationInv, NEW S \in SUBSET Interval, NEW T \in SUBSET Interval
    PROVE  Drops(S, T) = {i \in Stretches(Covered(T) \ Covered(S), Persistence) :
                             i[1] - 1 \in Covered(T) \cap Covered(S)}
<1> DEFINE M == ToSet(Merged(S))
           O == ToSet(Merged(T))
           A == Covered(S)
           B == Covered(T)
           In(o) == DropsIn(Merged(Clips(M, o)), o)
<1>1. Drops(S, T) = UNION {In(o) : o \in O}
    BY DEF Drops, DropsIn, Regained, Clips
<1>2. /\ O = {i \in Interval : Maximal(i, B)} /\ B \in SUBSET Instants
      /\ \A t \in B : \E i \in O : i[1] <= t /\ t < i[2]
      /\ A \in SUBSET Instants
    BY MergedAre
<1> HIDE DEF O
<1>3. ASSUME NEW o \in O
      PROVE  \A x : x \in In(o) <=> Dropped(x, A, B, o)
    <2> DEFINE C == Clips(M, o)
               s == Merged(C)
    <2>1. o \in Interval /\ Maximal(o, B)
        BY <1>2
    <2>2. C \in SUBSET Interval /\ \A t \in Instants : t \in Covered(C) <=> t \in A /\ o[1] <= t /\ t < o[2]
        BY <2>1, ClipsCover
    <2> HIDE DEF C, A, B
    <2>3. Spread(s) /\ \A t \in Instants : Touched(s, t) <=> t \in Covered(C)
        BY <2>2, IntervalsFinite, MergedSpreads
    <2>4. \A t \in Instants : Touched(s, t) <=> t \in A /\ o[1] <= t /\ t < o[2]
        BY <2>2, <2>3
    <2> HIDE DEF s
    <2>5. \A x : x \in DropsIn(s, o) <=> Dropped(x, A, B, o)
        BY <1>2, <2>1, <2>3, <2>4, DropsInAre
    <2> QED
        BY <2>5 DEF s, C
<1>4. \A i : i \in Stretches(B \ A, Persistence)
               <=> i \in Interval /\ Maximal(i, B \ A) /\ i[1] + Persistence <= i[2]
    BY StretchesAre
<1> HIDE DEF A, B, In
<1>5. ASSUME NEW o \in O, NEW i, Dropped(i, A, B, o)
      PROVE  i \in Stretches(B \ A, Persistence) /\ i[1] - 1 \in B \cap A
    <2>1. o \in Interval /\ Maximal(o, B) /\ i[1] - 1 \in Instants
        BY <1>2, <1>5 DEF Dropped
    <2>2. i[1] - 1 \in Within(o)
        BY <1>5, <2>1, LengthCounts DEF Dropped
    <2>3. i[1] - 1 \in B
        BY <2>1, <2>2 DEF Maximal, Within
    <2> QED
        BY <1>4, <1>5, <2>3 DEF Dropped
<1>6. ASSUME NEW i \in Stretches(B \ A, Persistence), i[1] - 1 \in B \cap A
      PROVE  \E o \in O : Dropped(i, A, B, o)
    <2>1. PICK o \in O : o[1] <= i[1] - 1 /\ i[1] - 1 < o[2]
        BY <1>2, <1>6
    <2> QED
        BY <1>4, <1>6, <2>1 DEF Dropped
<1>7. \A x : x \in Drops(S, T) <=> \E o \in O : Dropped(x, A, B, o)
    BY <1>1, <1>3
<1> QED
    BY <1>5, <1>6, <1>7 DEF A, B

-----------------------------------------------------------------------------
(* Identity segments. *)

Stint == Times \X Times \X Nat

\* The parts of a stint.
LEMMA StintFields ==
    ASSUME RelationInv, NEW s \in Seq(Stint)
    PROVE  /\ Len(s) \in Nat
           /\ \A n \in 1 .. Len(s) :
                 /\ s[n] \in Stint /\ s[n] = <<s[n][1], s[n][2], s[n][3]>>
                 /\ s[n][1] \in Times /\ s[n][1] \in Int /\ s[n][2] \in Times /\ s[n][2] \in Int
                 /\ s[n][3] \in Nat
<1>1. Len(s) \in Nat /\ \A n \in 1 .. Len(s) : s[n] \in Stint
    OBVIOUS
<1>2. \A x \in Stint : x = <<x[1], x[2], x[3]>> /\ x[1] \in Times /\ x[2] \in Times /\ x[3] \in Nat
    BY DEF Stint
<1>3. \A t \in Times : t \in Int
    BY RowsAre
<1> QED
    BY <1>1, <1>2, <1>3

\* A row continues the last stint when the gap is small, or begins one.
LEMMA ContinueIs ==
    ASSUME RelationInv, NEW s \in Seq(Stint), NEW i \in Interval
    PROVE  /\ Continue(s, i) \in Seq(Stint)
           /\ s # <<>> /\ i[1] <= s[Len(s)][2] + MaxGap
                 => \E e \in Times :
                       /\ s[Len(s)][2] <= i[2] => e = i[2]
                       /\ Len(Continue(s, i)) = Len(s)
                       /\ Continue(s, i)[Len(s)] = <<s[Len(s)][1], e, s[Len(s)][3] + Length(i)>>
                       /\ \A n \in 1 .. Len(s) : n # Len(s) => Continue(s, i)[n] = s[n]
           /\ ~(s # <<>> /\ i[1] <= s[Len(s)][2] + MaxGap)
                 => /\ Len(Continue(s, i)) = Len(s) + 1
                    /\ Continue(s, i)[Len(s) + 1] = <<i[1], i[2], Length(i)>>
                    /\ \A n \in 1 .. Len(s) : Continue(s, i)[n] = s[n]
<1> DEFINE Extends == s # <<>> /\ i[1] <= s[Len(s)][2] + MaxGap
<1>1. /\ i[1] \in Times /\ i[2] \in Times /\ i[1] < i[2] /\ Times = 0 .. Horizon /\ Horizon \in Nat
      /\ Length(i) \in Nat
    <2>1. i[1] \in Times /\ i[2] \in Times /\ i[1] < i[2] /\ Times = 0 .. Horizon /\ Horizon \in Nat
        BY RowsAre
    <2> QED
        BY <2>1 DEF Length
<1>2. ASSUME Extends
      PROVE  /\ Continue(s, i) \in Seq(Stint)
             /\ \E e \in Times :
                       /\ s[Len(s)][2] <= i[2] => e = i[2]
                       /\ Len(Continue(s, i)) = Len(s)
                       /\ Continue(s, i)[Len(s)] = <<s[Len(s)][1], e, s[Len(s)][3] + Length(i)>>
                       /\ \A n \in 1 .. Len(s) : n # Len(s) => Continue(s, i)[n] = s[n]
    <2> DEFINE L == Len(s)
               b == s[L][2]
               e == Max({b, i[2]})
               x == <<s[L][1], e, s[L][3] + Length(i)>>
               f == Front(s)
    <2>1. L \in Nat /\ L \in 1 .. L /\ s[L][1] \in Times /\ b \in Times /\ s[L][3] \in Nat
        <3>1. L \in Nat /\ L \in 1 .. L
            BY <1>2
        <3> QED
            BY <3>1, StintFields
    <2>2. e = IF b <= i[2] THEN i[2] ELSE b
        <3>1. b \in Nat /\ i[2] \in Nat
            BY <1>1, <2>1
        <3> HIDE DEF b
        <3> QED
            BY <3>1, OfTwo
    <2>3. Continue(s, i) = Append(f, x)
        BY <1>2 DEF Continue, Last
    <2> HIDE DEF e
    <2>4. x \in Stint
        BY <1>1, <2>1, <2>2 DEF Stint
    <2>5. f \in Seq(Stint) /\ Len(f) = L - 1 /\ \A n \in 1 .. L - 1 : f[n] = s[n]
        <3>1. \A n \in 1 .. L - 1 : n \in 1 .. L
            BY <2>1
        <3>2. 1 \in 1 .. L + 1 /\ L - 1 \in 1 - 1 .. L
            BY <2>1
        <3>3. /\ SubSeq(s, 1, L - 1) \in Seq(Stint)
              /\ Len(SubSeq(s, 1, L - 1)) = (IF 1 <= L - 1 THEN (L - 1) - 1 + 1 ELSE 0)
              /\ \A n \in 1 .. (L - 1) - 1 + 1 : SubSeq(s, 1, L - 1)[n] = s[1 + n - 1]
            BY <3>2, SubSeqProperties
        <3>4. f = SubSeq(s, 1, L - 1)
            BY DEF Front
        <3> HIDE DEF f, L
        <3>5. \A n \in 1 .. L - 1 : n \in 1 .. (L - 1) - 1 + 1 /\ 1 + n - 1 = n
            BY <2>1
        <3> QED
            BY <2>1, <3>3, <3>4, <3>5
    <2> HIDE DEF f, x, L, b
    <2>6. /\ Append(f, x) \in Seq(Stint) /\ Len(Append(f, x)) = L /\ Append(f, x)[L] = x
          /\ \A n \in 1 .. L - 1 : Append(f, x)[n] = s[n]
        BY <2>1, <2>4, <2>5
    <2>7. \A n \in 1 .. L : n # L => n \in 1 .. L - 1
        BY <2>1
    <2>8. e \in Times /\ (b <= i[2] => e = i[2])
        BY <1>1, <2>1, <2>2
    <2> QED
        BY <2>3, <2>6, <2>7, <2>8 DEF x, L, b
<1>3. ASSUME ~Extends
      PROVE  /\ Continue(s, i) \in Seq(Stint)
             /\ Len(Continue(s, i)) = Len(s) + 1
             /\ Continue(s, i)[Len(s) + 1] = <<i[1], i[2], Length(i)>>
             /\ \A n \in 1 .. Len(s) : Continue(s, i)[n] = s[n]
    <2> DEFINE x == <<i[1], i[2], Length(i)>>
    <2>1. Continue(s, i) = Append(s, x)
        BY <1>3 DEF Continue, Last
    <2>2. x \in Stint
        BY <1>1 DEF Stint
    <2> HIDE DEF x, Extends
    <2> QED
        BY <2>1, <2>2 DEF x
<1> HIDE DEF Extends
<1>4. Continue(s, i) \in Seq(Stint)
    BY <1>2, <1>3
<1> QED
    BY <1>2, <1>3, <1>4 DEF Extends

\* The identity segments of some rows, in their order.
Stints(S) == FoldLeft(Continue, <<>>, InOrder(S))

\* The rows are continued one after the other.
LEMMA StintsUnfold ==
    ASSUME RelationInv, NEW S \in SUBSET Interval, IsFiniteSet(S)
    PROVE  \E w : /\ w[0] = <<>>
                  /\ \A n \in 1 .. Cardinality(S) :
                        w[n - 1] \in Seq(Stint) /\ w[n] = Continue(w[n - 1], InOrder(S)[n])
                  /\ w[Cardinality(S)] \in Seq(Stint) /\ Stints(S) = w[Cardinality(S)]
<1> DEFINE N == Cardinality(S)
           q == InOrder(S)
           T == Seq(Stint)
           Step(y, x) == Continue(y, x)
           Body(g) == [s \in SUBSET (1 .. N) |->
                          IF s = {} THEN <<>> ELSE Step(g[s \ {Max(s)}], q[Max(s)])]
           F == [p \in (1 .. N) \X T |-> Step(p[2], q[p[1]])]
<1>1. N \in Nat /\ DOMAIN q = 1 .. N /\ <<>> \in T
    BY InOrderLists
<1>2. F \in [(1 .. N) \X T -> T]
    <2>1. \A i \in 1 .. N : \A y \in T : Step(y, q[i]) \in T
        <3>1. \A i \in 1 .. N : q[i] \in Interval
            BY InOrderLists
        <3> HIDE DEF q, N
        <3> QED
            BY <3>1, ContinueIs
    <2> HIDE DEF Step, T, q, N
    <2> QED
        BY <2>1
<1>3. PICK h \in [SUBSET (1 .. N) -> T] :
         \A s \in SUBSET (1 .. N) : h[s] = IF s = {} THEN <<>> ELSE F[<<Max(s), h[s \ {Max(s)}]>>]
    <2> HIDE DEF F, T, N
    <2>1. FoldsOver(T, <<>>, N, F) # {}
        BY <1>1, <1>2, FoldExists
    <2> QED
        BY <2>1 DEF FoldsOver
<1> HIDE DEF Step, q
<1>4. ASSUME NEW s \in SUBSET (1 .. N), s # {}
      PROVE  F[<<Max(s), h[s \ {Max(s)}]>>] = Step(h[s \ {Max(s)}], q[Max(s)])
    <2>1. Max(s) \in s
        <3>1. s \subseteq Int /\ N \in Int /\ \A x \in s : x <= N
            BY <1>1
        <3> HIDE DEF N
        <3> QED
            BY <1>4, <3>1, GreatestNumber
    <2>2. s \ {Max(s)} \in SUBSET (1 .. N) /\ Max(s) \in 1 .. N
        BY <2>1
    <2>3. h[s \ {Max(s)}] \in T
        BY <1>3, <2>2
    <2> HIDE DEF T, N
    <2> QED
        BY <2>2, <2>3
<1>5. h = Body(h)
    <2>1. \A s \in SUBSET (1 .. N) :
             h[s] = IF s = {} THEN <<>> ELSE Step(h[s \ {Max(s)}], q[Max(s)])
        <3> HIDE DEF F, N
        <3> QED
            BY <1>3, <1>4
    <2>2. h = [s \in SUBSET (1 .. N) |-> h[s]]
        BY <1>3
    <2> QED
        BY <2>1, <2>2
<1> DEFINE g == CHOOSE f : f = Body(f)
<1>6. g = Body(g)
    <2>1. \E f : f = Body(f)
        BY <1>5
    <2> HIDE DEF Body
    <2> QED
        BY <2>1
<1>7. Stints(S) = g[1 .. N]
    BY <1>1 DEF Stints, FoldLeft, MapThenFoldSet, Step, q
<1> HIDE DEF g
<1>8. \A s \in SUBSET (1 .. N) : g[s] = IF s = {} THEN <<>> ELSE Step(g[s \ {Max(s)}], q[Max(s)])
    BY <1>6
<1> HIDE DEF N
<1> DEFINE w == [n \in 0 .. N |-> g[1 .. n]]
<1>9. w[0] = <<>>
    <2>1. 1 .. 0 = {} /\ {} \in SUBSET (1 .. N) /\ 0 \in 0 .. N
        BY <1>1
    <2> QED
        BY <1>8, <2>1
<1>10. ASSUME NEW n \in 1 .. N
       PROVE  w[n] = Step(w[n - 1], q[n])
    <2>1. n \in Nat /\ n > 0 /\ n \in 0 .. N /\ n - 1 \in 0 .. N
        BY <1>1
    <2>2. 1 .. n # {} /\ Max(1 .. n) = n /\ (1 .. n) \ {n} = 1 .. n - 1
        BY <2>1, Initial
    <2>3. 1 .. n \in SUBSET (1 .. N)
        BY <1>1
    <2>4. g[1 .. n] = Step(g[1 .. n - 1], q[n])
        BY <1>8, <2>2, <2>3
    <2> QED
        BY <2>1, <2>4
<1>11. w[N] = g[1 .. N]
    BY <1>1
<1> HIDE DEF w
<1>12. \A n \in 0 .. N : w[n] \in T
    <2> DEFINE Good == {n \in Nat : n <= N => w[n] \in T}
    <2> HIDE DEF T
    <2>1. 0 \in Good
        BY <1>1, <1>9
    <2>2. ASSUME NEW n \in Nat, n \in Good
          PROVE  n + 1 \in Good
        <3> SUFFICES ASSUME n + 1 <= N PROVE w[n + 1] \in T
            OBVIOUS
        <3>1. w[n] \in T /\ n + 1 \in 1 .. N /\ (n + 1) - 1 = n
            BY <1>1, <2>2
        <3>2. w[n + 1] = Step(w[n], q[n + 1])
            BY <1>10, <3>1
        <3>3. F[<<n + 1, w[n]>>] \in T /\ F[<<n + 1, w[n]>>] = Step(w[n], q[n + 1])
            <4>1. <<n + 1, w[n]>> \in (1 .. N) \X T
                BY <3>1
            <4> QED
                BY <1>2, <4>1
        <3> QED
            BY <3>2, <3>3
    <2> HIDE DEF Good
    <2>3. Nat \subseteq Good
        BY <2>1, <2>2, NaturalInduction
    <2> QED
        BY <1>1, <2>3 DEF Good
<1>13. \A n \in 1 .. N : n - 1 \in 0 .. N
    BY <1>1
<1>14. N \in 0 .. N
    BY <1>1
<1> QED
    BY <1>7, <1>9, <1>10, <1>11, <1>12, <1>13, <1>14 DEF Step, q, N

\* The instant lies between two of the instants that are no further apart than the gap.
Bridged(A, t) == \E u, v \in A : u <= t /\ t <= v /\ v - u <= MaxGap + 1

\* Stints that join the instants across small gaps and count them, and are
\* themselves further apart.
Joined(s, A) ==
    /\ s \in Seq(Stint)
    /\ \A a \in 1 .. Len(s) :
          /\ s[a][1] < s[a][2] /\ s[a][1] \in A /\ s[a][2] - 1 \in A
          /\ s[a][3] = Cardinality(A \cap s[a][1] .. s[a][2] - 1)
          /\ \A t \in Instants : s[a][1] <= t /\ t < s[a][2] => Bridged(A, t)
    /\ \A a, b \in 1 .. Len(s) : a < b => s[a][2] + MaxGap < s[b][1]
    /\ \A t \in A : \E a \in 1 .. Len(s) : s[a][1] <= t /\ t < s[a][2]

\* Instants of two kinds are counted one kind after the other.
LEMMA CountsJoin ==
    ASSUME RelationInv, NEW X \in SUBSET Instants, NEW Y \in SUBSET Instants, X \cap Y = {}
    PROVE  Cardinality(X \cup Y) = Cardinality(X) + Cardinality(Y)
<1>1. IsFiniteSet(X) /\ IsFiniteSet(Y)
    BY IntervalsFinite, FS_Subset
<1>2. Cardinality(X \cap Y) = 0
    BY FS_EmptySet
<1>3. Cardinality(X \cup Y) = Cardinality(X) + Cardinality(Y) - Cardinality(X \cap Y)
    BY <1>1, FS_Union
<1>4. Cardinality(X) \in Nat /\ Cardinality(Y) \in Nat
    BY <1>1, FS_CardinalityType
<1> QED
    BY <1>2, <1>3, <1>4

\* A later row is joined to the stints so far.
LEMMA ContinueKeeps ==
    ASSUME RelationInv, NEW A \in SUBSET Instants, NEW s, Joined(s, A),
           NEW i \in Interval, \A t \in A : t < i[1]
    PROVE  Joined(Continue(s, i), A \cup Within(i))
<1> DEFINE L == Len(s)
           z == Continue(s, i)
           W == Within(i)
           B == A \cup W
           Extends == s # <<>> /\ i[1] <= s[L][2] + MaxGap
           Seg(q, n) == q[n][1] .. q[n][2] - 1
<1>1. /\ s \in Seq(Stint) /\ L \in Nat /\ (s # <<>> => L \in 1 .. L)
      /\ \A a \in 1 .. L : /\ s[a] = <<s[a][1], s[a][2], s[a][3]>>
                           /\ s[a][1] \in Int /\ s[a][2] \in Int /\ s[a][3] \in Nat
    <2>1. s \in Seq(Stint)
        BY DEF Joined
    <2> QED
        BY <2>1, StintFields
<1>2. /\ \A a \in 1 .. L : s[a][1] < s[a][2] /\ s[a][1] \in A /\ s[a][2] - 1 \in A
      /\ \A a \in 1 .. L : s[a][3] = Cardinality(A \cap Seg(s, a))
      /\ \A a \in 1 .. L : \A t \in Instants : s[a][1] <= t /\ t < s[a][2] => Bridged(A, t)
      /\ \A a, b \in 1 .. L : a < b => s[a][2] + MaxGap < s[b][1]
      /\ \A t \in A : \E a \in 1 .. L : s[a][1] <= t /\ t < s[a][2]
    BY DEF Joined
<1>3. /\ i[1] \in Int /\ i[2] \in Int /\ i[1] < i[2] /\ i[1] >= 0 /\ i[2] <= Horizon /\ MaxGap \in Nat
      /\ Instants = 0 .. Horizon - 1 /\ Horizon \in Nat /\ \A t \in Instants : t \in Int
    <2>1. /\ i[1] \in Times /\ i[2] \in Times /\ i[1] < i[2] /\ Times = 0 .. Horizon
          /\ Instants = 0 .. Horizon - 1 /\ Horizon \in Nat /\ MaxGap \in Nat
        BY RowsAre
    <2> QED
        BY <2>1
<1>4. /\ W \in SUBSET Instants /\ \A t \in Instants : t \in W <=> i[1] <= t /\ t < i[2]
      /\ Length(i) = Cardinality(W) /\ i[1] \in W /\ i[2] - 1 \in W
    BY <1>3, LengthCounts
<1>5. \A t : Bridged(A, t) => Bridged(B, t)
    BY DEF Bridged
<1>6. \A t \in W : t \in Int /\ Bridged(B, t)
    <2> SUFFICES ASSUME NEW t \in W PROVE t \in Int /\ Bridged(B, t)
        OBVIOUS
    <2>1. t \in Int /\ t \in B
        BY <1>3, <1>4
    <2>2. t <= t /\ t - t <= MaxGap + 1
        BY <1>3, <2>1
    <2> HIDE DEF B
    <2> QED
        BY <2>1, <2>2 DEF Bridged
<1>7. z \in Seq(Stint) /\ B \in SUBSET Instants /\ \A t \in A : t \in Int /\ t < i[1] /\ t \in B
    BY <1>1, <1>3, <1>4, ContinueIs
\* what is not touched stays as it was
<1>8. ASSUME NEW a \in 1 .. L
      PROVE  /\ s[a][2] <= i[1]
             /\ s[a][3] = Cardinality(B \cap Seg(s, a))
             /\ \A t \in Instants : s[a][1] <= t /\ t < s[a][2] => Bridged(B, t)
    <2>1. s[a][2] - 1 < i[1]
        BY <1>2
    <2>2. s[a][2] <= i[1]
        BY <1>1, <1>3, <2>1
    <2>3. B \cap Seg(s, a) = A \cap Seg(s, a)
        <3> SUFFICES ASSUME NEW t \in W, t \in s[a][1] .. s[a][2] - 1 PROVE FALSE
            OBVIOUS
        <3>1. i[1] <= t /\ t \in Int
            BY <1>3, <1>4
        <3> QED
            BY <1>1, <1>3, <2>2, <3>1
    <2> HIDE DEF Seg, B
    <2> QED
        BY <1>2, <1>5, <2>2, <2>3
<1>w. z = Continue(s, i) /\ W = Within(i)
    OBVIOUS
<1> HIDE DEF z, W
<1>9. CASE Extends
    <2> DEFINE x == <<s[L][1], i[2], s[L][3] + Length(i)>>
    <2>1. L \in 1 .. L
        BY <1>1, <1>9
    <2>2. Len(z) = L /\ z[L] = x /\ \A n \in 1 .. L : n # L => z[n] = s[n]
        <3>1. s[L][2] <= i[2]
            <4>1. s[L][2] <= i[1] /\ s[L][2] \in Int
                BY <1>1, <1>8, <2>1
            <4> QED
                BY <1>3, <4>1
        <3>2. \E e \in Times :
                       /\ s[L][2] <= i[2] => e = i[2]
                       /\ Len(Continue(s, i)) = L
                       /\ Continue(s, i)[L] = <<s[L][1], e, s[L][3] + Length(i)>>
                       /\ \A n \in 1 .. L : n # L => Continue(s, i)[n] = s[n]
            BY <1>1, <1>9, ContinueIs
        <3> HIDE DEF L
        <3> QED
            BY <3>1, <3>2 DEF z
    <2>3. x[1] = s[L][1] /\ x[2] = i[2] /\ x[3] = s[L][3] + Length(i)
        OBVIOUS
    <2>4. i[1] <= s[L][2] + MaxGap
        BY <1>9
    <2> HIDE DEF x, L, Extends
    <2>5. \A n \in 1 .. L : z[n][1] = s[n][1]
        BY <2>2, <2>3
    <2>6. ASSUME NEW a \in 1 .. L
          PROVE  /\ z[a][1] < z[a][2] /\ z[a][1] \in B /\ z[a][2] - 1 \in B
                 /\ z[a][3] = Cardinality(B \cap Seg(z, a))
                 /\ \A t \in Instants : z[a][1] <= t /\ t < z[a][2] => Bridged(B, t)
        <3>1. CASE a # L
            <4>1. z[a] = s[a]
                BY <2>2, <3>1
            <4>2. Seg(z, a) = Seg(s, a)
                BY <4>1
            <4> HIDE DEF Seg, B
            <4> QED
                BY <1>2, <1>7, <1>8, <4>1, <4>2
        <3>2. CASE a = L
            <4>1. z[L][1] = s[L][1] /\ z[L][2] = i[2] /\ z[L][3] = s[L][3] + Length(i)
                BY <2>2, <2>3
            <4>2. /\ s[L][1] \in Int /\ s[L][2] \in Int /\ s[L][1] < s[L][2] /\ s[L][2] <= i[1]
                  /\ s[L][1] \in A /\ s[L][2] - 1 \in A
                BY <1>1, <1>2, <1>8, <2>1
            <4>3. \A t \in A : s[L][1] <= t => t < s[L][2]
                <5> SUFFICES ASSUME NEW t \in A, s[L][1] <= t PROVE t < s[L][2]
                    OBVIOUS
                <5>1. PICK b \in 1 .. L : s[b][1] <= t /\ t < s[b][2]
                    BY <1>2
                <5>2. CASE b = L
                    BY <5>1, <5>2
                <5>3. CASE b < L
                    <6>1. s[b][2] + MaxGap < s[L][1] /\ s[b][2] \in Int /\ t \in Int
                        BY <1>1, <1>2, <1>7, <2>1, <5>3
                    <6> QED
                        BY <1>3, <4>2, <5>1, <6>1
                <5> QED
                    BY <1>1, <5>2, <5>3 DEF L
            <4>4. B \cap Seg(z, L) = (A \cap Seg(s, L)) \cup W
                <5>1. ASSUME NEW t \in B
                      PROVE  t \in z[L][1] .. z[L][2] - 1 <=> t \in s[L][1] .. s[L][2] - 1 \/ t \in W
                    <6>1. CASE t \in W
                        <7>1. t \in Int /\ i[1] <= t /\ t < i[2]
                            BY <1>4, <1>6, <6>1
                        <7> QED
                            BY <1>3, <4>1, <4>2, <6>1, <7>1
                    <6>2. CASE t \in A /\ t \notin W
                        <7>1. t \in Int /\ t < i[1]
                            BY <1>7, <6>2
                        <7> QED
                            BY <1>3, <4>1, <4>2, <4>3, <6>2, <7>1
                    <6> QED
                        BY <6>1, <6>2
                <5>2. \A t \in A : t \in W => FALSE
                    BY <1>3, <1>4, <1>7
                <5>3. \A t \in W : ~(t \in s[L][1] .. s[L][2] - 1)
                    <6> SUFFICES ASSUME NEW t \in W, t \in s[L][1] .. s[L][2] - 1 PROVE FALSE
                        OBVIOUS
                    <6>1. t \in Int /\ i[1] <= t
                        BY <1>4, <1>6
                    <6> QED
                        BY <1>3, <4>2, <6>1
                <5> QED
                    BY <5>1, <5>2, <5>3
            <4>5. (A \cap Seg(s, L)) \cap W = {}
                <5>1. \A t \in A : t \in W => FALSE
                    BY <1>3, <1>4, <1>7
                <5> QED
                    BY <5>1
            <4>6. Cardinality(B \cap Seg(z, L)) = Cardinality(A \cap Seg(s, L)) + Cardinality(W)
                <5> DEFINE X == A \cap Seg(s, L)
                <5>1. X \in SUBSET Instants /\ W \in SUBSET Instants /\ X \cap W = {}
                    BY <1>4, <4>5
                <5> HIDE DEF X
                <5>2. Cardinality(X \cup W) = Cardinality(X) + Cardinality(W)
                    BY <5>1, CountsJoin
                <5> QED
                    BY <4>4, <5>2 DEF X
            <4>7. s[L][3] = Cardinality(A \cap Seg(s, L))
                BY <1>2, <2>1
            <4>8. z[L][3] = Cardinality(B \cap Seg(z, L))
                BY <1>4, <4>1, <4>6, <4>7
            <4>9. ASSUME NEW t \in Instants, s[L][1] <= t, t < i[2]
                  PROVE  Bridged(B, t)
                <5>1. t \in Int
                    BY <1>3
                <5>2. CASE t < s[L][2]
                    BY <1>8, <2>1, <4>9, <5>2
                <5>3. CASE i[1] <= t
                    <6>1. t \in W
                        BY <1>4, <4>9, <5>3
                    <6> QED
                        BY <1>6, <6>1
                <5>4. CASE s[L][2] <= t /\ t < i[1]
                    <6> DEFINE u == s[L][2] - 1
                               v == i[1]
                    <6>1. u <= t /\ t <= v /\ v - u <= MaxGap + 1
                        BY <1>3, <2>4, <4>2, <5>1, <5>4
                    <6>2. u \in B /\ v \in B
                        BY <1>4, <4>2
                    <6> HIDE DEF u, v, B
                    <6> QED
                        BY <6>1, <6>2 DEF Bridged
                <5> QED
                    BY <1>3, <4>2, <5>1, <5>2, <5>3, <5>4
            <4>10. z[L][1] < z[L][2] /\ z[L][1] \in B /\ z[L][2] - 1 \in B
                BY <1>3, <1>4, <4>1, <4>2
            <4>11. \A t \in Instants : z[L][1] <= t /\ t < z[L][2] => Bridged(B, t)
                BY <4>1, <4>9
            <4> HIDE DEF B, Seg
            <4> QED
                BY <3>2, <4>8, <4>10, <4>11
        <3> QED
            BY <3>1, <3>2
    <2>7. ASSUME NEW a \in 1 .. L, NEW b \in 1 .. L, a < b
          PROVE  z[a][2] + MaxGap < z[b][1]
        <3>1. a # L
            BY <1>1, <2>7 DEF L
        <3> QED
            BY <1>2, <2>2, <2>5, <2>7, <3>1
    <2>8. ASSUME NEW t \in B
          PROVE  \E a \in 1 .. L : z[a][1] <= t /\ t < z[a][2]
        <3>1. CASE t \in W
            <4>1. i[1] <= t /\ t < i[2] /\ t \in Int
                BY <1>4, <1>6, <3>1
            <4>2. s[L][1] <= t
                <5>1. s[L][1] < i[1] /\ s[L][1] \in Int
                    BY <1>1, <1>2, <2>1
                <5> QED
                    BY <1>3, <4>1, <5>1
            <4>3. z[L][1] <= t /\ t < z[L][2]
                BY <2>2, <2>3, <4>1, <4>2
            <4> QED
                BY <2>1, <4>3
        <3>2. CASE t \in A
            <4>1. PICK a \in 1 .. L : s[a][1] <= t /\ t < s[a][2]
                BY <1>2, <3>2
            <4>2. CASE a # L
                BY <2>2, <4>1, <4>2
            <4>3. CASE a = L
                <5>1. t \in Int /\ t < i[1]
                    BY <1>7, <3>2
                <5>2. t < i[2]
                    BY <1>3, <5>1
                <5> QED
                    BY <2>2, <2>3, <4>1, <4>3, <5>2
            <4> QED
                BY <4>2, <4>3
        <3> QED
            BY <3>1, <3>2
    <2>9. Joined(z, B)
        <3> HIDE DEF B
        <3> QED
            BY <1>7, <2>2, <2>6, <2>7, <2>8 DEF Joined
    <2> QED
        BY <1>w, <2>9
<1>10. CASE ~Extends
    <2> DEFINE x == <<i[1], i[2], Length(i)>>
    <2>1. Len(z) = L + 1 /\ z[L + 1] = x /\ \A n \in 1 .. L : z[n] = s[n]
        BY <1>1, <1>10, ContinueIs DEF z
    <2>2. x[1] = i[1] /\ x[2] = i[2] /\ x[3] = Length(i)
        OBVIOUS
    <2>3. \A a \in 1 .. L : s[a][2] + MaxGap < i[1]
        <3> SUFFICES ASSUME NEW a \in 1 .. L PROVE s[a][2] + MaxGap < i[1]
            OBVIOUS
        <3>1. L \in 1 .. L /\ s # <<>>
            BY <1>1
        <3>2. s[L][2] + MaxGap < i[1]
            <4>1. s[L][2] \in Int /\ ~(i[1] <= s[L][2] + MaxGap)
                BY <1>1, <1>10, <3>1
            <4> HIDE DEF L
            <4> QED
                BY <1>3, <4>1
        <3> HIDE DEF L
        <3>3. CASE a = L
            BY <3>2, <3>3
        <3>4. CASE a < L
            <4>1. /\ s[a][2] + MaxGap < s[L][1] /\ s[L][1] < s[L][2] /\ s[L][1] \in Int /\ s[L][2] \in Int
                  /\ s[a][2] \in Int
                BY <1>1, <1>2, <3>1, <3>4
            <4> DEFINE b == s[a][2]
                       c == s[L][1]
                       d == s[L][2]
            <4> HIDE DEF b, c, d
            <4>2. b + MaxGap < c /\ c < d /\ d + MaxGap < i[1] /\ b \in Int /\ c \in Int /\ d \in Int
                BY <3>2, <4>1 DEF b, c, d
            <4>3. b + MaxGap < i[1]
                BY <1>3, <4>2
            <4> QED
                BY <4>3 DEF b
        <3> QED
            BY <1>1, <3>3, <3>4 DEF L
    <2> HIDE DEF x, L, Extends
    <2>n. L \in Nat
        BY <1>1 DEF L
    <2>4. \A n \in 1 .. L + 1 : n \in 1 .. L \/ n = L + 1
        BY <2>n
    <2>5. L + 1 \in 1 .. L + 1 /\ \A n \in 1 .. L : n \in 1 .. L + 1
        BY <2>n
    <2>6. ASSUME NEW a \in 1 .. L + 1
          PROVE  /\ z[a][1] < z[a][2] /\ z[a][1] \in B /\ z[a][2] - 1 \in B
                 /\ z[a][3] = Cardinality(B \cap Seg(z, a))
                 /\ \A t \in Instants : z[a][1] <= t /\ t < z[a][2] => Bridged(B, t)
        <3>1. CASE a \in 1 .. L
            <4>1. z[a] = s[a]
                BY <2>1, <3>1
            <4>2. Seg(z, a) = Seg(s, a)
                BY <4>1
            <4> HIDE DEF Seg, B
            <4> QED
                BY <1>2, <1>7, <1>8, <3>1, <4>1, <4>2
        <3>2. CASE a = L + 1
            <4>1. z[a][1] = i[1] /\ z[a][2] = i[2] /\ z[a][3] = Length(i)
                BY <2>1, <2>2, <3>2
            <4>2. B \cap Seg(z, a) = W
                <5>1. Seg(z, a) = W
                    BY <4>1 DEF W, Within
                <5> QED
                    BY <5>1
            <4>3. z[a][1] < z[a][2] /\ z[a][1] \in B /\ z[a][2] - 1 \in B
                BY <1>3, <1>4, <4>1
            <4>4. \A t \in Instants : z[a][1] <= t /\ t < z[a][2] => Bridged(B, t)
                BY <1>4, <1>6, <4>1
            <4> HIDE DEF B, Seg
            <4> QED
                BY <1>4, <4>1, <4>2, <4>3, <4>4
        <3> QED
            BY <2>4, <3>1, <3>2
    <2>7. ASSUME NEW a \in 1 .. L + 1, NEW b \in 1 .. L + 1, a < b
          PROVE  z[a][2] + MaxGap < z[b][1]
        <3>1. a \in 1 .. L
            BY <2>n, <2>7
        <3>2. CASE b \in 1 .. L
            BY <1>2, <2>1, <2>7, <3>1, <3>2 DEF L
        <3>3. CASE b = L + 1
            BY <2>1, <2>2, <2>3, <3>1, <3>3
        <3> QED
            BY <2>4, <3>2, <3>3
    <2>8. ASSUME NEW t \in B
          PROVE  \E a \in 1 .. L + 1 : z[a][1] <= t /\ t < z[a][2]
        <3>1. CASE t \in W
            <4>1. i[1] <= t /\ t < i[2]
                BY <1>4, <3>1
            <4>2. z[L + 1][1] <= t /\ t < z[L + 1][2]
                BY <2>1, <2>2, <4>1
            <4> QED
                BY <2>5, <4>2
        <3>2. CASE t \in A
            <4>1. PICK a \in 1 .. L : s[a][1] <= t /\ t < s[a][2]
                BY <1>2, <3>2 DEF L
            <4> QED
                BY <2>1, <2>5, <4>1
        <3> QED
            BY <3>1, <3>2
    <2>9. Joined(z, B)
        <3> HIDE DEF B
        <3> QED
            BY <1>7, <2>1, <2>6, <2>7, <2>8 DEF Joined
    <2> QED
        BY <1>w, <2>9
<1> QED
    BY <1>9, <1>10

\* The rows of a pair that says once what belongs together do not overlap.
LEMMA OnceOnlyApart ==
    ASSUME RelationInv, NEW p, OnceOnly(p)
    PROVE  \A i, j \in SpansOf({p}) : i = j \/ i[2] <= j[1] \/ j[2] <= i[1]
<1> SUFFICES ASSUME NEW i \in SpansOf({p}), NEW j \in SpansOf({p}), i # j
             PROVE  i[2] <= j[1] \/ j[2] <= i[1]
    OBVIOUS
<1>1. PICK r \in relation : <<r.track, r.target>> = p /\ i = r.span
    BY DEF SpansOf
<1>2. PICK s \in relation : <<s.track, s.target>> = p /\ j = s.span
    BY DEF SpansOf
<1>3. ~Meet(i, j)
    BY <1>1, <1>2 DEF OnceOnly
<1>4. /\ i[1] \in Nat /\ i[2] \in Nat /\ j[1] \in Nat /\ j[2] \in Nat /\ i[1] < i[2] /\ j[1] < j[2]
    BY <1>1, <1>2, RowsAre
<1>5. /\ Max({i[1], j[1]}) = (IF i[1] <= j[1] THEN j[1] ELSE i[1])
      /\ Min({i[2], j[2]}) = (IF i[2] <= j[2] THEN i[2] ELSE j[2])
    BY <1>4, OfTwo
<1> QED
    BY <1>3, <1>4, <1>5 DEF Meet

\* The stints join what rows cover that do not overlap.
LEMMA StintsJoin ==
    ASSUME RelationInv, NEW S \in SUBSET Interval,
           \A i, j \in S : i = j \/ i[2] <= j[1] \/ j[2] <= i[1]
    PROVE  Joined(Stints(S), Covered(S))
<1> DEFINE N == Cardinality(S)
           q == InOrder(S)
<1>1. /\ N \in Nat /\ \A n \in 1 .. N : q[n] \in S /\ q[n] \in Interval
      /\ \A i \in S : \E n \in 1 .. N : q[n] = i
      /\ \A n, k \in 1 .. N : n < k => Before(q[n], q[k])
    BY IntervalsFinite, InOrderLists
<1>2. PICK w : /\ w[0] = <<>>
               /\ \A n \in 1 .. N : w[n - 1] \in Seq(Stint) /\ w[n] = Continue(w[n - 1], q[n])
               /\ w[N] \in Seq(Stint) /\ Stints(S) = w[N]
    BY IntervalsFinite, StintsUnfold
<1> HIDE DEF N, q
<1>3. \A n, k \in 1 .. N : n < k => q[n][2] <= q[k][1]
    <2> SUFFICES ASSUME NEW n \in 1 .. N, NEW k \in 1 .. N, n < k
                 PROVE  q[n][2] <= q[k][1]
        OBVIOUS
    <2>1. q[n] = q[k] \/ q[n][2] <= q[k][1] \/ q[k][2] <= q[n][1]
        BY <1>1
    <2>2. Before(q[n], q[k])
        BY <1>1
    <2>3. /\ q[n][1] \in Int /\ q[n][2] \in Int /\ q[n][1] < q[n][2]
          /\ q[k][1] \in Int /\ q[k][2] \in Int /\ q[k][1] < q[k][2]
        BY <1>1, RowsAre
    <2> QED
        BY <2>1, <2>2, <2>3 DEF Before
<1> DEFINE P(n) == {t \in Instants : \E k \in 1 .. n : q[k][1] <= t /\ t < q[k][2]}
           Good == {n \in Nat : n <= N => Joined(w[n], P(n))}
<1>4. 0 \in Good
    <2>1. <<>> \in Seq(Stint) /\ Len(<<>>) = 0
        OBVIOUS
    <2>2. Joined(<<>>, {})
        BY <2>1 DEF Joined
    <2>3. P(0) = {}
        OBVIOUS
    <2> HIDE DEF P
    <2> QED
        BY <1>2, <2>2, <2>3
<1>5. ASSUME NEW n \in Nat, n \in Good
      PROVE  n + 1 \in Good
    <2> SUFFICES ASSUME n + 1 <= N PROVE Joined(w[n + 1], P(n + 1))
        OBVIOUS
    <2>1. n <= N /\ n + 1 \in 1 .. N /\ (n + 1) - 1 = n
        BY <1>1
    <2>2. Joined(w[n], P(n))
        BY <1>5, <2>1
    <2> HIDE DEF Good
    <2>3. w[n + 1] = Continue(w[n], q[n + 1]) /\ q[n + 1] \in Interval
        BY <1>1, <1>2, <2>1
    <2>4. \A t \in P(n) : t < q[n + 1][1]
        <3> SUFFICES ASSUME NEW t \in P(n) PROVE t < q[n + 1][1]
            OBVIOUS
        <3>1. PICK k \in 1 .. n : q[k][1] <= t /\ t < q[k][2]
            OBVIOUS
        <3>2. k \in 1 .. N /\ k < n + 1
            BY <1>1, <2>1
        <3>3. q[k][2] <= q[n + 1][1] /\ q[k][2] \in Int /\ q[n + 1][1] \in Int /\ t \in Int
            BY <1>1, <1>3, <2>1, <3>2, RowsAre
        <3> QED
            BY <3>1, <3>3
    <2>5. P(n + 1) = P(n) \cup Within(q[n + 1])
        <3>1. \A k : k \in 1 .. n + 1 <=> k \in 1 .. n \/ k = n + 1
            OBVIOUS
        <3>2. /\ Within(q[n + 1]) \in SUBSET Instants
              /\ \A t \in Instants : t \in Within(q[n + 1]) <=> q[n + 1][1] <= t /\ t < q[n + 1][2]
            BY <2>3, LengthCounts
        <3> QED
            BY <3>1, <3>2
    <2>6. P(n) \in SUBSET Instants
        OBVIOUS
    <2> HIDE DEF P
    <2>7. Joined(Continue(w[n], q[n + 1]), P(n) \cup Within(q[n + 1]))
        BY <2>2, <2>3, <2>4, <2>6, ContinueKeeps
    <2> QED
        BY <2>3, <2>5, <2>7
<1> HIDE DEF Good
<1>6. Nat \subseteq Good
    BY <1>4, <1>5, NaturalInduction
<1>8. P(N) = Covered(S)
    BY <1>1 DEF Covered
<1> HIDE DEF P
<1>7. Joined(w[N], P(N))
    <2>1. N \in Good /\ N <= N
        BY <1>1, <1>6
    <2> QED
        BY <2>1 DEF Good
<1> QED
    BY <1>2, <1>7, <1>8

Near(A) == {t \in Instants : Bridged(A, t)}

\* Stints are the maximal stretches of instants joined across small gaps.
LEMMA StintsAre ==
    ASSUME RelationInv, NEW A \in SUBSET Instants, NEW s, Joined(s, A)
    PROVE  /\ \A a \in 1 .. Len(s) :
                 <<s[a][1], s[a][2]>> \in Interval /\ Maximal(<<s[a][1], s[a][2]>>, Near(A))
           /\ \A i \in Interval : Maximal(i, Near(A))
                 => \E a \in 1 .. Len(s) : i[1] = s[a][1] /\ i[2] = s[a][2]
<1> DEFINE L == Len(s)
<1>1. /\ L \in Nat
      /\ \A a \in 1 .. L : s[a][1] \in Int /\ s[a][2] \in Int /\ s[a][1] \in Times /\ s[a][2] \in Times
    <2>1. s \in Seq(Stint)
        BY DEF Joined
    <2> QED
        BY <2>1, StintFields
<1>2. /\ \A a \in 1 .. L : s[a][1] < s[a][2] /\ s[a][1] \in A /\ s[a][2] - 1 \in A
      /\ \A a \in 1 .. L : \A t \in Instants : s[a][1] <= t /\ t < s[a][2] => Bridged(A, t)
      /\ \A a, b \in 1 .. L : a < b => s[a][2] + MaxGap < s[b][1]
      /\ \A t \in A : \E a \in 1 .. L : s[a][1] <= t /\ t < s[a][2]
    BY DEF Joined
<1>3. /\ MaxGap \in Nat /\ Times = 0 .. Horizon /\ Instants = 0 .. Horizon - 1 /\ Horizon \in Nat
      /\ \A t \in Instants : t \in Int
    BY RowsAre
<1> HIDE DEF L
\* both sides of a small gap are in the same stint
<1>4. ASSUME NEW t \in Int, Bridged(A, t)
      PROVE  \E a \in 1 .. L : s[a][1] <= t /\ t < s[a][2]
    <2>1. PICK u \in A, v \in A : u <= t /\ t <= v /\ v - u <= MaxGap + 1
        BY <1>4 DEF Bridged
    <2>2. PICK a \in 1 .. L : s[a][1] <= u /\ u < s[a][2]
        BY <1>2
    <2>3. PICK b \in 1 .. L : s[b][1] <= v /\ v < s[b][2]
        BY <1>2
    <2>4. u \in Int /\ v \in Int
        BY <1>3
    <2>5. ~(a < b)
        <3> SUFFICES ASSUME a < b PROVE FALSE
            OBVIOUS
        <3>1. s[a][2] + MaxGap < s[b][1] /\ s[a][2] \in Int /\ s[b][1] \in Int /\ MaxGap \in Int
            BY <1>1, <1>2, <1>3
        <3>2. u < s[a][2] /\ s[b][1] <= v /\ v - u <= MaxGap + 1
            BY <2>1, <2>2, <2>3
        <3> QED
            BY <2>4, <3>1, <3>2
    <2>6. ~(b < a)
        <3> SUFFICES ASSUME b < a PROVE FALSE
            OBVIOUS
        <3>1. s[b][2] + MaxGap < s[a][1] /\ s[b][2] \in Int /\ s[a][1] \in Int
            BY <1>1, <1>2
        <3> QED
            BY <1>3, <2>1, <2>2, <2>3, <2>4, <3>1
    <2>7. a = b
        BY <1>1, <2>5, <2>6
    <2>8. s[a][1] \in Int /\ s[a][2] \in Int
        BY <1>1
    <2>9. s[a][1] <= t /\ t < s[a][2]
        BY <2>1, <2>2, <2>3, <2>4, <2>7, <2>8
    <2> QED
        BY <2>9
<1>5. ASSUME NEW a \in 1 .. L
      PROVE  <<s[a][1], s[a][2]>> \in Interval /\ Maximal(<<s[a][1], s[a][2]>>, Near(A))
    <2> DEFINE b == s[a][1]
               e == s[a][2]
    <2>1. b \in Int /\ e \in Int /\ b < e /\ b \in Times /\ e \in Times /\ b >= 0 /\ e <= Horizon
        BY <1>1, <1>2, <1>3
    <2>2. \A t \in b .. e - 1 : t \in Near(A)
        <3>1. \A t \in b .. e - 1 : t \in Instants /\ b <= t /\ t < e
            BY <1>3, <2>1
        <3> QED
            BY <1>2, <3>1 DEF Near
    <2>3. ASSUME NEW t \in Int, t = e \/ t = b - 1, t \in Near(A)
          PROVE  FALSE
        <3>1. PICK c \in 1 .. L : s[c][1] <= t /\ t < s[c][2]
            BY <1>4, <2>3 DEF Near
        <3>2. s[c][1] \in Int /\ s[c][2] \in Int
            BY <1>1
        <3>3. c # a
            BY <2>1, <2>3, <3>1
        <3>4. a < c \/ c < a
            BY <1>1, <3>3
        <3>5. e + MaxGap < s[c][1] \/ s[c][2] + MaxGap < b
            BY <1>2, <3>4
        <3> HIDE DEF b, e
        <3> QED
            BY <1>3, <2>1, <2>3, <3>1, <3>2, <3>5
    <2>4. e \notin Near(A) /\ b - 1 \notin Near(A)
        BY <2>1, <2>3
    <2>5. <<b, e>> \in Interval
        BY <2>1 DEF Interval
    <2> HIDE DEF b, e
    <2>6. Maximal(<<b, e>>, Near(A))
        BY <2>2, <2>4 DEF Maximal
    <2> QED
        BY <2>5, <2>6 DEF b, e
<1>6. ASSUME NEW i \in Interval, Maximal(i, Near(A))
      PROVE  \E a \in 1 .. L : i[1] = s[a][1] /\ i[2] = s[a][2]
    <2>1. i[1] \in Int /\ i[2] \in Int /\ i[1] < i[2]
        BY RowsAre
    <2>2. i[1] \in i[1] .. i[2] - 1
        BY <2>1
    <2>3. i[1] \in Near(A)
        BY <1>6, <2>2 DEF Maximal
    <2>4. PICK a \in 1 .. L : s[a][1] <= i[1] /\ i[1] < s[a][2]
        BY <1>4, <2>1, <2>3 DEF Near
    <2> DEFINE j == <<s[a][1], s[a][2]>>
               t == i[1]
    <2>5. j \in Interval /\ Maximal(j, Near(A)) /\ j[1] = s[a][1] /\ j[2] = s[a][2]
        BY <1>5
    <2> HIDE DEF j
    <2>6. t \in Int /\ i[1] <= t /\ t < i[2] /\ j[1] <= t /\ t < j[2]
        BY <2>1, <2>4, <2>5
    <2> HIDE DEF t
    <2>7. i = j
        BY <1>6, <2>5, <2>6, MaximalIsOne
    <2> QED
        BY <2>5, <2>7
<1> QED
    BY <1>5, <1>6 DEF L

\* The identity segments of a pair are those stretches, with what they count.
LEMMA IdentityIs ==
    ASSUME RelationInv, NEW p, OnceOnly(p)
    PROVE  IdentitySegments(p) =
              {<<i[1], i[2], Cardinality(CoveredBy({p}) \cap i[1] .. i[2] - 1)>> :
                 i \in Stretches(Near(CoveredBy({p})), 1)}
<1> DEFINE S == SpansOf({p})
           A == CoveredBy({p})
           s == Stints(S)
           L == Len(s)
           Row3(i) == <<i[1], i[2], Cardinality(A \cap i[1] .. i[2] - 1)>>
<1>1. S \in SUBSET Interval /\ Covered(S) = A
    BY SpansCover
<1>2. A \in SUBSET Instants
    BY DEF CoveredBy
<1>3. Joined(s, A)
    <2>1. \A i, j \in S : i = j \/ i[2] <= j[1] \/ j[2] <= i[1]
        BY OnceOnlyApart
    <2> HIDE DEF S, A
    <2>2. Joined(Stints(S), Covered(S))
        BY <1>1, <2>1, StintsJoin
    <2> QED
        BY <1>1, <2>2
<1>4. IdentitySegments(p) = ToSet(s)
    BY DEF IdentitySegments, Stints
<1> HIDE DEF A, s
<1>5. /\ ToSet(s) = {s[a] : a \in 1 .. L} /\ L \in Nat
      /\ \A a \in 1 .. L : /\ s[a] = <<s[a][1], s[a][2], s[a][3]>>
                           /\ s[a][3] = Cardinality(A \cap s[a][1] .. s[a][2] - 1)
                           /\ s[a][1] \in Int /\ s[a][2] \in Int /\ s[a][1] < s[a][2]
    <2>1. s \in Seq(Stint)
        BY <1>3 DEF Joined
    <2>2. ToSet(s) = {s[a] : a \in 1 .. L} /\ L \in Nat
        BY <2>1, MembersOf
    <2>3. \A a \in 1 .. L : s[a] = <<s[a][1], s[a][2], s[a][3]>> /\ s[a][1] \in Int /\ s[a][2] \in Int
        BY <2>1, StintFields
    <2>4. \A a \in 1 .. L : s[a][3] = Cardinality(A \cap s[a][1] .. s[a][2] - 1) /\ s[a][1] < s[a][2]
        BY <1>3 DEF Joined
    <2> QED
        BY <2>2, <2>3, <2>4
<1>6. /\ \A a \in 1 .. L :
            <<s[a][1], s[a][2]>> \in Interval /\ Maximal(<<s[a][1], s[a][2]>>, Near(A))
      /\ \A i \in Interval : Maximal(i, Near(A)) => \E a \in 1 .. L : i[1] = s[a][1] /\ i[2] = s[a][2]
    BY <1>2, <1>3, StintsAre
<1> HIDE DEF L
<1>7. ASSUME NEW a \in 1 .. L
      PROVE  \E i \in Stretches(Near(A), 1) : s[a] = Row3(i)
    <2> DEFINE i == <<s[a][1], s[a][2]>>
    <2>1. i[1] = s[a][1] /\ i[2] = s[a][2]
        OBVIOUS
    <2>2. i \in Interval /\ Maximal(i, Near(A))
        BY <1>6
    <2> HIDE DEF i
    <2>5. i[1] + 1 <= i[2]
        <3>1. s[a][1] \in Int /\ s[a][2] \in Int /\ s[a][1] < s[a][2]
            BY <1>5
        <3>2. i[1] \in Int /\ i[2] \in Int /\ i[1] < i[2]
            BY <2>1, <3>1
        <3> QED
            BY <3>2
    <2>6. s[a] = <<s[a][1], s[a][2], s[a][3]>> /\ s[a][3] = Cardinality(A \cap s[a][1] .. s[a][2] - 1)
        BY <1>5
    <2>3. i[1] + 1 <= i[2] /\ s[a] = Row3(i)
        BY <2>1, <2>5, <2>6
    <2>4. i \in Stretches(Near(A), 1)
        BY <2>2, <2>3, StretchesAre
    <2> QED
        BY <2>3, <2>4
<1>8. ASSUME NEW i \in Stretches(Near(A), 1)
      PROVE  \E a \in 1 .. L : Row3(i) = s[a]
    <2>1. i \in Interval /\ Maximal(i, Near(A))
        BY StretchesAre
    <2>2. PICK a \in 1 .. L : i[1] = s[a][1] /\ i[2] = s[a][2]
        BY <1>6, <2>1
    <2>3. s[a] = <<s[a][1], s[a][2], s[a][3]>> /\ s[a][3] = Cardinality(A \cap s[a][1] .. s[a][2] - 1)
        BY <1>5
    <2> QED
        BY <2>2, <2>3
<1> HIDE DEF Row3
<1>9. {s[a] : a \in 1 .. L} = {Row3(i) : i \in Stretches(Near(A), 1)}
    BY <1>7, <1>8
<1> QED
    BY <1>4, <1>5, <1>9 DEF Row3, A

-----------------------------------------------------------------------------
(* Dwell. *)

\* The instants in which a target is tracked, of each target.
Tracking(g) == CoveredBy(Tracks \X {g})
Dwelt == UNION {{g} \X Tracking(g) : g \in Targets}

\* Instants labelled with one thing are as many as the instants.
LEMMA Labelled ==
    ASSUME NEW x, NEW S, IsFiniteSet(S)
    PROVE  IsFiniteSet({x} \X S) /\ Cardinality({x} \X S) = Cardinality(S)
<1>1. IsFiniteSet({x}) /\ Cardinality({x}) = 1
    BY FS_Singleton
<1>2. IsFiniteSet({x} \X S) /\ Cardinality({x} \X S) = Cardinality({x}) * Cardinality(S)
    BY <1>1, FS_Product
<1>3. Cardinality(S) \in Nat
    BY FS_CardinalityType
<1> DEFINE c == Cardinality(S)
           d == Cardinality({x} \X S)
<1> HIDE DEF c, d
<1>4. d = 1 * c /\ c \in Nat
    BY <1>1, <1>2, <1>3 DEF c, d
<1> QED
    BY <1>2, <1>4 DEF c, d

\* The dwell of the targets is the number of instants in which each is tracked.
LEMMA TargetDwellIs ==
    ASSUME RelationInv
    PROVE  /\ TargetDwell = Cardinality(Dwelt) /\ IsFiniteSet(Dwelt)
           /\ \A g \in Targets : Duration(SpansOf(Tracks \X {g})) = Cardinality(Tracking(g))
<1> DEFINE G == Targets
           c == [g \in G |-> {g} \X Tracking(g)]
           v == [g \in G |-> Duration(SpansOf(Tracks \X {g}))]
           Body(f) == [s \in SUBSET G |->
                          IF s = {} THEN 0 ELSE Duration(SpansOf(Tracks \X {First(s)})) + f[s \ {First(s)}]]
<1>1. \A g \in G : Tracking(g) \in SUBSET Instants /\ IsFiniteSet(Tracking(g))
    BY IntervalsFinite, FS_Subset DEF Tracking, CoveredBy
<1>2. \A g \in G : Duration(SpansOf(Tracks \X {g})) = Cardinality(Tracking(g))
    <2> SUFFICES ASSUME NEW g \in G
                 PROVE  Duration(SpansOf(Tracks \X {g})) = Cardinality(Tracking(g))
        OBVIOUS
    <2> DEFINE S == SpansOf(Tracks \X {g})
    <2>1. S \in SUBSET Interval /\ Covered(S) = Tracking(g)
        BY SpansCover DEF Tracking
    <2> HIDE DEF S
    <2>2. Duration(S) = Cardinality(Covered(S))
        BY <2>1, DurationIs
    <2> QED
        BY <2>1, <2>2 DEF S
<1>3. \A g \in G : v[g] = Cardinality(c[g])
    <2>1. \A g \in G : Cardinality({g} \X Tracking(g)) = Cardinality(Tracking(g))
        BY <1>1, Labelled
    <2> QED
        BY <1>2, <2>1
<1>4. Apart(c, G, G \X Instants) /\ IsFiniteSet(G \X Instants)
    <2>1. IsFiniteSet(G) /\ IsFiniteSet(G \X Instants)
        BY MetricConstants, IntervalsFinite, FS_Product
    <2>2. \A g \in G : c[g] \in SUBSET (G \X Instants)
        BY <1>1
    <2>3. \A g, h \in G : g # h => c[g] \cap c[h] = {}
        <3> SUFFICES ASSUME NEW g \in G, NEW h \in G, NEW x, x \in c[g], x \in c[h]
                     PROVE  g = h
            OBVIOUS
        <3>1. x[1] = g /\ x[1] = h
            OBVIOUS
        <3> QED
            BY <3>1
    <2> HIDE DEF c
    <2> QED
        BY <2>1, <2>2, <2>3 DEF Apart
<1>5. UNION {c[g] : g \in G} = Dwelt
    BY DEF Dwelt
<1>6. \A f : Added(v, G, f) <=> f = Body(f)
    <2>1. \A s \in SUBSET G : s # {} => v[First(s)] = Duration(SpansOf(Tracks \X {First(s)}))
        BY DEF First
    <2> HIDE DEF v
    <2>2. \A f : Body(f) = [s \in SUBSET G |-> IF s = {} THEN 0 ELSE v[First(s)] + f[s \ {First(s)}]]
        BY <2>1
    <2> QED
        BY <2>2 DEF Added
<1> DEFINE g == CHOOSE f : f = Body(f)
<1>7. TargetDwell = g[G]
    BY DEF TargetDwell, MapThenSumSet, MapThenFoldSet, First
<1> HIDE DEF Body, c, v
<1>8. (\E f : Added(v, G, f)) /\ \A f : Added(v, G, f) => f[G] = Cardinality(UNION {c[x] : x \in G})
    BY <1>3, <1>4, SumsCount
<1>9. g = Body(g)
    BY <1>6, <1>8
<1> HIDE DEF g
<1>10. IsFiniteSet(Dwelt)
    <2>1. Dwelt \in SUBSET (G \X Instants)
        BY <1>1 DEF Dwelt
    <2> QED
        BY <1>4, <2>1, FS_Subset
<1> QED
    BY <1>2, <1>5, <1>6, <1>7, <1>8, <1>9, <1>10

\* No identity segment dwells longer than the targets were tracked.
LEMMA LongestIs ==
    ASSUME RelationInv, \A p \in Pairs : OnceOnly(p)
    PROVE  LongestIdentity <= TargetDwell
<1> DEFINE L == {s[3] : s \in EligibleIdentity}
           D == Cardinality(Dwelt)
<1>1. D \in Nat /\ TargetDwell = D /\ IsFiniteSet(Dwelt)
    BY TargetDwellIs, FS_CardinalityType
<1>2. ASSUME NEW s \in EligibleIdentity
      PROVE  s[3] \in Nat /\ s[3] <= D
    <2>1. PICK p \in Pairs : s \in IdentitySegments(p)
        BY DEF EligibleIdentity, Pairs
    <2> DEFINE A == CoveredBy({p})
    <2> DEFINE Row3(j) == <<j[1], j[2], Cardinality(A \cap j[1] .. j[2] - 1)>>
    <2>b. IdentitySegments(p) = {Row3(j) : j \in Stretches(Near(A), 1)}
        BY IdentityIs
    <2>c. PICK i \in Stretches(Near(A), 1) : s = Row3(i)
        <3> HIDE DEF Row3
        <3> QED
            BY <2>1, <2>b
    <2>2. s = <<i[1], i[2], Cardinality(A \cap i[1] .. i[2] - 1)>>
        BY <2>c
    <2> DEFINE X == A \cap i[1] .. i[2] - 1
               g == p[2]
    <2>3. s[3] = Cardinality(X)
        BY <2>2
    <2>4. A \in SUBSET Tracking(g) /\ g \in Targets
        <3>1. p \in Tracks \X {g} /\ g \in Targets
            BY DEF Pairs
        <3> QED
            BY <3>1 DEF CoveredBy, Tracking
    <2>5. X \in SUBSET Instants
        BY DEF CoveredBy
    <2>a. X \in SUBSET Tracking(g)
        BY <2>4
    <2> HIDE DEF X, g, D
    <2>6. {g} \X X \in SUBSET Dwelt
        BY <2>4, <2>a DEF Dwelt
    <2>7. IsFiniteSet(X) /\ Cardinality({g} \X X) = Cardinality(X)
        <3>1. IsFiniteSet(X)
            BY <2>5, IntervalsFinite, FS_Subset
        <3> QED
            BY <3>1, Labelled
    <2>8. Cardinality({g} \X X) <= D
        BY <1>1, <2>6, FS_Subset DEF D
    <2>9. Cardinality(X) \in Nat
        BY <2>7, FS_CardinalityType
    <2> QED
        BY <2>3, <2>7, <2>8, <2>9
<1> DEFINE M == L \cup {0}
<1>3. M \subseteq Int /\ M # {} /\ \A x \in M : x <= D
    <2> HIDE DEF D
    <2> QED
        BY <1>1, <1>2
<1>4. LongestIdentity = Max(M)
    BY DEF LongestIdentity
<1>5. Max(M) \in M
    <2>1. D \in Int
        BY <1>1
    <2> HIDE DEF M, D
    <2> QED
        BY <1>3, <2>1, GreatestNumber
<1> HIDE DEF M, D
<1> QED
    BY <1>1, <1>3, <1>4, <1>5

\* What the metrics divide are counts of instants.
LEMMA DwellsAre == RelationInv => DwellsExact
<1> SUFFICES ASSUME RelationInv PROVE DwellsExact
    OBVIOUS
<1>1. relation \subseteq Row
    BY DEF RelationInv
<1>2. \A g \in Targets :
         Duration(SpansOf(Tracks \X {g})) = Cardinality(CoveredBy(Tracks \X {g}))
    BY TargetDwellIs DEF Tracking
<1>3. ASSUME NEW p \in Pairs, NEW q \in Pairs
      PROVE  /\ IntersectionDuration(SpansOf({p}), SpansOf({q}))
                   = Cardinality(CoveredBy({p}) \cap CoveredBy({q}))
             /\ Drops(SpansOf({p}), SpansOf({q}))
                   = {i \in Stretches(CoveredBy({q}) \ CoveredBy({p}), Persistence) :
                         i[1] - 1 \in CoveredBy({q}) \cap CoveredBy({p})}
    <2> DEFINE S == SpansOf({p})
               T == SpansOf({q})
    <2>1. S \in SUBSET Interval /\ Covered(S) = CoveredBy({p})
        BY SpansCover
    <2>2. T \in SUBSET Interval /\ Covered(T) = CoveredBy({q})
        BY SpansCover
    <2> HIDE DEF S, T
    <2>3. IntersectionDuration(S, T) = Cardinality(Covered(S) \cap Covered(T))
        BY <2>1, <2>2, IntersectionIs
    <2>4. Drops(S, T) = {i \in Stretches(Covered(T) \ Covered(S), Persistence) :
                            i[1] - 1 \in Covered(T) \cap Covered(S)}
        BY <2>1, <2>2, DropsAre
    <2> QED
        BY <2>1, <2>2, <2>3, <2>4 DEF S, T
<1>4. (\A p \in Pairs : OnceOnly(p)) => LongestIdentity <= TargetDwell
    BY LongestIs
<1>5. ASSUME NEW p \in Pairs, OnceOnly(p)
      PROVE  IdentitySegments(p) =
                {<<i[1], i[2], Cardinality(CoveredBy({p}) \cap i[1] .. i[2] - 1)>> :
                   i \in Stretches({t \in Instants : \E u, v \in CoveredBy({p}) :
                                       u <= t /\ t <= v /\ v - u <= MaxGap + 1}, 1)}
    BY <1>5, IdentityIs DEF Near, Bridged
<1> QED
    BY <1>1, <1>2, <1>3, <1>4, <1>5 DEF DwellsExact

-----------------------------------------------------------------------------
(* Episodes, and how long duplicates last. *)

\* The instants of a span in which a key has several counterparts.
LEMMA LatestIs ==
    ASSUME RelationInv, relation # {}, NEW t \in Span
    PROVE  /\ Max({u \in Busy : u <= t}) \in Instants
           /\ LatestPairs(t) = Timeline[Max({u \in Busy : u <= t})]
           /\ t \in Busy => LatestPairs(t) = Holds(t)
<1> DEFINE L == {u \in Busy : u <= t}
<1>1. /\ t \in Int /\ t \in Instants /\ \A u \in Instants : u \in Nat
    BY SpanIs, RowsAre
<1>2. Busy \subseteq Instants /\ L \subseteq Busy /\ \A x \in L : x <= t
    BY DEF Busy
<1>3. L # {}
    <2>1. Busy # {} /\ Min(Busy) <= t
        BY <1>1 DEF Span
    <2>2. Busy \subseteq Nat
        BY <1>1, <1>2
    <2>3. Min(Busy) \in Busy
        BY <2>1, <2>2, SmallestNumber
    <2> QED
        BY <2>1, <2>3
<1>4. L \subseteq Int
    <2>1. \A u \in L : u \in Instants
        BY <1>2
    <2> HIDE DEF L
    <2>2. \A u \in L : u \in Nat
        BY <1>1, <2>1
    <2>3. \A u \in Nat : u \in Int
        OBVIOUS
    <2> QED
        BY <2>2, <2>3
<1>5. Max(L) \in L
    <2> HIDE DEF L
    <2> QED
        BY <1>1, <1>2, <1>3, <1>4, GreatestNumber
<1>6. t \in Busy => Max(L) = t
    <2> SUFFICES ASSUME t \in Busy PROVE Max(L) = t
        OBVIOUS
    <2>1. t \in L
        BY <1>1
    <2> HIDE DEF L
    <2> QED
        BY <1>2, <1>4, <2>1, GreatestIs
<1>7. LatestPairs(t) = Holds(Max(L))
    BY DEF LatestPairs
<1> HIDE DEF L
<1>8. Max(L) \in Instants
    BY <1>2, <1>5
<1>9. Timeline[Max(L)] = Holds(Max(L))
    BY <1>8 DEF Timeline
<1> QED
    BY <1>6, <1>7, <1>8, <1>9 DEF L

\* Duplicates last no longer than the targets are tracked.
LEMMA DuplicatesAre ==
    ASSUME RelationInv, relation # {}, Span = Busy
    PROVE  DuplicateDwell <= TargetDwell
<1> DEFINE E == Episodes(TARGET)
           S(k) == Several(k, TARGET)
           D == Cardinality(Dwelt)
           c == [e \in E |-> {e[1]} \X (e[2] .. e[3] - 1)]
           v == [e \in E |-> e[3] - e[2]]
           Body(f) == [s \in SUBSET E |->
                          IF s = {} THEN 0 ELSE (First(s)[3] - First(s)[2]) + f[s \ {First(s)}]]
<1>1. ASSUME NEW e \in E
      PROVE  /\ e[1] \in Targets /\ e = <<e[1], e[2], e[3]>>
             /\ <<e[2], e[3]>> \in Interval /\ Maximal(<<e[2], e[3]>>, S(e[1]))
    <2>0. PICK k \in Keys(TARGET) : \E i \in Stretches(Several(k, TARGET), Persistence) : e = <<k, i[1], i[2]>>
        BY EpisodesAre
    <2>1. PICK i \in Stretches(Several(k, TARGET), Persistence) : e = <<k, i[1], i[2]>>
        BY <2>0
    <2>2. Keys(TARGET) = Targets
        BY DEF Keys, TRACK, TARGET
    <2>3. i \in Interval /\ Maximal(i, Several(k, TARGET)) /\ i = <<i[1], i[2]>>
        BY StretchesAre, RowsAre
    <2>4. e[1] = k /\ e[2] = i[1] /\ e[3] = i[2]
        BY <2>1
    <2> QED
        BY <2>1, <2>2, <2>3, <2>4
\* who is tracked by several is tracked
<1>2. ASSUME NEW k \in Targets, NEW t \in S(k)
      PROVE  t \in Tracking(k)
    <2>1. t \in Span /\ t \in Busy /\ t \in Instants /\ k \in Multiple(LatestPairs(t), TARGET)
        BY SpanIs DEF Several
    <2>2. k \in Multiple(Holds(t), TARGET)
        BY <2>1, LatestIs
    <2>3. PICK p \in Holds(t) : p[TARGET] = k
        BY <2>2 DEF Multiple
    <2>4. p \in Pairs
        BY RowsAre
    <2>5. p \in Tracks \X {k}
        BY <2>3, <2>4 DEF Pairs, TARGET
    <2> QED
        BY <2>1, <2>3, <2>5 DEF Tracking, CoveredBy
<1> HIDE DEF E, S
<1>3. ASSUME NEW e \in E
      PROVE  /\ c[e] = {e[1]} \X (e[2] .. e[3] - 1) /\ v[e] = e[3] - e[2]
             /\ v[e] = Cardinality(c[e]) /\ c[e] \in SUBSET Dwelt
             /\ e[2] \in Times /\ e[3] \in Times
    <2> DEFINE i == <<e[2], e[3]>>
    <2>1. i \in Interval /\ Maximal(i, S(e[1])) /\ e[1] \in Targets /\ i[1] = e[2] /\ i[2] = e[3]
        BY <1>1
    <2> HIDE DEF i
    <2>2. Length(i) = Cardinality(Within(i)) /\ Within(i) \in SUBSET Instants
        BY <2>1, LengthCounts
    <2>3. Within(i) = e[2] .. e[3] - 1 /\ Length(i) = e[3] - e[2]
        BY <2>1 DEF Within, Length
    <2>4. Within(i) \in SUBSET Tracking(e[1])
        BY <1>2, <2>1, <2>3 DEF Maximal
    <2>5. {e[1]} \X Within(i) \in SUBSET Dwelt
        BY <2>1, <2>4 DEF Dwelt
    <2>6. Cardinality({e[1]} \X Within(i)) = Cardinality(Within(i))
        <3>1. IsFiniteSet(Within(i))
            BY <2>2, IntervalsFinite, FS_Subset
        <3> QED
            BY <3>1, Labelled
    <2>7. e[2] \in Times /\ e[3] \in Times
        BY <2>1, RowsAre
    <2>8. c[e] = {e[1]} \X (e[2] .. e[3] - 1) /\ v[e] = e[3] - e[2]
        OBVIOUS
    <2> HIDE DEF c, v
    <2> QED
        BY <2>2, <2>3, <2>5, <2>6, <2>7, <2>8
<1>4. IsFiniteSet(E)
    <2> DEFINE f == [e \in E |-> <<e[1], <<e[2], e[3]>>>>]
               T == Targets \X Interval
    <2>1. IsFiniteSet(T)
        BY MetricConstants, IntervalsFinite, FS_Product
    <2>2. f \in [E -> T]
        BY <1>1
    <2>3. \A a, b \in E : f[a] = f[b] => a = b
        <3> SUFFICES ASSUME NEW a \in E, NEW b \in E, f[a] = f[b]
                     PROVE  a = b
            OBVIOUS
        <3>1. <<a[1], <<a[2], a[3]>>>> = <<b[1], <<b[2], b[3]>>>>
            OBVIOUS
        <3>2. a[1] = b[1] /\ a[2] = b[2] /\ a[3] = b[3]
            BY <3>1
        <3>3. a = <<a[1], a[2], a[3]>> /\ b = <<b[1], b[2], b[3]>>
            BY <1>1
        <3> QED
            BY <3>2, <3>3
    <2> HIDE DEF f, T
    <2>4. f \in Injection(E, T)
        BY <2>2, <2>3 DEF Injection, IsInjective
    <2> QED
        BY <2>1, <2>4, FS_Injection
<1>5. Apart(c, E, Dwelt)
    <2>1. IsFiniteSet(Dwelt)
        BY TargetDwellIs
    <2>2. ASSUME NEW e \in E, NEW f \in E, NEW x, x \in c[e], x \in c[f]
          PROVE  e = f
        <3> DEFINE i == <<e[2], e[3]>>
                   j == <<f[2], f[3]>>
                   t == x[2]
        <3>1. x \in {e[1]} \X (e[2] .. e[3] - 1) /\ x \in {f[1]} \X (f[2] .. f[3] - 1)
            BY <1>3, <2>2
        <3>2. e[1] = f[1] /\ t \in e[2] .. e[3] - 1 /\ t \in f[2] .. f[3] - 1
            BY <3>1
        <3>3. e[2] \in Int /\ e[3] \in Int /\ f[2] \in Int /\ f[3] \in Int
            <4>1. \A t0 \in Times : t0 \in Int
                BY RowsAre
            <4>2. e[2] \in Times /\ e[3] \in Times /\ f[2] \in Times /\ f[3] \in Times
                BY <1>3
            <4> QED
                BY <4>1, <4>2
        <3>4. i \in Interval /\ Maximal(i, S(e[1])) /\ j \in Interval /\ Maximal(j, S(e[1]))
            BY <1>1, <3>2
        <3>5. t \in Int /\ i[1] <= t /\ t < i[2] /\ j[1] <= t /\ t < j[2]
            BY <3>2, <3>3
        <3>6. i[1] = e[2] /\ i[2] = e[3] /\ j[1] = f[2] /\ j[2] = f[3]
            OBVIOUS
        <3> HIDE DEF i, j, t
        <3>7. i = j
            BY <3>4, <3>5, MaximalIsOne
        <3>8. e = <<e[1], e[2], e[3]>> /\ f = <<f[1], f[2], f[3]>>
            BY <1>1
        <3> QED
            BY <3>2, <3>6, <3>7, <3>8
    <2>3. \A e \in E : c[e] \in SUBSET Dwelt
        BY <1>3
    <2> HIDE DEF c
    <2> QED
        BY <1>4, <2>1, <2>2, <2>3 DEF Apart
<1>6. \A f : Added(v, E, f) <=> f = Body(f)
    <2>1. \A s \in SUBSET E : s # {} => v[First(s)] = First(s)[3] - First(s)[2]
        BY DEF First
    <2> HIDE DEF v
    <2>2. \A f : Body(f) = [s \in SUBSET E |-> IF s = {} THEN 0 ELSE v[First(s)] + f[s \ {First(s)}]]
        BY <2>1
    <2> QED
        BY <2>2 DEF Added
<1> DEFINE g == CHOOSE f : f = Body(f)
<1>7. DuplicateDwell = g[E]
    BY DEF DuplicateDwell, MapThenSumSet, MapThenFoldSet, First, E
<1> HIDE DEF Body
<1>8. (\E f : Added(v, E, f)) /\ \A f : Added(v, E, f) => f[E] = Cardinality(UNION {c[x] : x \in E})
    <2>1. \A e \in E : v[e] = Cardinality(c[e])
        BY <1>3
    <2> HIDE DEF c, v
    <2> QED
        BY <1>5, <2>1, SumsCount
<1>9. g = Body(g)
    BY <1>6, <1>8
<1> HIDE DEF g, v
<1>10. DuplicateDwell = Cardinality(UNION {c[x] : x \in E})
    BY <1>6, <1>7, <1>8, <1>9
<1>11. UNION {c[x] : x \in E} \in SUBSET Dwelt
    BY <1>3
<1> HIDE DEF c
<1>12. Cardinality(UNION {c[x] : x \in E}) <= D
    BY <1>11, TargetDwellIs, FS_Subset
<1> QED
    BY <1>10, <1>12, TargetDwellIs

\* The instants in which a key has several counterparts.
SeveralNow(k, side) == {t \in Instants : k \in Multiple(Timeline[t], side)}

\* They are those of Several in which anything is associated.
LEMMA SeveralNowIs ==
    ASSUME RelationInv, relation # {}, NEW side \in {TRACK, TARGET}, NEW k
    PROVE  SeveralNow(k, side) = Several(k, side) \cap Busy
<1>1. \A t \in Instants : Timeline[t] = Holds(t)
    BY DEF Timeline
<1>2. Busy \subseteq Instants /\ Busy \subseteq Nat /\ Busy \subseteq Int /\ \A t \in Busy : t <= Horizon
    <2>1. Busy \subseteq Instants
        BY DEF Busy
    <2>2. \A t \in Instants : t \in Nat /\ t \in Int /\ t <= Horizon
        BY RowsAre
    <2> QED
        BY <2>1, <2>2
<1>3. ASSUME NEW t \in Busy
      PROVE  t \in Span
    <2>1. Min(Busy) \in Busy /\ Min(Busy) <= t
        BY <1>2, SmallestNumber
    <2>2. Max(Busy) \in Busy /\ t <= Max(Busy)
        <3>1. Horizon \in Int
            BY RowsAre
        <3> QED
            BY <1>2, <3>1, GreatestNumber
    <2>3. t \in Min(Busy) .. Max(Busy)
        BY <1>2, <2>1, <2>2
    <2> QED
        BY <2>3 DEF Span
<1>4. \A t \in Busy : LatestPairs(t) = Timeline[t]
    BY <1>1, <1>2, <1>3, LatestIs
<1>5. ASSUME NEW t \in SeveralNow(k, side)
      PROVE  t \in Several(k, side) /\ t \in Busy
    <2>1. t \in Instants /\ k \in Multiple(Timeline[t], side)
        BY DEF SeveralNow
    <2>2. Holds(t) # {}
        BY <1>1, <2>1 DEF Multiple
    <2>3. t \in Busy
        BY <2>1, <2>2 DEF Busy
    <2> QED
        BY <1>3, <1>4, <2>1, <2>3 DEF Several
<1>6. ASSUME NEW t \in Several(k, side), t \in Busy
      PROVE  t \in SeveralNow(k, side)
    BY <1>2, <1>4, <1>6 DEF Several, SeveralNow
<1> QED
    BY <1>5, <1>6

\* An interval within a set of instants lies in a maximal one.
LEMMA StretchAround ==
    ASSUME RelationInv, NEW A, A \subseteq Instants, NEW i \in Interval, i[1] .. i[2] - 1 \subseteq A
    PROVE  \E j \in Interval : Maximal(j, A) /\ j[1] <= i[1] /\ i[2] <= j[2]
<1> DEFINE S == {x \in 0 .. i[1] : x .. i[1] \subseteq A}
           E == {y \in i[2] .. Horizon : i[1] .. y - 1 \subseteq A}
           a == Min(S)
           b == Max(E)
<1>1. /\ i[1] \in Nat /\ i[2] \in Nat /\ i[1] < i[2] /\ i[2] <= Horizon /\ Horizon \in Nat
      /\ Times = 0 .. Horizon /\ Instants = 0 .. Horizon - 1
    BY RowsAre
<1>2. i[1] \in S
    <2>1. \A x \in i[1] .. i[1] : x \in i[1] .. i[2] - 1
        BY <1>1
    <2> QED
        BY <1>1, <2>1
<1>3. i[2] \in E
    BY <1>1
<1>4. S \subseteq Nat /\ E \subseteq Int /\ \A y \in E : y <= Horizon
    BY <1>1
<1>5. a \in S /\ \A x \in S : a <= x
    <2> HIDE DEF S
    <2> QED
        BY <1>2, <1>4, SmallestNumber
<1>6. b \in E /\ \A y \in E : y <= b
    <2>1. Horizon \in Int
        BY <1>1
    <2> HIDE DEF E
    <2>2. E # {}
        BY <1>3
    <2> QED
        BY <1>4, <2>1, <2>2, GreatestNumber
<1>7. a \in Nat /\ a <= i[1] /\ a .. i[1] \subseteq A
    BY <1>1, <1>5
<1>8. b \in Nat /\ i[2] <= b /\ b <= Horizon /\ i[1] .. b - 1 \subseteq A
    BY <1>1, <1>6
<1>9. a = 0 \/ a - 1 \notin A
    <2> SUFFICES ASSUME a # 0, a - 1 \in A PROVE FALSE
        OBVIOUS
    <2> HIDE DEF a
    <2>1. \A x \in a - 1 .. i[1] : x = a - 1 \/ x \in a .. i[1]
        BY <1>1, <1>7
    <2>2. a - 1 \in 0 .. i[1]
        BY <1>1, <1>7
    <2>3. a - 1 \in S
        BY <1>7, <2>1, <2>2
    <2> QED
        BY <1>5, <1>7, <2>3
<1>10. b \notin A
    <2> SUFFICES ASSUME b \in A PROVE FALSE
        OBVIOUS
    <2> HIDE DEF b
    <2>1. \A x \in i[1] .. (b + 1) - 1 : x = b \/ x \in i[1] .. b - 1
        BY <1>1, <1>8
    <2>2. b + 1 \in i[2] .. Horizon
        BY <1>1, <1>8
    <2>3. b + 1 \in E
        BY <1>8, <2>1, <2>2
    <2> QED
        BY <1>6, <1>8, <2>3
<1> HIDE DEF a, b, S, E
<1>11. \A x \in a .. b - 1 : x \in a .. i[1] \/ x \in i[1] .. b - 1
    BY <1>1, <1>7, <1>8
<1> DEFINE j == <<a, b>>
<1>12. j \in Interval /\ j[1] = a /\ j[2] = b
    BY <1>1, <1>7, <1>8 DEF Interval
<1> HIDE DEF j
<1>13. Maximal(j, A)
    BY <1>7, <1>8, <1>9, <1>10, <1>11, <1>12 DEF Maximal
<1> QED
    BY <1>7, <1>8, <1>12, <1>13

\* The episodes are what the timeline says they are.
LEMMA EpisodesShown == RelationInv => EpisodesExact
<1> SUFFICES ASSUME RelationInv, relation # {}
             PROVE  EpisodesExact
    BY DEF EpisodesExact
<1> DEFINE timeline == Timeline
           busy == {t \in Instants : timeline[t] # {}}
           span == IF busy = {} THEN {} ELSE Min(busy) .. Max(busy)
           Continuous(side) ==
               UNION {LET several == {t \in Instants : k \in Multiple(timeline[t], side)}
                      IN  {<<k, i[1], i[2]>> : i \in Stretches(several, Persistence)}
                      : k \in IF side = TRACK THEN Tracks ELSE Targets}
<1>1. busy = Busy
    BY DEF Busy, Timeline
<1>2. span = Span
    BY <1>1 DEF Span
<1>3. ASSUME NEW side \in {TRACK, TARGET}
      PROVE  \A x : x \in Continuous(side) <=>
                \E k \in Keys(side) : \E i \in Interval :
                   /\ Maximal(i, SeveralNow(k, side)) /\ i[1] + Persistence <= i[2]
                   /\ x = <<k, i[1], i[2]>>
    <2>1. \A x : x \in Continuous(side) <=>
             \E k \in Keys(side) : \E i \in Stretches(SeveralNow(k, side), Persistence) :
                x = <<k, i[1], i[2]>>
        BY DEF Keys, SeveralNow
    <2> HIDE DEF Continuous
    <2> QED
        BY <2>1, StretchesAre
<1>4. ASSUME NEW side \in {TRACK, TARGET}
      PROVE  \A x : x \in Episodes(side) <=>
                \E k \in Keys(side) : \E i \in Interval :
                   /\ Maximal(i, Several(k, side)) /\ i[1] + Persistence <= i[2]
                   /\ x = <<k, i[1], i[2]>>
    <2>1. \A x : x \in Episodes(side) <=>
             \E k \in Keys(side) : \E i \in Stretches(Several(k, side), Persistence) :
                x = <<k, i[1], i[2]>>
        BY EpisodesAre
    <2> QED
        BY <2>1, StretchesAre
<1> HIDE DEF Continuous, busy, span, timeline
<1>5. ASSUME NEW side \in {TRACK, TARGET}, NEW c \in Continuous(side)
      PROVE  \E e \in Episodes(side) : e[1] = c[1] /\ e[2] <= c[2] /\ c[3] <= e[3]
    <2>1. PICK k \in Keys(side) : \E i \in Interval :
              /\ Maximal(i, SeveralNow(k, side)) /\ i[1] + Persistence <= i[2]
              /\ c = <<k, i[1], i[2]>>
        BY <1>3, <1>5
    <2>2. PICK i \in Interval :
              /\ Maximal(i, SeveralNow(k, side)) /\ i[1] + Persistence <= i[2]
              /\ c = <<k, i[1], i[2]>>
        BY <2>1
    <2>3. Several(k, side) \subseteq Instants /\ i[1] .. i[2] - 1 \subseteq Several(k, side)
        BY <2>2, SeveralNowIs, SpanIs DEF Several, Maximal
    <2>4. PICK j \in Interval : Maximal(j, Several(k, side)) /\ j[1] <= i[1] /\ i[2] <= j[2]
        BY <2>3, StretchAround
    <2>5. j[1] + Persistence <= j[2]
        <3>1. /\ i[1] \in Int /\ i[2] \in Int /\ j[1] \in Int /\ j[2] \in Int /\ Persistence \in Int
            BY RowsAre
        <3> QED
            BY <2>2, <2>4, <3>1
    <2>6. <<k, j[1], j[2]>> \in Episodes(side)
        BY <1>4, <2>1, <2>4, <2>5
    <2> QED
        BY <2>2, <2>4, <2>6
<1>6. ASSUME NEW side \in {TRACK, TARGET}, NEW e \in Episodes(side), e[2] .. e[3] - 1 \subseteq Busy
      PROVE  e \in Continuous(side)
    <2>1. PICK k \in Keys(side) : \E i \in Interval :
              /\ Maximal(i, Several(k, side)) /\ i[1] + Persistence <= i[2]
              /\ e = <<k, i[1], i[2]>>
        BY <1>4, <1>6
    <2>2. PICK i \in Interval :
              /\ Maximal(i, Several(k, side)) /\ i[1] + Persistence <= i[2]
              /\ e = <<k, i[1], i[2]>>
        BY <2>1
    <2>3. i[1] .. i[2] - 1 \subseteq Busy
        BY <1>6, <2>2
    <2>4. SeveralNow(k, side) = Several(k, side) \cap Busy
        BY SeveralNowIs
    <2>5. Maximal(i, SeveralNow(k, side))
        BY <2>2, <2>3, <2>4 DEF Maximal
    <2> QED
        BY <1>3, <2>1, <2>2, <2>5
<1>7. span = busy => DuplicateDwell <= TargetDwell
    BY <1>1, <1>2, DuplicatesAre
<1>8. \A side \in {TRACK, TARGET} :
         /\ \A c \in Continuous(side) :
               \E e \in Episodes(side) : e[1] = c[1] /\ e[2] <= c[2] /\ c[3] <= e[3]
         /\ \A e \in Episodes(side) : e[2] .. e[3] - 1 \subseteq busy => e \in Continuous(side)
    BY <1>1, <1>5, <1>6
<1> QED
    BY <1>7, <1>8 DEF EpisodesExact, Continuous, busy, span, timeline

-----------------------------------------------------------------------------
(* The metrics of the relation are exact. *)

\* What the swap metric counts are exchanges of two tracks that persist for the
\* threshold, none twice; an exchange beside which nothing changes is counted;
\* and the metric fails exactly when a track has several targets next to a
\* change: for every relation, whatever the order in which its rows come.
THEOREM SwapsExactAlways == AssociationSpec => []SwapsExact
BY RelationAlways, SwapsShown, PTL

\* The episodes followed segment by segment contain every stretch in which a key
\* continuously has several counterparts, are such stretches where something is
\* associated all the time, and without an idle instant duplicates last no
\* longer than the targets are tracked: for every relation.
THEOREM EpisodesExactAlways == AssociationSpec => []EpisodesExact
BY RelationAlways, EpisodesShown, PTL

\* Durations, intersections, drops and identity segments, computed from merged
\* intervals, are what the instants say, each instant counted once: for every
\* relation, horizon, threshold and gap.
THEOREM DwellsExactAlways == AssociationSpec => []DwellsExact
BY RelationAlways, DwellsAre, PTL

===============================================================================
