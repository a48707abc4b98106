----------------------- MODULE ClientStatisticsProofs -----------------------
(***************************************************************************)
(* Proofs that the statistics lose nothing, for any number of workers, any *)
(* pieces and any width of the counters.                                   *)
(*                                                                         *)
(* What the workers are counting is a fold over them.  The first part      *)
(* shows what such a fold is: the recursive function it stands for exists, *)
(* and its value does not depend on the order in which it is computed.     *)
(***************************************************************************)
EXTENDS ClientStatistics, FiniteSetTheorems, WellFoundedInduction, TLAPS

-----------------------------------------------------------------------------
(* Folds over finite sets. *)

\* A set of naturals that is not empty has a least element.
LEMMA LeastExists ==
  ASSUME NEW T, T \subseteq Nat, T # {}
  PROVE  \E x \in T : \A y \in T : x <= y
<1>1. IsWellFoundedOn(OpToRel(<, Nat), Nat)
  BY NatLessThanWellFounded
<1>2. \E x \in T : \A y \in T : ~ (<<y, x>> \in OpToRel(<, Nat))
  BY <1>1, WFMin
<1>3. PICK x \in T : \A y \in T : ~ (<<y, x>> \in OpToRel(<, Nat))
  BY <1>2
<1>4. \A y \in T : ~ (y < x)
  BY <1>3 DEF OpToRel
<1> QED
  BY <1>4

\* The subsets of S of at most k elements.
UpToSize(S, k) == {s \in SUBSET S : Cardinality(s) <= k}

\* The values of a fold on some subsets: c chooses the element that comes last.
FoldsOn(domain, c, op, base, g) ==
  g = [s \in domain |-> IF s = {} THEN base ELSE op[<<c[s], g[s \ {c[s]}]>>]]

\* Taking an element away makes a set smaller by one.
LEMMA OneLess ==
  ASSUME NEW S, IsFiniteSet(S), NEW k \in Nat, NEW s \in UpToSize(S, k + 1), NEW x \in s
  PROVE  s \ {x} \in UpToSize(S, k)
<1>1. IsFiniteSet(s) /\ s \in SUBSET S /\ Cardinality(s) <= k + 1
  BY FS_Subset DEF UpToSize
<1>2. Cardinality(s) \in Nat /\ Cardinality(s \ {x}) = Cardinality(s) - 1
  BY <1>1, FS_RemoveElement, FS_CardinalityType
<1> QED
  BY <1>1, <1>2 DEF UpToSize

\* A fold has a value on every subset of a finite set.
LEMMA FoldExists ==
  ASSUME NEW S, IsFiniteSet(S), NEW V, NEW base \in V, NEW c, NEW op \in [S \X V -> V],
         \A s \in SUBSET S : s # {} => c[s] \in s
  PROVE  \E g \in [SUBSET S -> V] : FoldsOn(SUBSET S, c, op, base, g)
<1> DEFINE Has(k) == \E g \in [UpToSize(S, k) -> V] : FoldsOn(UpToSize(S, k), c, op, base, g)
           bad == {k \in Nat : ~Has(k)}
<1>1. Has(0)
  <2>1. UpToSize(S, 0) = {{}}
    <3>1. ASSUME NEW s \in SUBSET S PROVE Cardinality(s) <= 0 <=> s = {}
      BY FS_Subset, FS_EmptySet, FS_CardinalityType
    <3> QED
      BY <3>1, FS_EmptySet DEF UpToSize
  <2>2. PICK g : g = [s \in {{}} |-> base]
    OBVIOUS
  <2> QED
    BY <2>1, <2>2 DEF FoldsOn
<1>2. ASSUME NEW k \in Nat, Has(k) PROVE Has(k + 1)
  <2>1. PICK g \in [UpToSize(S, k) -> V] : FoldsOn(UpToSize(S, k), c, op, base, g)
    BY <1>2
  <2>2. PICK h : h = [s \in UpToSize(S, k + 1) |->
                        IF s = {} THEN base ELSE op[<<c[s], g[s \ {c[s]}]>>]]
    OBVIOUS
  <2>3. ASSUME NEW s \in UpToSize(S, k + 1), s # {}
        PROVE  c[s] \in s /\ c[s] \in S /\ s \ {c[s]} \in UpToSize(S, k)
    <3>1. s \in SUBSET S
      BY DEF UpToSize
    <3>2. c[s] \in s /\ c[s] \in S
      BY <2>3, <3>1
    <3>3. PICK x \in s : x = c[s]
      BY <3>2
    <3> QED
      BY <3>2, <3>3, OneLess
  <2>4. ASSUME NEW s \in UpToSize(S, k + 1) PROVE h[s] \in V
    BY <2>2, <2>3
  <2>5. \A s \in UpToSize(S, k) : s \in UpToSize(S, k + 1) /\ h[s] = g[s]
    <3> TAKE s \in UpToSize(S, k)
    <3>1. IsFiniteSet(s)
      BY FS_Subset DEF UpToSize
    <3>2. Cardinality(s) \in Nat
      BY <3>1, FS_CardinalityType
    <3>3. s \in UpToSize(S, k + 1)
      BY <3>2 DEF UpToSize
    <3>4. g[s] = IF s = {} THEN base ELSE op[<<c[s], g[s \ {c[s]}]>>]
      BY <2>1 DEF FoldsOn
    <3> QED
      BY <2>2, <3>3, <3>4
  <2>6. ASSUME NEW s \in UpToSize(S, k + 1)
        PROVE  h[s] = IF s = {} THEN base ELSE op[<<c[s], h[s \ {c[s]}]>>]
    BY <2>2, <2>3, <2>5
  <2>7. h \in [UpToSize(S, k + 1) -> V]
    BY <2>2, <2>4
  <2>8. FoldsOn(UpToSize(S, k + 1), c, op, base, h)
    BY <2>2, <2>6 DEF FoldsOn
  <2> QED
    BY <2>7, <2>8
<1>3. bad = {}
  <2>1. SUFFICES ASSUME bad # {} PROVE FALSE
    OBVIOUS
  <2>2. bad \subseteq Nat
    OBVIOUS
  <2>3. PICK k \in bad : \A j \in bad : k <= j
    <3> HIDE DEF bad
    <3> QED
      BY <2>1, <2>2, LeastExists, Zenon
  <2> HIDE DEF Has
  <2>4. k # 0 /\ k \in Nat
    BY <1>1, <2>3
  <2>5. PICK j \in Nat : k = j + 1
    BY <2>4
  <2>6. Has(j)
    BY <2>3, <2>5
  <2> QED
    BY <1>2, <2>3, <2>5, <2>6
<1>4. UpToSize(S, Cardinality(S)) = SUBSET S /\ Cardinality(S) \in Nat
  BY FS_Subset, FS_CardinalityType DEF UpToSize
<1>5. Has(Cardinality(S))
  <2> HIDE DEF Has
  <2> QED
    BY <1>3, <1>4
<1> QED
  BY <1>4, <1>5

-----------------------------------------------------------------------------
(* Sums. *)

\* The sums of fun over the subsets of S.
SumsOf(fun, S, g) ==
  g = [s \in SUBSET S |-> IF s = {} THEN 0
                          ELSE fun[CHOOSE x \in s : TRUE] + g[s \ {CHOOSE x \in s : TRUE}]]

\* There are such sums.
LEMMA SumsExist ==
  ASSUME NEW S, IsFiniteSet(S), NEW fun \in [S -> Int]
  PROVE  \E g \in [SUBSET S -> Int] : SumsOf(fun, S, g)
<1>1. PICK c : c = [s \in SUBSET S |-> CHOOSE x \in s : TRUE]
  OBVIOUS
<1>2. PICK op : op = [p \in S \X Int |-> fun[p[1]] + p[2]]
  OBVIOUS
<1>3. op \in [S \X Int -> Int]
  BY <1>2
<1>4. ASSUME NEW s \in SUBSET S, s # {} PROVE c[s] \in s /\ c[s] = CHOOSE x \in s : TRUE
  BY <1>1, <1>4
<1>5. PICK zero \in Int : zero = 0
  OBVIOUS
<1>6. PICK g \in [SUBSET S -> Int] : FoldsOn(SUBSET S, c, op, zero, g)
  BY <1>3, <1>4, FoldExists
<1>7. ASSUME NEW s \in SUBSET S
      PROVE  g[s] = IF s = {} THEN 0
                    ELSE fun[CHOOSE x \in s : TRUE] + g[s \ {CHOOSE x \in s : TRUE}]
  <2>1. g[s] = IF s = {} THEN zero ELSE op[<<c[s], g[s \ {c[s]}]>>]
    BY <1>6 DEF FoldsOn
  <2>2. CASE s = {}
    BY <1>5, <2>1, <2>2
  <2>3. CASE s # {}
    <3>1. c[s] \in S /\ g[s \ {c[s]}] \in Int
      BY <1>4, <2>3
    <3>2. op[<<c[s], g[s \ {c[s]}]>>] = fun[c[s]] + g[s \ {c[s]}]
      BY <1>2, <3>1
    <3> QED
      BY <1>4, <2>1, <2>3, <3>2
  <2> QED
    BY <2>2, <2>3
<1>8. SumsOf(fun, S, g)
  BY <1>7 DEF SumsOf
<1> QED
  BY <1>8

\* A set of subsets of a finite set that is not empty has one from which no
\* element can be taken away.
LEMMA SmallestSetExists ==
  ASSUME NEW S, IsFiniteSet(S), NEW B, B \subseteq SUBSET S, B # {}
  PROVE  \E s \in B : \A x \in s : s \ {x} \notin B
<1> DEFINE sizes == {Cardinality(s) : s \in B}
<1>1. \A s \in B : IsFiniteSet(s) /\ Cardinality(s) \in Nat
  BY FS_Subset, FS_CardinalityType
<1>2. sizes \subseteq Nat /\ sizes # {}
  BY <1>1
<1>3. PICK k \in sizes : \A j \in sizes : k <= j
  <2> HIDE DEF sizes
  <2> QED
    BY <1>2, LeastExists, Zenon
<1>4. PICK s \in B : k = Cardinality(s)
  BY <1>3
<1>5. ASSUME NEW x \in s, s \ {x} \in B PROVE FALSE
  <2>1. Cardinality(s \ {x}) = Cardinality(s) - 1 /\ Cardinality(s) \in Nat
    BY <1>1, FS_RemoveElement
  <2>2. Cardinality(s) <= Cardinality(s \ {x})
    BY <1>3, <1>4, <1>5
  <2> QED
    BY <2>1, <2>2
<1> QED
  BY <1>5

\* A sum of integers is an integer.
LEMMA SumsType ==
  ASSUME NEW S, IsFiniteSet(S), NEW fun \in [S -> Int], NEW g, SumsOf(fun, S, g)
  PROVE  \A s \in SUBSET S : g[s] \in Int
<1> DEFINE bad == {s \in SUBSET S : g[s] \notin Int}
<1>1. SUFFICES ASSUME bad # {} PROVE FALSE
  OBVIOUS
<1>2. PICK s \in bad : \A x \in s : s \ {x} \notin bad
  <2>1. bad \subseteq SUBSET S
    OBVIOUS
  <2> HIDE DEF bad
  <2> QED
    BY <1>1, <2>1, SmallestSetExists
<1>3. PICK x : x = CHOOSE e \in s : TRUE
  OBVIOUS
<1>4. g[s] = IF s = {} THEN 0 ELSE fun[x] + g[s \ {x}]
  BY <1>2, <1>3 DEF SumsOf
<1>5. CASE s = {}
  BY <1>2, <1>4, <1>5
<1>6. CASE s # {}
  <2>1. x \in s
    BY <1>3, <1>6
  <2>2. g[s \ {x}] \in Int /\ fun[x] \in Int
    BY <1>2, <2>1
  <2> QED
    BY <1>2, <1>4, <1>6, <2>2
<1> QED
  BY <1>5, <1>6

Commutes(fun, S, g) == \A s \in SUBSET S : \A y \in s : g[s] = fun[y] + g[s \ {y}]

\* The sum does not depend on the element that is added last.
LEMMA AnyOrder ==
  ASSUME NEW S, IsFiniteSet(S), NEW fun \in [S -> Int], NEW g, SumsOf(fun, S, g)
  PROVE  Commutes(fun, S, g)
<1> DEFINE bad == {s \in SUBSET S : \E y \in s : g[s] # fun[y] + g[s \ {y}]}
<1>1. SUFFICES ASSUME bad # {} PROVE FALSE
  BY DEF Commutes
<1>2. PICK s \in bad : \A x \in s : s \ {x} \notin bad
  <2>1. bad \subseteq SUBSET S
    OBVIOUS
  <2> HIDE DEF bad
  <2> QED
    BY <1>1, <2>1, SmallestSetExists
<1>3. PICK y \in s : g[s] # fun[y] + g[s \ {y}]
  BY <1>2
<1>4. PICK x : x = CHOOSE e \in s : TRUE
  OBVIOUS
<1>5. x \in s /\ x \in S /\ y \in S
  BY <1>2, <1>3, <1>4
<1>6. g[s] = fun[x] + g[s \ {x}]
  BY <1>2, <1>4, <1>5 DEF SumsOf
<1>7. x # y
  BY <1>3, <1>6
<1>8. PICK both : both = s \ {x, y}
  OBVIOUS
<1>9. (s \ {x}) \ {y} = both /\ (s \ {y}) \ {x} = both /\ both \in SUBSET S
  BY <1>2, <1>8
<1>10. g[s \ {x}] = fun[y] + g[both]
  <2>1. s \ {x} \notin bad /\ s \ {x} \in SUBSET S /\ y \in s \ {x}
    BY <1>2, <1>5, <1>7
  <2> QED
    BY <1>9, <2>1
<1>11. g[s \ {y}] = fun[x] + g[both]
  <2>1. s \ {y} \notin bad /\ s \ {y} \in SUBSET S /\ x \in s \ {y}
    BY <1>2, <1>5, <1>7
  <2> QED
    BY <1>9, <2>1
<1>12. g[both] \in Int /\ fun[x] \in Int /\ fun[y] \in Int
  BY <1>5, <1>9, SumsType
<1> QED
  BY <1>3, <1>6, <1>10, <1>11, <1>12

\* Functions that agree on a set have the same sum over it.
LEMMA SumsAgree ==
  ASSUME NEW S, IsFiniteSet(S), NEW fun, NEW other, NEW g, NEW h,
         SumsOf(fun, S, g), SumsOf(other, S, h),
         NEW T \in SUBSET S, \A x \in T : fun[x] = other[x]
  PROVE  g[T] = h[T]
<1> DEFINE bad == {s \in SUBSET T : g[s] # h[s]}
<1>1. SUFFICES ASSUME bad # {} PROVE FALSE
  OBVIOUS
<1>2. PICK s \in bad : \A x \in s : s \ {x} \notin bad
  <2>1. bad \subseteq SUBSET S
    OBVIOUS
  <2> HIDE DEF bad
  <2> QED
    BY <1>1, <2>1, SmallestSetExists
<1>3. PICK x : x = CHOOSE e \in s : TRUE
  OBVIOUS
<1>4. s \in SUBSET S /\ s \in SUBSET T /\ g[s] # h[s]
  BY <1>2
<1>5. /\ g[s] = IF s = {} THEN 0 ELSE fun[x] + g[s \ {x}]
      /\ h[s] = IF s = {} THEN 0 ELSE other[x] + h[s \ {x}]
  BY <1>3, <1>4 DEF SumsOf
<1>6. s # {} => x \in s /\ fun[x] = other[x] /\ g[s \ {x}] = h[s \ {x}]
  <2>1. SUFFICES ASSUME s # {} PROVE x \in s /\ fun[x] = other[x] /\ g[s \ {x}] = h[s \ {x}]
    OBVIOUS
  <2>2. x \in s
    BY <1>3, <2>1
  <2>3. s \ {x} \notin bad /\ s \ {x} \in SUBSET T
    BY <1>2, <1>4, <2>2
  <2> QED
    BY <1>4, <2>2, <2>3
<1> QED
  BY <1>4, <1>5, <1>6

\* The sum of all values.
SumOver(fun) == (CHOOSE g : SumsOf(fun, DOMAIN fun, g))[DOMAIN fun]

\* The sum of all is one of those sums.
LEMMA SumIsOneOf ==
  ASSUME NEW S, IsFiniteSet(S), NEW fun \in [S -> Int]
  PROVE  \E g : SumsOf(fun, S, g) /\ SumOver(fun) = g[S]
<1>1. PICK g : g = CHOOSE h : SumsOf(fun, S, h)
  OBVIOUS
<1>2. SumsOf(fun, S, g)
  BY <1>1, SumsExist
<1>3. DOMAIN fun = S
  OBVIOUS
<1>4. SumOver(fun) = g[S]
  BY <1>1, <1>3 DEF SumOver
<1> QED
  BY <1>2, <1>4

\* Changing one value changes the sum by as much.
LEMMA SumChanges ==
  ASSUME NEW S, IsFiniteSet(S), NEW fun \in [S -> Int], NEW w \in S, NEW n \in Int
  PROVE  /\ SumOver(fun) \in Int
         /\ SumOver([fun EXCEPT ![w] = n]) = (SumOver(fun) - fun[w]) + n
<1>1. PICK other \in [S -> Int] : other = [fun EXCEPT ![w] = n]
  OBVIOUS
<1>2. PICK g : SumsOf(fun, S, g) /\ SumOver(fun) = g[S]
  BY SumIsOneOf
<1>3. PICK h : SumsOf(other, S, h) /\ SumOver(other) = h[S]
  BY SumIsOneOf
<1>4. PICK T \in SUBSET S : T = S \ {w}
  OBVIOUS
<1>5. \A x \in T : fun[x] = other[x]
  BY <1>1, <1>4
<1>6. g[T] = h[T]
  BY <1>2, <1>3, <1>5, SumsAgree
<1>7. g[S] = fun[w] + g[T] /\ g[S] \in Int /\ g[T] \in Int
  <2>1. \A s \in SUBSET S : g[s] \in Int
    BY <1>2, SumsType
  <2>2. Commutes(fun, S, g)
    BY <1>2, AnyOrder
  <2> QED
    BY <1>4, <2>1, <2>2 DEF Commutes
<1>8. h[S] = other[w] + h[T]
  <2>1. Commutes(other, S, h)
    BY <1>3, AnyOrder
  <2> QED
    BY <1>4, <2>1 DEF Commutes
<1>9. other[w] = n /\ fun[w] \in Int
  BY <1>1
<1> QED
  BY <1>1, <1>2, <1>3, <1>6, <1>7, <1>8, <1>9

\* Where nothing is counted the sum is 0.
LEMMA SumOfZeros ==
  ASSUME NEW S, IsFiniteSet(S), NEW fun, fun = [x \in S |-> 0]
  PROVE  SumOver(fun) = 0
<1>1. fun \in [S -> Int]
  OBVIOUS
<1>2. PICK g : SumsOf(fun, S, g) /\ SumOver(fun) = g[S]
  BY <1>1, SumIsOneOf
<1> DEFINE bad == {s \in SUBSET S : g[s] # 0}
<1>3. SUFFICES ASSUME bad # {} PROVE FALSE
  BY <1>2
<1>4. PICK s \in bad : \A x \in s : s \ {x} \notin bad
  <2>1. bad \subseteq SUBSET S
    OBVIOUS
  <2> HIDE DEF bad
  <2> QED
    BY <1>3, <2>1, SmallestSetExists
<1>5. PICK x : x = CHOOSE e \in s : TRUE
  OBVIOUS
<1>6. s \in SUBSET S /\ g[s] # 0 /\ (s # {} => x \in s)
  BY <1>4, <1>5
<1>7. g[s] = IF s = {} THEN 0 ELSE fun[x] + g[s \ {x}]
  BY <1>2, <1>5, <1>6 DEF SumsOf
<1>8. s # {} => fun[x] = 0 /\ g[s \ {x}] = 0
  BY <1>4, <1>6
<1> QED
  BY <1>6, <1>7, <1>8

-----------------------------------------------------------------------------
(* Remainders. *)

\* A product of a positive number is 0 or not less than it.
LEMMA Multiples ==
  ASSUME NEW m \in Nat \ {0}, NEW k \in Int
  PROVE  k * m \in Int /\ (k >= 1 => k * m >= m) /\ (k <= -1 => k * m <= -m)
  OBVIOUS

\* What a remainder is.
LEMMA Remainder ==
  ASSUME NEW a \in Int, NEW m \in Nat \ {0}
  PROVE  /\ a % m \in 0 .. m - 1
         /\ \E q \in Int : a = q * m + (a % m)
<1>1. a % m \in 0 .. m - 1
  OBVIOUS
<1>2. a = (a \div m) * m + (a % m) /\ a \div m \in Int
  OBVIOUS
<1> QED
  BY <1>1, <1>2

Apart(a, b, m) == \E k \in Int : a = b + k * m

\* Numbers that are a multiple apart have the same remainder.
LEMMA SameRemainder ==
  ASSUME NEW a \in Int, NEW b \in Int, NEW m \in Nat \ {0}, Apart(a, b, m)
  PROVE  a % m = b % m
<1>0. PICK k \in Int : a = b + k * m
  BY DEF Apart
<1>1. PICK p \in Int : a = p * m + (a % m)
  BY Remainder
<1>2. PICK q \in Int : b = q * m + (b % m)
  BY Remainder
<1>3. PICK r \in 0 .. m - 1, s \in 0 .. m - 1 : r = a % m /\ s = b % m
  BY Remainder
<1>4. PICK d \in Int : d = p - q - k
  OBVIOUS
<1>5. PICK x \in Int, y \in Int, z \in Int : x = p * m /\ y = q * m /\ z = k * m
  BY Multiples
<1>8. d * m = x - y - z
  BY <1>4, <1>5
<1>9. a = x + r /\ b = y + s /\ a = b + z
  BY <1>0, <1>1, <1>2, <1>3, <1>5
<1>6. s - r = d * m
  BY <1>8, <1>9
<1>7. d = 0
  BY <1>3, <1>6, Multiples
<1> QED
  BY <1>3, <1>6, <1>7

\* Adding may come before or after taking the remainder.
LEMMA RemainderOfSum ==
  ASSUME NEW a \in Int, NEW b \in Int, NEW m \in Nat \ {0}
  PROVE  ((a % m) + b) % m = (a + b) % m
<1>1. PICK q \in Int : a = q * m + (a % m)
  BY Remainder
<1>2. PICK r \in Int : r = a % m
  BY Remainder
<1>3. q * m \in Int
  BY Multiples
<1>4. PICK c \in Int, d \in Int : c = a + b /\ d = r + b
  BY <1>2
<1>5. c = d + q * m
  BY <1>1, <1>2, <1>3, <1>4
<1>6. c % m = d % m
  <2>1. Apart(c, d, m)
    BY <1>5 DEF Apart
  <2> QED
    BY <2>1, SameRemainder
<1> QED
  BY <1>2, <1>4, <1>6

\* What is less than m is its own remainder.
LEMMA SmallRemainder ==
  ASSUME NEW a \in Nat, NEW m \in Nat \ {0}, a < m
  PROVE  a % m = a
  OBVIOUS

\* A remainder modulo a multiple of m has the same remainder modulo m.
LEMMA RemainderOfRemainder ==
  ASSUME NEW a \in Int, NEW m \in Nat \ {0}, NEW l \in Nat \ {0}, l % m = 0
  PROVE  (a % l) % m = a % m
<1>1. PICK k \in Int : l = k * m
  <2>1. l \in Int
    OBVIOUS
  <2>2. PICK k \in Int : l = k * m + (l % m)
    BY <2>1, Remainder, Zenon
  <2>3. PICK x \in Int : x = k * m
    BY Multiples
  <2> QED
    BY <2>2, <2>3
<1>2. PICK q \in Int : a = q * l + (a % l)
  BY Remainder
<1>3. PICK r \in Int : r = a % l
  BY Remainder
<1>4. PICK j \in Int : j = q * k
  OBVIOUS
<1>5. q * l = j * m
  BY <1>1, <1>4
<1>6. a = r + j * m
  <2>1. j * m \in Int
    BY Multiples
  <2> QED
    BY <1>2, <1>3, <1>5, <2>1
<1>7. Apart(a, r, m)
  BY <1>6 DEF Apart
<1>8. a % m = r % m
  BY <1>7, SameRemainder
<1> QED
  BY <1>3, <1>8

-----------------------------------------------------------------------------
(* Nothing is lost. *)

CountsAreNumbers ==
  /\ total_bytes \in Int
  /\ bytes \in Int
  /\ taken \in Int
  /\ counting \in [Workers -> Int]

\* InFlight is the sum of what the workers are counting.
LEMMA InFlightIsSum ==
  /\ InFlight = SumOver(counting)
  /\ InFlight' = SumOver(counting')
  BY DEF InFlight, SumOver, SumsOf, FoldFunction, FoldFunctionOnSet, MapThenFoldSet

\* It follows what each of them does.
LEMMA InFlightChanges ==
  ASSUME CountsAreNumbers, NEW w \in Workers, NEW n \in Int,
         counting' = [counting EXCEPT ![w] = n]
  PROVE  /\ InFlight \in Int
         /\ InFlight' = (InFlight - counting[w]) + n
<1>1. InFlight = SumOver(counting) /\ InFlight' = SumOver(counting')
  BY InFlightIsSum
<1>2. PICK f \in [Workers -> Int] : f = counting
  BY DEF CountsAreNumbers
<1>3. SumOver(f) \in Int /\ SumOver([f EXCEPT ![w] = n]) = (SumOver(f) - f[w]) + n
  <2>1. IsFiniteSet(Workers)
    BY StatisticsAssumption
  <2> QED
    BY <2>1, SumChanges
<1> QED
  BY <1>1, <1>2, <1>3

\* It is a number in any case.
LEMMA InFlightType ==
  ASSUME CountsAreNumbers
  PROVE  InFlight \in Int
<1>1. PICK f \in [Workers -> Int] : f = counting
  BY DEF CountsAreNumbers
<1>2. PICK g : SumsOf(f, Workers, g) /\ SumOver(f) = g[Workers]
  BY SumIsOneOf, StatisticsAssumption
<1>3. g[Workers] \in Int
  <2>1. \A s \in SUBSET Workers : g[s] \in Int
    BY <1>2, SumsType, StatisticsAssumption
  <2> QED
    BY <2>1
<1> QED
  BY <1>1, <1>2, <1>3, InFlightIsSum

\* The first addition: a worker has in flight what the total has more.
LEMMA CountInTotalAddsUp ==
  ASSUME CountsAreNumbers, SamplesAddUp, NEW w \in Workers, CountInTotal(w)
  PROVE  CountsAreNumbers' /\ SamplesAddUp'
<1>1. PICK n \in Pieces : /\ total_bytes' = (total_bytes + n) % LongWord
                          /\ counting' = [counting EXCEPT ![w] = n]
  BY DEF CountInTotal
<1>2. n \in Int /\ Word \in Nat \ {0} /\ LongWord \in Nat \ {0} /\ LongWord % Word = 0
  BY StatisticsAssumption
<1>3. counting[w] = 0 /\ bytes' = bytes /\ taken' = taken
  BY DEF CountInTotal, Free
<1>4. InFlight \in Int /\ InFlight' = InFlight + n
  <2>1. InFlight \in Int /\ InFlight' = (InFlight - counting[w]) + n
    BY <1>1, <1>2, InFlightChanges
  <2> QED
    BY <1>2, <1>3, <2>1
<1>5. PICK all \in Int, more \in Int :
        all = taken + bytes + InFlight /\ more = taken' + bytes' + InFlight'
  BY <1>2, <1>3, <1>4 DEF CountsAreNumbers
<1>6. more = all + n
  BY <1>2, <1>3, <1>4, <1>5 DEF CountsAreNumbers
<1>7. all % Word = total_bytes % Word
  BY <1>5 DEF SamplesAddUp
<1>8. more % Word = ((all % Word) + n) % Word
  BY <1>2, <1>6, RemainderOfSum
<1>9. ((total_bytes % Word) + n) % Word = (total_bytes + n) % Word
  BY <1>2, RemainderOfSum DEF CountsAreNumbers
<1>10. PICK sum \in Int : sum = total_bytes + n
  BY <1>2 DEF CountsAreNumbers
<1>11. (sum % LongWord) % Word = sum % Word
  BY <1>2, RemainderOfRemainder
<1>12. sum % LongWord \in Int
  BY <1>2
<1>13. SamplesAddUp'
  BY <1>1, <1>5, <1>7, <1>8, <1>9, <1>10, <1>11 DEF SamplesAddUp
<1>14. CountsAreNumbers'
  BY <1>1, <1>2, <1>3, <1>10, <1>12 DEF CountsAreNumbers
<1> QED
  BY <1>13, <1>14

\* The second addition: what was in flight is in the bytes.
LEMMA CountInBytesAddsUp ==
  ASSUME CountsAreNumbers, SamplesAddUp, NEW w \in Workers, CountInBytes(w)
  PROVE  CountsAreNumbers' /\ SamplesAddUp'
<1>1. PICK n \in Int : n = counting[w]
  BY DEF CountsAreNumbers
<1>2. /\ bytes' = (bytes + n) % Word /\ counting' = [counting EXCEPT ![w] = 0]
      /\ total_bytes' = total_bytes /\ taken' = taken
  BY <1>1 DEF CountInBytes
<1>3. Word \in Nat \ {0} /\ bytes \in Int /\ taken \in Int
  BY StatisticsAssumption DEF CountsAreNumbers
<1>4. InFlight \in Int /\ InFlight' = InFlight - n
  <2>1. 0 \in Int
    OBVIOUS
  <2>2. InFlight \in Int /\ InFlight' = (InFlight - counting[w]) + 0
    BY <1>2, <2>1, InFlightChanges
  <2> QED
    BY <1>1, <2>2
<1>5. PICK sum \in Int, rest \in Int : sum = bytes + n /\ rest = taken + (InFlight - n)
  BY <1>3, <1>4
<1>6. ((sum % Word) + rest) % Word = (sum + rest) % Word
  BY <1>3, RemainderOfSum
<1>7. sum + rest = taken + bytes + InFlight
  BY <1>3, <1>4, <1>5
<1>8. sum % Word \in Int
  BY <1>3
<1>9. (sum % Word) + rest = taken' + bytes' + InFlight'
  BY <1>2, <1>3, <1>4, <1>5, <1>8
<1>10. SamplesAddUp'
  BY <1>2, <1>6, <1>7, <1>9 DEF SamplesAddUp
<1>11. CountsAreNumbers'
  BY <1>2, <1>3, <1>5, <1>8 DEF CountsAreNumbers
<1> QED
  BY <1>10, <1>11

\* Every step leaves the counts numbers that add up.
LEMMA AddsUpPreserved ==
  ASSUME CountsAreNumbers, SamplesAddUp, [Next]_vars
  PROVE  CountsAreNumbers' /\ SamplesAddUp'
<1>1. CASE \E w \in Workers : CountInTotal(w)
  BY <1>1, CountInTotalAddsUp
<1>2. CASE \E w \in Workers : CountInBytes(w)
  BY <1>2, CountInBytesAddsUp
<1>3. CASE \E w \in Workers : Exchange(w)
  <2>1. /\ taken' = taken + bytes /\ bytes' = 0
        /\ counting' = counting /\ total_bytes' = total_bytes
    BY <1>3 DEF Exchange, Emptied
  <2>2. InFlight' = InFlight /\ InFlight \in Int
    BY <2>1, InFlightType, InFlightIsSum
  <2>3. CountsAreNumbers'
    BY <2>1 DEF CountsAreNumbers
  <2>4. taken' + bytes' + InFlight' = taken + bytes + InFlight
    BY <2>1, <2>2 DEF CountsAreNumbers
  <2> QED
    BY <2>1, <2>3, <2>4 DEF SamplesAddUp
<1>4. CASE UNCHANGED <<total_bytes, bytes, taken, counting>>
  BY <1>4, InFlightIsSum DEF CountsAreNumbers, SamplesAddUp
<1>5. StoreRate \/ StoreSpeed \/ UNCHANGED vars => UNCHANGED <<total_bytes, bytes, taken, counting>>
  BY DEF StoreRate, StoreSpeed, vars
<1> QED
  BY <1>1, <1>2, <1>3, <1>4, <1>5 DEF Next

\* The total and the samples agree at every moment, for any number of workers, any
\* pieces and any widths: the additions of the workers and the exchange of the
\* callback, in whatever order, lose nothing and count nothing twice.
THEOREM SamplesAddUpHolds == Spec => []SamplesAddUp
<1>1. Init => CountsAreNumbers /\ SamplesAddUp
  <2> SUFFICES ASSUME Init PROVE CountsAreNumbers /\ SamplesAddUp
    OBVIOUS
  <2>1. counting = [w \in Workers |-> 0] /\ total_bytes = 0 /\ bytes = 0 /\ taken = 0
    BY DEF Init
  <2>2. SumOver(counting) = 0
    BY <2>1, SumOfZeros, StatisticsAssumption
  <2>3. InFlight = 0
    BY <2>2, InFlightIsSum
  <2> QED
    BY <2>1, <2>3 DEF CountsAreNumbers, SamplesAddUp
<1>2. CountsAreNumbers /\ SamplesAddUp /\ [Next]_vars => CountsAreNumbers' /\ SamplesAddUp'
  BY AddsUpPreserved
<1> QED
  BY <1>1, <1>2, PTL DEF Spec

-----------------------------------------------------------------------------
(* Sums from left to right. *)

\* A set of places in a sequence that is not empty has a largest one, and that of
\* the first i places is i.
LEMMA LargestExists ==
  ASSUME NEW n \in Nat
  PROVE  /\ \A s \in SUBSET (1 .. n) : s # {} => Max(s) \in s
         /\ \A i \in 1 .. n : Max(1 .. i) = i
<1>1. ASSUME NEW s \in SUBSET (1 .. n), s # {} PROVE Max(s) \in s
  <2> DEFINE gaps == {n - x : x \in s}
  <2>1. gaps \subseteq Nat /\ gaps # {}
    <3>1. \A x \in s : x \in 1 .. n
      OBVIOUS
    <3>2. PICK x : x \in s
      BY <1>1
    <3>3. n - x \in gaps
      BY <3>2
    <3>4. \A y \in 1 .. n : n - y \in Nat
      OBVIOUS
    <3> QED
      BY <3>1, <3>3, <3>4
  <2>2. PICK k \in gaps : \A j \in gaps : k <= j
    <3> HIDE DEF gaps
    <3> QED
      BY <2>1, LeastExists, Zenon
  <2>3. PICK x \in s : k = n - x
    BY <2>2
  <2>4. \A y \in s : x >= y
    BY <2>2, <2>3
  <2> QED
    BY <2>4 DEF Max
<1>2. ASSUME NEW i \in 1 .. n PROVE Max(1 .. i) = i
  <2>1. i \in 1 .. i /\ \A y \in 1 .. i : i >= y
    OBVIOUS
  <2>2. Max(1 .. i) \in 1 .. i /\ \A y \in 1 .. i : Max(1 .. i) >= y
    BY <2>1 DEF Max
  <2> QED
    BY <2>1, <2>2
<1> QED
  BY <1>1, <1>2

\* A sum is wrapped modulo w, or is not if w is 0.
Wrap(w, x) == IF w = 0 THEN x ELSE x % w

\* The values of a fold over a queue, from left to right.
FoldedOn(q, w, g) ==
  g = [s \in SUBSET DOMAIN q |-> IF s = {} THEN 0 ELSE Wrap(w, g[s \ {Max(s)}] + q[Max(s)])]

Folded(q, w) == (CHOOSE g : FoldedOn(q, w, g))[DOMAIN q]

\* The sums of the first elements, as many as there are, each from the one before.
Running(q, w, p) ==
  /\ p \in [0 .. Len(q) -> Int]
  /\ p[0] = 0
  /\ \A i \in 1 .. Len(q) : p[i] = Wrap(w, p[i - 1] + q[i])

\* A wrapped integer is an integer.
LEMMA WrapType ==
  ASSUME NEW w \in Nat, NEW x \in Int
  PROVE  Wrap(w, x) \in Int
  BY DEF Wrap

\* Taking the largest place away from the first i leaves those before it.
LEMMA PlacesBefore ==
  ASSUME NEW n \in Nat, NEW i \in 1 .. n
  PROVE  /\ 1 .. i \in SUBSET (1 .. n) /\ 1 .. i # {}
         /\ (1 .. i) \ {Max(1 .. i)} = 1 .. i - 1
<1>1. Max(1 .. i) = i
  BY LargestExists
<1> QED
  BY <1>1

\* The fold has values.
LEMMA FoldedExists ==
  ASSUME NEW q \in Seq(Int), NEW w \in Nat
  PROVE  \E g : FoldedOn(q, w, g)
<1>1. PICK n \in Nat : n = Len(q) /\ DOMAIN q = 1 .. n /\ \A i \in 1 .. n : q[i] \in Int
  OBVIOUS
<1>2. PICK S : S = 1 .. n /\ IsFiniteSet(S)
  BY FS_Interval
<1>3. PICK c : c = [s \in SUBSET S |-> Max(s)]
  OBVIOUS
<1>4. \A s \in SUBSET S : s # {} => c[s] \in s /\ c[s] = Max(s)
  BY <1>2, <1>3, LargestExists
<1>5. PICK op : op = [e \in S \X Int |-> Wrap(w, e[2] + q[e[1]])]
  OBVIOUS
<1>6. op \in [S \X Int -> Int] /\ \A x \in S, v \in Int : op[<<x, v>>] = Wrap(w, v + q[x])
  <2>1. ASSUME NEW x \in S, NEW v \in Int PROVE Wrap(w, v + q[x]) \in Int
    <3>1. v + q[x] \in Int
      BY <1>1, <1>2
    <3> QED
      BY <3>1, WrapType
  <2>2. \A e \in S \X Int : e[1] \in S /\ e[2] \in Int
    OBVIOUS
  <2> QED
    BY <1>5, <2>1, <2>2
<1>7. PICK zero \in Int : zero = 0
  OBVIOUS
<1>8. PICK g \in [SUBSET S -> Int] : FoldsOn(SUBSET S, c, op, zero, g)
  BY <1>2, <1>4, <1>6, FoldExists
<1>9. ASSUME NEW s \in SUBSET S
      PROVE  g[s] = IF s = {} THEN 0 ELSE Wrap(w, g[s \ {Max(s)}] + q[Max(s)])
  <2>1. g[s] = IF s = {} THEN zero ELSE op[<<c[s], g[s \ {c[s]}]>>]
    BY <1>8 DEF FoldsOn
  <2>2. CASE s = {}
    BY <1>7, <2>1, <2>2
  <2>3. CASE s # {}
    <3>1. c[s] \in S /\ g[s \ {c[s]}] \in Int /\ c[s] = Max(s)
      BY <1>4, <2>3
    <3> QED
      BY <1>6, <2>1, <2>3, <3>1
  <2> QED
    BY <2>2, <2>3
<1> QED
  BY <1>1, <1>2, <1>9 DEF FoldedOn

\* Its last value is the last of the running sums.
LEMMA FoldRuns ==
  ASSUME NEW q \in Seq(Int), NEW w \in Nat
  PROVE  \E p : Running(q, w, p) /\ Folded(q, w) = p[Len(q)]
<1>1. PICK n \in Nat : n = Len(q) /\ DOMAIN q = 1 .. n /\ \A i \in 1 .. n : q[i] \in Int
  OBVIOUS
<1>2. PICK h : h = CHOOSE g : FoldedOn(q, w, g)
  OBVIOUS
<1>3. FoldedOn(q, w, h) /\ Folded(q, w) = h[1 .. n]
  BY <1>1, <1>2, FoldedExists DEF Folded
<1>4. PICK p : p = [i \in 0 .. n |-> h[1 .. i]]
  OBVIOUS
<1>5. \A i \in 1 .. n : p[i] = Wrap(w, p[i - 1] + q[i])
  <2> TAKE i \in 1 .. n
  <2>1. /\ 1 .. i \in SUBSET (1 .. n) /\ 1 .. i # {}
        /\ (1 .. i) \ {Max(1 .. i)} = 1 .. i - 1
    BY PlacesBefore
  <2>2. Max(1 .. i) = i
    BY LargestExists
  <2>3. PICK s : s = 1 .. i
    OBVIOUS
  <2>4. h[s] = Wrap(w, h[s \ {Max(s)}] + q[Max(s)])
    BY <1>1, <1>3, <2>1, <2>3 DEF FoldedOn
  <2>5. p[i] = h[1 .. i] /\ p[i - 1] = h[1 .. i - 1]
    BY <1>4
  <2> QED
    BY <2>1, <2>2, <2>3, <2>4, <2>5
<1>6. p[0] = 0
  <2>1. h[{}] = 0
    BY <1>3 DEF FoldedOn
  <2>2. 1 .. 0 = {} /\ p[0] = h[1 .. 0]
    BY <1>4
  <2> QED
    BY <2>1, <2>2
<1> DEFINE bad == {i \in 0 .. n : p[i] \notin Int}
<1>7. bad = {}
  <2>1. SUFFICES ASSUME bad # {} PROVE FALSE
    OBVIOUS
  <2>2. bad \subseteq Nat
    OBVIOUS
  <2>3. PICK i \in bad : \A j \in bad : i <= j
    <3> HIDE DEF bad
    <3> QED
      BY <2>1, <2>2, LeastExists, Zenon
  <2>4. i \in 1 .. n /\ p[i] \notin Int
    BY <1>6, <2>3
  <2>5. p[i - 1] \in Int /\ q[i] \in Int
    BY <1>1, <2>3, <2>4
  <2>6. p[i - 1] + q[i] \in Int
    BY <2>5
  <2> QED
    BY <1>5, <2>4, <2>6, WrapType
<1>8. Running(q, w, p)
  <2>1. p \in [0 .. n -> Int]
    BY <1>4, <1>7
  <2> QED
    BY <1>1, <1>5, <1>6, <2>1 DEF Running
<1>9. p[n] = h[1 .. n]
  BY <1>4
<1> QED
  BY <1>1, <1>3, <1>8, <1>9

\* A sum is not less than its length times the least element, nor more than its
\* length times the largest.
LEMMA RunningBounds ==
  ASSUME NEW q \in Seq(Int), NEW p, Running(q, 0, p), NEW b \in Int
  PROVE  /\ (\A i \in 1 .. Len(q) : q[i] >= b) => p[Len(q)] >= Len(q) * b
         /\ (\A i \in 1 .. Len(q) : q[i] <= b) => p[Len(q)] <= Len(q) * b
<1>1. PICK n \in Nat : n = Len(q) /\ \A i \in 1 .. n : q[i] \in Int
  OBVIOUS
<1>2. /\ \A i \in 0 .. n : p[i] \in Int
      /\ p[0] = 0
      /\ \A i \in 1 .. n : p[i] = p[i - 1] + q[i]
  BY <1>1 DEF Running, Wrap
<1>3. PICK m : m = [i \in 0 .. n |-> i * b]
  OBVIOUS
<1>4. /\ \A i \in 0 .. n : m[i] \in Int
      /\ m[0] = 0
      /\ \A i \in 1 .. n : m[i] = m[i - 1] + b
      /\ m[n] = n * b
  <2>1. \A i \in 0 .. n : m[i] = i * b
    BY <1>3
  <2>2. \A i \in Int : i * b \in Int
    OBVIOUS
  <2>3. ASSUME NEW i \in 1 .. n PROVE i * b = (i - 1) * b + b
    OBVIOUS
  <2>4. 0 * b = 0
    OBVIOUS
  <2> QED
    BY <2>1, <2>2, <2>3, <2>4
<1>5. ASSUME \A i \in 1 .. n : q[i] >= b PROVE p[n] >= m[n]
  <2> DEFINE bad == {i \in 0 .. n : p[i] < m[i]}
  <2>1. SUFFICES ASSUME bad # {} PROVE FALSE
    BY <1>2, <1>4
  <2>2. bad \subseteq Nat
    OBVIOUS
  <2>3. PICK i \in bad : \A j \in bad : i <= j
    <3> HIDE DEF bad
    <3> QED
      BY <2>1, <2>2, LeastExists, Zenon
  <2>4. i \in 1 .. n /\ p[i] < m[i]
    BY <1>2, <1>4, <2>3
  <2>5. p[i - 1] >= m[i - 1]
    BY <1>2, <1>4, <2>3, <2>4
  <2> QED
    BY <1>1, <1>2, <1>4, <1>5, <2>4, <2>5
<1>6. ASSUME \A i \in 1 .. n : q[i] <= b PROVE p[n] <= m[n]
  <2> DEFINE bad == {i \in 0 .. n : p[i] > m[i]}
  <2>1. SUFFICES ASSUME bad # {} PROVE FALSE
    BY <1>2, <1>4
  <2>2. bad \subseteq Nat
    OBVIOUS
  <2>3. PICK i \in bad : \A j \in bad : i <= j
    <3> HIDE DEF bad
    <3> QED
      BY <2>1, <2>2, LeastExists, Zenon
  <2>4. i \in 1 .. n /\ p[i] > m[i]
    BY <1>2, <1>4, <2>3
  <2>5. p[i - 1] <= m[i - 1]
    BY <1>2, <1>4, <2>3, <2>4
  <2>6. PICK x \in Int, y \in Int, z \in Int : x = p[i - 1] /\ y = m[i - 1] /\ z = q[i]
    <3>1. i \in 1 .. n /\ i - 1 \in 0 .. n
      BY <2>4
    <3>2. p[i - 1] \in Int
      BY <1>2, <3>1
    <3>3. m[i - 1] \in Int
      BY <1>4, <3>1
    <3>4. q[i] \in Int
      BY <1>1, <3>1
    <3> QED
      BY <3>2, <3>3, <3>4
  <2>7. p[i] = x + z /\ m[i] = y + b /\ z <= b /\ x <= y
    BY <1>2, <1>4, <1>6, <2>4, <2>5, <2>6
  <2> QED
    BY <2>4, <2>7
<1> QED
  BY <1>1, <1>4, <1>5, <1>6

\* A sum of rates that fits in a word is not wrapped.
LEMMA NothingWraps ==
  ASSUME NEW q \in Seq(Nat), NEW p, NEW r, Running(q, 0, p), Running(q, Word, r),
         p[Len(q)] < Word
  PROVE  r[Len(q)] = p[Len(q)] /\ p[Len(q)] \in Nat
<1>0. Word \in Nat \ {0}
  BY StatisticsAssumption
<1>1. PICK n \in Nat : n = Len(q) /\ \A i \in 1 .. n : q[i] \in Nat
  OBVIOUS
<1>2. /\ \A i \in 0 .. n : p[i] \in Int
      /\ p[0] = 0
      /\ \A i \in 1 .. n : p[i] = p[i - 1] + q[i]
  BY <1>1 DEF Running, Wrap
<1>3. r[0] = 0 /\ \A i \in 1 .. n : r[i] = (r[i - 1] + q[i]) % Word
  BY <1>0, <1>1 DEF Running, Wrap
<1>4. \A i \in 0 .. n : p[i] <= p[n]
  <2> DEFINE bad == {k \in 0 .. n : p[n - k] > p[n]}
  <2>1. SUFFICES ASSUME bad # {} PROVE FALSE
    <3> SUFFICES ASSUME bad = {}, NEW i \in 0 .. n PROVE p[i] <= p[n]
      OBVIOUS
    <3>1. PICK k \in 0 .. n : k = n - i /\ n - k = i
      OBVIOUS
    <3>2. ~(p[n - k] > p[n])
      OBVIOUS
    <3> QED
      BY <1>2, <3>1, <3>2
  <2>2. bad \subseteq Nat
    OBVIOUS
  <2>3. PICK k \in bad : \A j \in bad : k <= j
    <3> HIDE DEF bad
    <3> QED
      BY <2>1, <2>2, LeastExists, Zenon
  <2>4. k \in 1 .. n /\ p[n - k] > p[n]
    <3>1. k \in 0 .. n /\ p[n - k] > p[n]
      BY <2>3
    <3>2. k # 0
      BY <1>2, <3>1
    <3> QED
      BY <3>1, <3>2
  <2>5. PICK i \in 0 .. n - 1 : i = n - k
    BY <2>4
  <2>6. k - 1 \in 0 .. n /\ k - 1 \notin bad /\ n - (k - 1) = i + 1
    BY <2>3, <2>4, <2>5
  <2>7. ~(p[i + 1] > p[n])
    BY <2>6
  <2>8. i + 1 \in 1 .. n /\ p[i + 1] = p[i] + q[i + 1] /\ q[i + 1] \in Nat /\ p[i] \in Int
    BY <1>1, <1>2, <2>5
  <2> QED
    BY <1>2, <2>4, <2>5, <2>7, <2>8
<1>5. \A i \in 0 .. n : r[i] = p[i] /\ p[i] \in Nat
  <2> DEFINE bad == {i \in 0 .. n : ~(r[i] = p[i] /\ p[i] \in Nat)}
  <2>1. SUFFICES ASSUME bad # {} PROVE FALSE
    OBVIOUS
  <2>2. bad \subseteq Nat
    OBVIOUS
  <2>3. PICK i \in bad : \A j \in bad : i <= j
    <3> HIDE DEF bad
    <3> QED
      BY <2>1, <2>2, LeastExists, Zenon
  <2>4. i \in 1 .. n /\ ~(r[i] = p[i] /\ p[i] \in Nat)
    BY <1>2, <1>3, <2>3
  <2>5. r[i - 1] = p[i - 1] /\ p[i - 1] \in Nat
    BY <2>3, <2>4
  <2>6. p[i] \in Nat /\ p[i] < Word
    <3>1. p[i] = p[i - 1] + q[i] /\ q[i] \in Nat /\ p[n] \in Int /\ p[i] <= p[n] /\ p[n] < Word
      BY <1>1, <1>2, <1>4, <2>4
    <3>2. PICK x \in Nat, y \in Nat : x = p[i - 1] /\ y = q[i]
      BY <2>5, <3>1
    <3> QED
      BY <1>0, <3>1, <3>2
  <2>7. p[i] % Word = p[i]
    <3>1. PICK x \in Nat : x = p[i]
      BY <2>6
    <3> QED
      BY <1>0, <2>6, <3>1, SmallRemainder
  <2> QED
    BY <1>2, <1>3, <2>4, <2>5, <2>6, <2>7
<1> QED
  BY <1>1, <1>5

\* The quotient of a sum and the number of its terms.
LEMMA Quotient ==
  ASSUME NEW a \in Nat, NEW n \in Nat \ {0}
  PROVE  /\ a \div n \in Nat /\ a \div n <= a
         /\ n * (a \div n) <= a /\ a < n * ((a \div n) + 1)
<1>1. PICK d \in Int, r \in 0 .. n - 1 : d = a \div n /\ r = a % n /\ a = n * d + r
  OBVIOUS
<1>2. PICK x \in Int : x = n * d
  OBVIOUS
<1>3. n * (d + 1) = x + n
  BY <1>2
<1>4. a = x + r
  BY <1>1, <1>2
<1>5. d >= 0
  <2>1. d <= -1 => x <= -n
    BY <1>2
  <2> QED
    BY <1>4, <2>1
<1>6. d <= x
  BY <1>2, <1>5
<1> QED
  BY <1>1, <1>2, <1>3, <1>4, <1>5, <1>6

\* The average of rates whose sum fits in an int lies among them.
LEMMA AverageIsAmong ==
  ASSUME NEW q \in Seq(Nat), q # <<>>, Folded(q, 0) < Word \div 2,
         NEW a, a = (Folded(q, Word) \div Len(q)) % Word, NEW half, half = Word \div 2
  PROVE  /\ Folded(q, Word) < half
         /\ \E i \in DOMAIN q : q[i] <= a
         /\ \E i \in DOMAIN q : a <= q[i]
<1>0. Word \in Nat \ {0} /\ half \in Nat /\ half <= Word
  BY StatisticsAssumption
<1>1. q \in Seq(Int)
  OBVIOUS
<1>2. PICK n \in Nat \ {0} : n = Len(q) /\ DOMAIN q = 1 .. n /\ \A i \in 1 .. n : q[i] \in Nat
  OBVIOUS
<1>3. PICK p : Running(q, 0, p) /\ Folded(q, 0) = p[n]
  BY <1>1, <1>2, FoldRuns
<1>4. PICK r : Running(q, Word, r) /\ Folded(q, Word) = r[n]
  BY <1>0, <1>1, <1>2, FoldRuns
<1>5. p[n] \in Int /\ p[n] < half
  BY <1>2, <1>3 DEF Running
<1>6. r[n] = p[n] /\ p[n] \in Nat
  <2>1. p[Len(q)] < Word
    BY <1>0, <1>2, <1>5
  <2> QED
    BY <1>2, <1>3, <1>4, <2>1, NothingWraps
<1>7. PICK sum \in Nat : sum = p[n]
  BY <1>6
<1>8. PICK d \in Nat : d = sum \div n /\ d <= sum
  BY Quotient
<1>9. n * d <= sum /\ sum < n * (d + 1)
  BY <1>8, Quotient
<1>10. a = d
  <2>1. d < Word
    BY <1>0, <1>5, <1>7, <1>8
  <2>2. d % Word = d
    BY <1>0, <2>1, SmallRemainder
  <2> QED
    BY <1>2, <1>4, <1>6, <1>7, <1>8, <2>2
<1>11. \E i \in 1 .. n : q[i] <= d
  <2>1. SUFFICES ASSUME \A i \in 1 .. n : ~(q[i] <= d) PROVE FALSE
    OBVIOUS
  <2>2. PICK b \in Int : b = d + 1
    OBVIOUS
  <2>3. \A i \in 1 .. Len(q) : q[i] >= b
    BY <1>2, <2>1, <2>2
  <2>4. p[Len(q)] >= Len(q) * b
    BY <1>1, <1>3, <2>3, RunningBounds
  <2>5. PICK x \in Int : x = n * b
    OBVIOUS
  <2> QED
    BY <1>2, <1>7, <1>9, <2>2, <2>4, <2>5
<1>12. \E i \in 1 .. n : d <= q[i]
  <2>1. SUFFICES ASSUME \A i \in 1 .. n : ~(d <= q[i]) PROVE FALSE
    OBVIOUS
  <2>2. PICK b \in Int : b = d - 1
    OBVIOUS
  <2>3. \A i \in 1 .. Len(q) : q[i] <= b
    BY <1>2, <2>1, <2>2
  <2>4. p[Len(q)] <= Len(q) * b
    BY <1>1, <1>3, <2>3, RunningBounds
  <2>5. n * b = n * d - n
    BY <2>2
  <2>6. PICK x \in Int : x = n * d
    OBVIOUS
  <2> QED
    BY <1>2, <1>7, <1>9, <2>4, <2>5, <2>6
<1> QED
  BY <1>2, <1>4, <1>5, <1>6, <1>10, <1>11, <1>12

-----------------------------------------------------------------------------
(* The speed follows the rates. *)

\* The speed is computed from the fold that wraps, and the property asks for the
\* one that does not.
LEMMA AverageIs ==
  ASSUME NEW q
  PROVE  /\ FoldLeft(+, 0, q) = Folded(q, 0)
         /\ Average(q) =
              ((IF Folded(q, Word) < Word \div 2 THEN Folded(q, Word)
                ELSE LongWord - Word + Folded(q, Word)) \div Len(q)) % Word
<1>1. Word # 0
  BY StatisticsAssumption
<1>2. FoldLeft(+, 0, q) = Folded(q, 0)
  BY DEF FoldLeft, MapThenFoldSet, Folded, FoldedOn, Wrap
<1>3. FoldLeft(LAMBDA a, b : (a + b) % Word, 0, q) = Folded(q, Word)
  BY <1>1 DEF FoldLeft, MapThenFoldSet, Folded, FoldedOn, Wrap
<1> QED
  BY <1>2, <1>3 DEF Average

\* Between two callbacks the speed is the average of the rates in the queue.
SpeedIsAverage ==
  /\ bytes \in Nat
  /\ sample = <<>> \/ \E v \in Nat : sample = <<v>>
  /\ rate_queue \in Seq(Nat)
  /\ sampler = "none" =>
       sample = <<>> /\ (rate_queue # <<>> => speed = Average(rate_queue))

\* A queue that has been given a rate is a queue.
LEMMA KeptType ==
  ASSUME NEW q \in Seq(Nat), NEW v \in Nat
  PROVE  Kept(Append(q, v)) \in Seq(Nat)
<1>1. PICK s \in Seq(Nat) : s = Append(q, v) /\ Len(s) = Len(q) + 1
  <2>1. Append(q, v) \in Seq(Nat)
    OBVIOUS
  <2>2. Len(Append(q, v)) = Len(q) + 1
    OBVIOUS
  <2> QED
    BY <2>1, <2>2
<1>2. s # <<>>
  BY <1>1
<1>3. Tail(s) \in Seq(Nat)
  BY <1>2
<1> QED
  BY <1>1, <1>3 DEF Kept

\* The steps of workers and of the callback leave the speed the average.
LEMMA SpeedIsAveragePreserved ==
  ASSUME CountsAreNumbers, SpeedIsAverage, [Next]_vars
  PROVE  SpeedIsAverage'
<1>0. Word \in Nat \ {0} /\ "none" \notin Workers
  BY StatisticsAssumption
<1>1. CASE \E w \in Workers : CountInTotal(w)
  <2>1. UNCHANGED <<bytes, speed, rate_queue, sampler, sample>>
    BY <1>1 DEF CountInTotal
  <2> QED
    BY <2>1 DEF SpeedIsAverage
<1>2. CASE \E w \in Workers : CountInBytes(w)
  <2>1. PICK w \in Workers : CountInBytes(w)
    BY <1>2
  <2>2. UNCHANGED <<speed, rate_queue, sampler, sample>>
    BY <2>1 DEF CountInBytes
  <2>3. PICK sum \in Int : sum = bytes + counting[w]
    BY DEF CountsAreNumbers
  <2>4. bytes' = sum % Word
    BY <2>1, <2>3 DEF CountInBytes
  <2>5. bytes' \in Nat
    BY <1>0, <2>4, Remainder
  <2> QED
    BY <2>2, <2>5 DEF SpeedIsAverage
<1>3. CASE \E w \in Workers : Exchange(w)
  <2>1. /\ bytes' = 0 /\ sample' = <<bytes>> /\ sampler' # "none"
        /\ UNCHANGED rate_queue
    BY <1>0, <1>3 DEF Exchange, Emptied
  <2> QED
    BY <2>1 DEF SpeedIsAverage
<1>4. CASE StoreRate
  <2>1. PICK v \in Nat : sample = <<v>>
    BY <1>4 DEF StoreRate, SpeedIsAverage
  <2>2. sampler # "none"
    BY <1>4 DEF StoreRate, SpeedIsAverage
  <2>3. /\ rate_queue' = Kept(Append(rate_queue, v)) /\ sample' = <<>>
        /\ UNCHANGED <<bytes, sampler>>
    BY <1>4, <2>1 DEF StoreRate
  <2>4. rate_queue' \in Seq(Nat)
    BY <2>3, KeptType DEF SpeedIsAverage
  <2> QED
    BY <2>2, <2>3, <2>4 DEF SpeedIsAverage
<1>5. CASE StoreSpeed
  <2>1. speed' = Average(rate_queue) /\ sample = <<>> /\ UNCHANGED <<bytes, rate_queue, sample>>
    BY <1>5 DEF StoreSpeed
  <2> QED
    BY <2>1 DEF SpeedIsAverage
<1>6. CASE UNCHANGED vars
  BY <1>6 DEF SpeedIsAverage, vars
<1> QED
  BY <1>1, <1>2, <1>3, <1>4, <1>5, <1>6 DEF Next

\* Between two callbacks the speed lies between the least and the largest of the
\* rates it is made of, if their sum fits in an int: for any length of the queue,
\* nothing of what is divided has been wrapped.
THEOREM SpeedIsAmongRatesHolds == Spec => []SpeedIsAmongRates
<1>1. Init => CountsAreNumbers /\ SpeedIsAverage
  <2> SUFFICES ASSUME Init PROVE CountsAreNumbers /\ SpeedIsAverage
    OBVIOUS
  <2>1. /\ counting = [w \in Workers |-> 0] /\ total_bytes = 0 /\ bytes = 0 /\ taken = 0
        /\ rate_queue = <<>> /\ sample = <<>>
    BY DEF Init
  <2> QED
    BY <2>1 DEF CountsAreNumbers, SpeedIsAverage
<1>2. SpeedIsAverage => SpeedIsAmongRates
  <2> SUFFICES ASSUME SpeedIsAverage, sampler = "none", rate_queue # <<>>,
                      FoldLeft(+, 0, rate_queue) < Word \div 2
               PROVE  /\ \E i \in DOMAIN rate_queue : rate_queue[i] <= speed
                      /\ \E i \in DOMAIN rate_queue : speed <= rate_queue[i]
    BY DEF SpeedIsAmongRates
  <2>1. PICK q \in Seq(Nat) : q = rate_queue /\ q # <<>>
    BY DEF SpeedIsAverage
  <2>2. Folded(q, 0) < Word \div 2
    BY <2>1, AverageIs
  <2>3. PICK a, half : half = Word \div 2 /\ a = (Folded(q, Word) \div Len(q)) % Word
    OBVIOUS
  <2>4. /\ Folded(q, Word) < half
        /\ \E i \in DOMAIN q : q[i] <= a
        /\ \E i \in DOMAIN q : a <= q[i]
    BY <2>1, <2>2, <2>3, AverageIsAmong
  <2>5. Average(q) = a
    BY <2>3, <2>4, AverageIs
  <2>6. speed = a
    BY <2>1, <2>5 DEF SpeedIsAverage
  <2> QED
    BY <2>1, <2>4, <2>6
<1>3. CountsAreNumbers /\ SamplesAddUp /\ [Next]_vars => CountsAreNumbers'
  BY AddsUpPreserved
<1>4. CountsAreNumbers /\ SpeedIsAverage /\ [Next]_vars => SpeedIsAverage'
  BY SpeedIsAveragePreserved
<1> QED
  BY <1>1, <1>2, <1>3, <1>4, SamplesAddUpHolds, PTL DEF Spec
=============================================================================
