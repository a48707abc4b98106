-------------------------- MODULE HeaderParserProofs --------------------------
(***************************************************************************)
(* Proofs about the header parser, for any digits, letters and widths of   *)
(* its numbers: what is understood of a start line is what was written.    *)
(***************************************************************************)
EXTENDS HeaderParser, SequenceTheorems, FiniteSetTheorems, WellFoundedInduction, TLAPS

\* A set of naturals that is not empty has a least element.
LEMMA LeastOf ==
  ASSUME NEW T, T \subseteq Nat, T # {}
  PROVE  \E x \in T : \A y \in T : x <= y
<1>1. IsWellFoundedOn(OpToRel(<, Nat), Nat)
  BY NatLessThanWellFounded
<1>2. PICK x \in T : \A y \in T : ~ (<<y, x>> \in OpToRel(<, Nat))
  BY <1>1, WFMin
<1>3. \A y \in T : ~ (y < x)
  BY <1>2 DEF OpToRel
<1> QED BY <1>3

\* It is the one that Min gives.
LEMMA MinIs ==
  ASSUME NEW T, T \subseteq Nat, T # {}
  PROVE  Min(T) \in T /\ \A y \in T : Min(T) <= y
<1>1. \E x \in T : \A y \in T : x <= y
  BY LeastOf
<1> QED BY <1>1 DEF Min

\* A set of numbers up to n that is not empty has a greatest element.
LEMMA MaxIs ==
  ASSUME NEW n \in Nat, NEW s \in SUBSET (0 .. n), s # {}
  PROVE  Max(s) \in s /\ \A i \in s : i <= Max(s)
<1> DEFINE T == {n - i : i \in s}
<1>0. ASSUME NEW i \in s PROVE i \in Nat /\ n - i \in Nat
  <2>1. i \in 0 .. n
    OBVIOUS
  <2> QED BY <2>1
<1>1. PICK k \in T : \A j \in T : k <= j
  <2>1. T \subseteq Nat /\ T # {}
    BY <1>0
  <2> HIDE DEF T
  <2> QED BY <2>1, LeastOf
<1>2. PICK m \in s : k = n - m
  BY <1>1
<1>3. \A i \in s : m >= i
  <2> SUFFICES ASSUME NEW i \in s PROVE m >= i
    OBVIOUS
  <2>1. k <= n - i
    BY <1>1
  <2>2. i \in Nat /\ m \in Nat
    BY <1>0
  <2> QED BY <1>2, <2>1, <2>2
<1>4. Max(s) \in s /\ \A i \in s : Max(s) >= i
  BY <1>2, <1>3 DEF Max
<1> HIDE DEF T
<1>5. PICK top \in s : top = Max(s)
  BY <1>4
<1>6. \A i \in s : i <= top
  BY <1>0, <1>4, <1>5
<1> QED BY <1>5, <1>6

----------------------------------------------------------------------------
(* Parts of a text.                                                        *)

\* What is between two places of a text.
LEMMA Between ==
  ASSUME NEW S, NEW s \in Seq(S), NEW i \in Nat, NEW k \in Nat, i <= k, k <= Len(s)
  PROVE  /\ SubSeq(s, i + 1, k) \in Seq(S)
         /\ Len(SubSeq(s, i + 1, k)) = k - i
         /\ \A j \in 1 .. k - i : SubSeq(s, i + 1, k)[j] = s[i + j]
<1>1. \A j \in i + 1 .. k : s[j] \in S
  <2> SUFFICES ASSUME NEW j \in i + 1 .. k PROVE s[j] \in S
    OBVIOUS
  <2>1. j \in 1 .. Len(s)
    BY LenProperties
  <2> QED BY <2>1, ElementOfSeq
<1>2. i + 1 \in Int /\ k \in Int
  OBVIOUS
<1>3. /\ SubSeq(s, i + 1, k) \in Seq(S)
      /\ Len(SubSeq(s, i + 1, k)) = IF i + 1 <= k THEN k - (i + 1) + 1 ELSE 0
      /\ \A j \in 1 .. k - (i + 1) + 1 : SubSeq(s, i + 1, k)[j] = s[(i + 1) + j - 1]
  BY <1>1, <1>2, SubSeqProperties
<1>4. k - (i + 1) + 1 = k - i /\ (i + 1 <= k <=> i < k)
  OBVIOUS
<1>5. Len(SubSeq(s, i + 1, k)) = k - i
  BY <1>3, <1>4
<1>6. ASSUME NEW j \in 1 .. k - i PROVE SubSeq(s, i + 1, k)[j] = s[i + j]
  <2>1. (i + 1) + j - 1 = i + j /\ j \in 1 .. k - (i + 1) + 1
    BY <1>4
  <2>2. SubSeq(s, i + 1, k)[j] = s[(i + 1) + j - 1]
    BY <1>3, <2>1
  <2> QED BY <2>1, <2>2
<1> QED BY <1>3, <1>5, <1>6

\* What a text begins with.
LEMMA Beginning ==
  ASSUME NEW S, NEW s \in Seq(S), NEW n \in Nat, n <= Len(s)
  PROVE  /\ SubSeq(s, 1, n) \in Seq(S)
         /\ Len(SubSeq(s, 1, n)) = n
         /\ \A j \in 1 .. n : SubSeq(s, 1, n)[j] = s[j]
<1>1. 0 \in Nat /\ 0 <= n
  OBVIOUS
<1>2. /\ SubSeq(s, 0 + 1, n) \in Seq(S)
      /\ Len(SubSeq(s, 0 + 1, n)) = n - 0
      /\ \A j \in 1 .. n - 0 : SubSeq(s, 0 + 1, n)[j] = s[0 + j]
  BY <1>1, Between
<1>3. 0 + 1 = 1 /\ n - 0 = n /\ \A j \in 1 .. n : 0 + j = j
  OBVIOUS
<1> QED BY <1>2, <1>3

\* What is behind a place.
LEMMA Behind ==
  ASSUME NEW S, NEW s \in Seq(S), NEW n \in Nat, n <= Len(s)
  PROVE  /\ After(s, n) \in Seq(S)
         /\ Len(After(s, n)) = Len(s) - n
         /\ \A j \in 1 .. Len(s) - n : After(s, n)[j] = s[n + j]
<1>1. Len(s) \in Nat
  BY LenProperties
<1> QED BY <1>1, Between DEF After

\* Sequences are equal if their elements are.
LEMMA SameText ==
  ASSUME NEW S, NEW s \in Seq(S), NEW T, NEW t \in Seq(T), Len(s) = Len(t),
         \A i \in 1 .. Len(s) : s[i] = t[i]
  PROVE  s = t
<1>1. s \in Seq(S \cup T) /\ t \in Seq(S \cup T)
  BY SeqMonotonic
<1> QED BY <1>1, SeqEqual

\* The first places of a sequence with property "in" are as many as come before the
\* first that has it not.
LEMMA LeadingPlaces ==
  ASSUME NEW L \in Nat, NEW fit \in SUBSET (1 .. L)
  PROVE  \E n \in 0 .. L : /\ \A i \in 1 .. n : i \in fit
                           /\ n = L \/ n + 1 \notin fit
                           /\ Cardinality({i \in 1 .. L : \A k \in 1 .. i : k \in fit}) = n
<1> DEFINE stops == {n \in Nat : n <= L /\ (n = L \/ n + 1 \notin fit)}
<1>1. PICK n \in stops : \A m \in stops : n <= m
  <2>1. L \in stops /\ stops \subseteq Nat
    OBVIOUS
  <2> HIDE DEF stops
  <2> QED BY <2>1, LeastOf
<1>2. n \in 0 .. L /\ (n = L \/ n + 1 \notin fit)
  OBVIOUS
<1>3. \A i \in 1 .. n : i \in fit
  <2> SUFFICES ASSUME NEW i \in 1 .. n, i \notin fit PROVE FALSE
    OBVIOUS
  <2>1. i - 1 \in stops
    BY <1>2
  <2>2. n <= i - 1
    BY <1>1, <2>1
  <2> QED BY <1>2, <2>2
<1>4. {i \in 1 .. L : \A k \in 1 .. i : k \in fit} = 1 .. n
  BY <1>2, <1>3
<1>5. Cardinality(1 .. n) = n
  <2>1. 1 \in Int /\ n \in Int /\ Cardinality(1 .. n) = IF 1 > n THEN 0 ELSE n - 1 + 1
    BY <1>2, FS_Interval
  <2> QED BY <1>2, <2>1
<1> QED BY <1>2, <1>3, <1>4, <1>5

\* UpTo ends before the first of the stops.
LEMMA UpToPlace ==
  ASSUME NEW S, NEW s \in Seq(S), NEW stops
  PROVE  \E n \in 0 .. Len(s) : /\ \A i \in 1 .. n : s[i] \notin stops
                                /\ n = Len(s) \/ s[n + 1] \in stops
                                /\ UpTo(s, stops) = SubSeq(s, 1, n)
                                /\ Len(UpTo(s, stops)) = n
<1> DEFINE fit == {i \in 1 .. Len(s) : s[i] \notin stops}
<1>1. Len(s) \in Nat /\ DOMAIN s = 1 .. Len(s)
  BY LenProperties
<1>2. PICK n \in 0 .. Len(s) :
        /\ \A i \in 1 .. n : i \in fit
        /\ n = Len(s) \/ n + 1 \notin fit
        /\ Cardinality({i \in 1 .. Len(s) : \A k \in 1 .. i : k \in fit}) = n
  <2>1. fit \in SUBSET (1 .. Len(s))
    OBVIOUS
  <2> HIDE DEF fit
  <2> QED BY <1>1, <2>1, LeadingPlaces
<1>3. {i \in DOMAIN s : \A k \in 1 .. i : s[k] \notin stops}
        = {i \in 1 .. Len(s) : \A k \in 1 .. i : k \in fit}
  BY <1>1
<1>4. UpTo(s, stops) = SubSeq(s, 1, n)
  BY <1>2, <1>3 DEF UpTo
<1>5. Len(SubSeq(s, 1, n)) = n
  BY <1>1, Beginning
<1>6. n = Len(s) \/ s[n + 1] \in stops
  <2> SUFFICES ASSUME n # Len(s) PROVE s[n + 1] \in stops
    OBVIOUS
  <2>1. PICK L \in Nat : L = Len(s)
    BY <1>1
  <2>2. n \in 0 .. L /\ n # L
    BY <2>1
  <2>3. n + 1 \in 1 .. L
    BY <2>2
  <2> QED BY <1>2, <2>1, <2>3
<1> QED BY <1>2, <1>4, <1>5, <1>6

\* It is the only place before the first of the stops.
LEMMA UpToIs ==
  ASSUME NEW S, NEW s \in Seq(S), NEW stops, NEW n \in Nat, n <= Len(s),
         \A i \in 1 .. n : s[i] \notin stops,
         n = Len(s) \/ s[n + 1] \in stops
  PROVE  UpTo(s, stops) = SubSeq(s, 1, n) /\ Len(UpTo(s, stops)) = n
<1>1. PICK m \in 0 .. Len(s) : /\ \A i \in 1 .. m : s[i] \notin stops
                               /\ m = Len(s) \/ s[m + 1] \in stops
                               /\ UpTo(s, stops) = SubSeq(s, 1, m)
                               /\ Len(UpTo(s, stops)) = m
  BY UpToPlace
<1>2. Len(s) \in Nat
  BY LenProperties
<1>3. m = n
  BY <1>1, <1>2
<1> QED BY <1>1, <1>3

\* Leading ends before the first character that is none of chars.
LEMMA LeadingPlace ==
  ASSUME NEW S, NEW s \in Seq(S), NEW chars
  PROVE  \E n \in 0 .. Len(s) : /\ \A i \in 1 .. n : s[i] \in chars
                                /\ n = Len(s) \/ s[n + 1] \notin chars
                                /\ Leading(s, chars) = SubSeq(s, 1, n)
                                /\ Len(Leading(s, chars)) = n
<1> DEFINE fit == {i \in 1 .. Len(s) : s[i] \in chars}
<1>1. Len(s) \in Nat /\ DOMAIN s = 1 .. Len(s)
  BY LenProperties
<1>2. PICK n \in 0 .. Len(s) :
        /\ \A i \in 1 .. n : i \in fit
        /\ n = Len(s) \/ n + 1 \notin fit
        /\ Cardinality({i \in 1 .. Len(s) : \A k \in 1 .. i : k \in fit}) = n
  <2>1. fit \in SUBSET (1 .. Len(s))
    OBVIOUS
  <2> HIDE DEF fit
  <2> QED BY <1>1, <2>1, LeadingPlaces
<1>3. {i \in DOMAIN s : \A k \in 1 .. i : s[k] \in chars}
        = {i \in 1 .. Len(s) : \A k \in 1 .. i : k \in fit}
  BY <1>1
<1>4. Leading(s, chars) = SubSeq(s, 1, n)
  BY <1>2, <1>3 DEF Leading
<1>5. Len(SubSeq(s, 1, n)) = n
  BY <1>1, Beginning
<1>6. n = Len(s) \/ s[n + 1] \notin chars
  <2> SUFFICES ASSUME n # Len(s) PROVE s[n + 1] \notin chars
    OBVIOUS
  <2>1. PICK L \in Nat : L = Len(s)
    BY <1>1
  <2>2. n \in 0 .. L /\ n # L
    BY <2>1
  <2>3. n + 1 \in 1 .. L
    BY <2>2
  <2> QED BY <1>2, <2>1, <2>3
<1> QED BY <1>2, <1>4, <1>5, <1>6

\* LeadingDigits ends before the first character that is no digit.
LEMMA DigitsPlace ==
  ASSUME NEW S, NEW s \in Seq(S)
  PROVE  \E n \in 0 .. Len(s) : /\ \A i \in 1 .. n : s[i] \in Digit
                                /\ n = Len(s) \/ s[n + 1] \notin Digit
                                /\ LeadingDigits(s) = SubSeq(s, 1, n)
                                /\ Len(LeadingDigits(s)) = n
BY LeadingPlace DEF LeadingDigits

\* It is the only such place.
LEMMA DigitsAre ==
  ASSUME NEW S, NEW s \in Seq(S), NEW n \in Nat, n <= Len(s),
         \A i \in 1 .. n : s[i] \in Digit,
         n = Len(s) \/ s[n + 1] \notin Digit
  PROVE  LeadingDigits(s) = SubSeq(s, 1, n) /\ Len(LeadingDigits(s)) = n
<1>1. PICK m \in 0 .. Len(s) : /\ \A i \in 1 .. m : s[i] \in Digit
                               /\ m = Len(s) \/ s[m + 1] \notin Digit
                               /\ LeadingDigits(s) = SubSeq(s, 1, m)
                               /\ Len(LeadingDigits(s)) = m
  BY DigitsPlace
<1>2. Len(s) \in Nat
  BY LenProperties
<1>3. m = n
  BY <1>1, <1>2
<1> QED BY <1>1, <1>3

\* A number has nothing but digits, and at least one.
LEMMA AllDigitsIs ==
  ASSUME NEW S, NEW s \in Seq(S)
  PROVE  AllDigits(s) <=> Len(s) > 0 /\ \A i \in 1 .. Len(s) : s[i] \in Digit
<1>1. PICK n \in 0 .. Len(s) : /\ \A i \in 1 .. n : s[i] \in Digit
                               /\ n = Len(s) \/ s[n + 1] \notin Digit
                               /\ LeadingDigits(s) = SubSeq(s, 1, n)
                               /\ Len(LeadingDigits(s)) = n
  BY DigitsPlace
<1>2. Len(s) \in Nat /\ (s = <<>> <=> Len(s) = 0)
  BY LenProperties, EmptySeq
<1>3. n = Len(s) <=> \A i \in 1 .. Len(s) : s[i] \in Digit
  BY <1>1, <1>2
<1>4. n = Len(s) <=> LeadingDigits(s) = s
  <2>1. SubSeq(s, 1, Len(s)) = s
    BY SubSeqFull
  <2> QED BY <1>1, <2>1
<1> QED BY <1>2, <1>3, <1>4 DEF AllDigits

----------------------------------------------------------------------------
(* A start line with a header that ends behind it.                         *)

\* The parser's result for a header without fields.
LEMMA NoFields ==
  ASSUME NEW S, NEW s \in Seq(S), Len(s) = 2, s[1] = "cr", s[2] = "lf"
  PROVE  ParseHeaders(s) = [NewParser EXCEPT !.state = "complete"]
<1> DEFINE Folds(r) == r = [t \in SUBSET (1 .. 2) |->
                              IF t = {} THEN NewParser
                              ELSE Step(r[t \ {Max(t)}], s[Max(t)])]
           none == NewParser
           one(c) == Step(NewParser, c)
<1>1. DOMAIN s = 1 .. 2
  BY LenProperties
<1>2. Max({1}) = 1 /\ Max({2}) = 2 /\ Max({1, 2}) = 2
  <2>1. {1} \in SUBSET (0 .. 2) /\ {2} \in SUBSET (0 .. 2) /\ {1, 2} \in SUBSET (0 .. 2) /\ 2 \in Nat
    OBVIOUS
  <2> QED BY <2>1, MaxIs
<1>3. {1} \ {1} = {} /\ {2} \ {2} = {} /\ {1, 2} \ {2} = {1}
  OBVIOUS
<1>4. \A t \in SUBSET (1 .. 2) : t = {} \/ t = {1} \/ t = {2} \/ t = {1, 2}
  <2> SUFFICES ASSUME NEW t \in SUBSET (1 .. 2) PROVE t = {} \/ t = {1} \/ t = {2} \/ t = {1, 2}
    OBVIOUS
  <2>1. \A x \in t : x = 1 \/ x = 2
    OBVIOUS
  <2> QED BY <2>1
<1>5. \E r : Folds(r)
  <2> DEFINE r == [t \in SUBSET (1 .. 2) |->
                     IF t = {} THEN none
                     ELSE IF t = {1} THEN one("cr")
                     ELSE IF t = {2} THEN one("lf")
                     ELSE Step(one("cr"), "lf")]
  <2>1. r[{}] = none /\ r[{1}] = one("cr") /\ r[{2}] = one("lf") /\ r[{1, 2}] = Step(one("cr"), "lf")
    <3>1. {} \in SUBSET (1 .. 2) /\ {1} \in SUBSET (1 .. 2) /\ {2} \in SUBSET (1 .. 2) /\ {1, 2} \in SUBSET (1 .. 2)
      OBVIOUS
    <3>2. {1} # {} /\ {2} # {} /\ {1, 2} # {} /\ {2} # {1} /\ {1, 2} # {1} /\ {1, 2} # {2}
      OBVIOUS
    <3> QED BY <3>1, <3>2, Zenon
  <2>2. ASSUME NEW t \in SUBSET (1 .. 2)
        PROVE  r[t] = IF t = {} THEN NewParser ELSE Step(r[t \ {Max(t)}], s[Max(t)])
    <3> HIDE DEF r
    <3>1. CASE t = {}
      BY <2>1, <3>1
    <3>2. CASE t = {1}
      BY <1>2, <1>3, <2>1, <3>2
    <3>3. CASE t = {2}
      BY <1>2, <1>3, <2>1, <3>3
    <3>4. CASE t = {1, 2}
      BY <1>2, <1>3, <2>1, <3>4
    <3> QED BY <1>4, <3>1, <3>2, <3>3, <3>4
  <2>3. r = [t \in SUBSET (1 .. 2) |-> r[t]]
    OBVIOUS
  <2>4. Folds(r)
    <3> HIDE DEF r
    <3> QED BY <2>2, <2>3
  <2> QED BY <2>4
<1>6. PICK r : r = (CHOOSE x : Folds(x))
  OBVIOUS
<1>7. Folds(r)
  <2> HIDE DEF Folds
  <2> QED BY <1>5, <1>6
<1>8. ParseHeaders(s) = r[1 .. 2]
  BY <1>1, <1>6 DEF ParseHeaders, FoldLeft, MapThenFoldSet
<1>9. 1 .. 2 = {1, 2} /\ {1, 2} \in SUBSET (1 .. 2) /\ {1} \in SUBSET (1 .. 2) /\ {} \in SUBSET (1 .. 2)
      /\ {1} # {} /\ {1, 2} # {}
  OBVIOUS
<1>a. \A t \in SUBSET (1 .. 2) :
        r[t] = IF t = {} THEN NewParser ELSE Step(r[t \ {Max(t)}], s[Max(t)])
  BY <1>7
<1> HIDE DEF Folds, none, one
<1>10. r[{}] = NewParser /\ r[{1}] = Step(r[{}], s[1]) /\ r[{1, 2}] = Step(r[{1}], s[2])
  <2>1. r[{}] = NewParser
    BY <1>9, <1>a
  <2>2. r[{1}] = Step(r[{1} \ {Max({1})}], s[Max({1})])
    BY <1>9, <1>a
  <2>3. r[{1, 2}] = Step(r[{1, 2} \ {Max({1, 2})}], s[Max({1, 2})])
    BY <1>9, <1>a
  <2> QED BY <1>2, <1>3, <2>1, <2>2, <2>3
<1>11. Step(NewParser, "cr") = [NewParser EXCEPT !.state = "crlfcr"]
  BY ParserAssumption DEF Step, NewParser, TokenChar, White
<1>12. Step([NewParser EXCEPT !.state = "crlfcr"], "lf") = [NewParser EXCEPT !.state = "complete"]
  BY DEF Step, NewParser
<1> QED BY <1>8, <1>9, <1>10, <1>11, <1>12

\* Two texts, one behind the other.
LEMMA Joined ==
  ASSUME NEW S, NEW u \in Seq(S), NEW v \in Seq(S)
  PROVE  /\ u \o v \in Seq(S)
         /\ Len(u \o v) = Len(u) + Len(v)
         /\ \A i \in 1 .. Len(u) : (u \o v)[i] = u[i]
         /\ \A i \in 1 .. Len(v) : (u \o v)[Len(u) + i] = v[i]
<1>1. PICK m, n, w : m \in Nat /\ n \in Nat /\ m = Len(u) /\ n = Len(v) /\ w = u \o v
  BY LenProperties
<1>2. /\ w \in Seq(S) /\ Len(w) = m + n
      /\ \A i \in 1 .. m + n : w[i] = IF i <= m THEN u[i] ELSE v[i - m]
  BY <1>1, ConcatProperties
<1>3. ASSUME NEW i \in 1 .. m PROVE w[i] = u[i]
  <2>1. i \in 1 .. m + n /\ i <= m
    BY <1>1
  <2> QED BY <1>2, <2>1
<1>4. ASSUME NEW i \in 1 .. n PROVE w[m + i] = v[i]
  <2>1. m + i \in 1 .. m + n /\ ~ (m + i <= m) /\ (m + i) - m = i
    BY <1>1
  <2> QED BY <1>2, <2>1
<1> QED BY <1>1, <1>2, <1>3, <1>4

\* A request with method m, the text t where its URI should be, and no fields.
Request(m, t) == <<m, "sp">> \o t \o <<"sp">> \o End
CharactersWith(C, m) == C \cup {m, "sp", "HTTP/", "1", "cr", "lf"}

\* Its characters, one by one.
LEMMA Spelled ==
  ASSUME NEW C, NEW t \in Seq(C), NEW m, NEW L \in Nat, L = Len(t), NEW s, s = Request(m, t)
  PROVE  /\ s \in Seq(CharactersWith(C, m))
         /\ Len(s) = L + 9
         /\ s[1] = m /\ s[2] = "sp"
         /\ \A i \in 1 .. L : s[2 + i] = t[i]
         /\ s[L + 3] = "sp" /\ s[L + 4] = "HTTP/" /\ s[L + 5] = "1"
         /\ s[L + 6] = "cr" /\ s[L + 7] = "lf" /\ s[L + 8] = "cr" /\ s[L + 9] = "lf"
<1> DEFINE S == CharactersWith(C, m)
<1>1. PICK a : a = <<m, "sp">>
  OBVIOUS
<1>2. a \in Seq(S) /\ Len(a) = 2 /\ a[1] = m /\ a[2] = "sp"
  <2>1. <<m, "sp">> \in Seq(S) /\ Len(<<m, "sp">>) = 2 /\ <<m, "sp">>[1] = m /\ <<m, "sp">>[2] = "sp"
    BY DEF CharactersWith
  <2> HIDE DEF S
  <2> QED BY <1>1, <2>1
<1>3. t \in Seq(S)
  <2>1. C \subseteq S
    BY DEF CharactersWith
  <2> QED BY <2>1, SeqMonotonic
<1>4. PICK d : d = <<"sp">>
  OBVIOUS
<1>5. d \in Seq(S) /\ Len(d) = 1 /\ d[1] = "sp"
  <2>1. <<"sp">> \in Seq(S) /\ Len(<<"sp">>) = 1 /\ <<"sp">>[1] = "sp"
    BY DEF CharactersWith
  <2> HIDE DEF S
  <2> QED BY <1>4, <2>1
<1>6. /\ End \in Seq(S) /\ Len(End) = 6
      /\ End[1] = "HTTP/" /\ End[2] = "1" /\ End[3] = "cr"
      /\ End[4] = "lf" /\ End[5] = "cr" /\ End[6] = "lf"
  BY DEF End, CharactersWith
<1> HIDE DEF S
<1>7. PICK b : b = a \o t
  OBVIOUS
<1>8. /\ b \in Seq(S) /\ Len(b) = 2 + L
      /\ \A i \in 1 .. 2 : b[i] = a[i]
      /\ \A i \in 1 .. L : b[2 + i] = t[i]
  <2>1. /\ b \in Seq(S) /\ Len(b) = Len(a) + Len(t)
        /\ \A i \in 1 .. Len(a) : b[i] = a[i]
        /\ \A i \in 1 .. Len(t) : b[Len(a) + i] = t[i]
    <3>1. /\ a \o t \in Seq(S) /\ Len(a \o t) = Len(a) + Len(t)
          /\ \A i \in 1 .. Len(a) : (a \o t)[i] = a[i]
          /\ \A i \in 1 .. Len(t) : (a \o t)[Len(a) + i] = t[i]
      <4>1. a \in Seq(S) /\ t \in Seq(S)
        BY <1>2, <1>3
      <4> QED BY <4>1, Joined
    <3> QED BY <1>7, <3>1
  <2> QED BY <1>2, <2>1
<1>9. PICK c : c = b \o d
  OBVIOUS
<1>10. /\ c \in Seq(S) /\ Len(c) = (2 + L) + 1
       /\ \A i \in 1 .. 2 + L : c[i] = b[i]
       /\ \A i \in 1 .. 1 : c[(2 + L) + i] = d[i]
  <2>1. /\ c \in Seq(S) /\ Len(c) = Len(b) + Len(d)
        /\ \A i \in 1 .. Len(b) : c[i] = b[i]
        /\ \A i \in 1 .. Len(d) : c[Len(b) + i] = d[i]
    <3>1. /\ b \o d \in Seq(S) /\ Len(b \o d) = Len(b) + Len(d)
          /\ \A i \in 1 .. Len(b) : (b \o d)[i] = b[i]
          /\ \A i \in 1 .. Len(d) : (b \o d)[Len(b) + i] = d[i]
      <4>1. b \in Seq(S) /\ d \in Seq(S)
        BY <1>5, <1>8
      <4> QED BY <4>1, Joined
    <3> QED BY <1>9, <3>1
  <2> QED BY <1>5, <1>8, <2>1
<1>11. s = c \o End
  BY <1>1, <1>4, <1>7, <1>9 DEF Request
<1>12. /\ s \in Seq(S) /\ Len(s) = ((2 + L) + 1) + 6
       /\ \A i \in 1 .. (2 + L) + 1 : s[i] = c[i]
       /\ \A i \in 1 .. 6 : s[((2 + L) + 1) + i] = End[i]
  <2>1. /\ s \in Seq(S) /\ Len(s) = Len(c) + Len(End)
        /\ \A i \in 1 .. Len(c) : s[i] = c[i]
        /\ \A i \in 1 .. Len(End) : s[Len(c) + i] = End[i]
    <3>1. /\ c \o End \in Seq(S) /\ Len(c \o End) = Len(c) + Len(End)
          /\ \A i \in 1 .. Len(c) : (c \o End)[i] = c[i]
          /\ \A i \in 1 .. Len(End) : (c \o End)[Len(c) + i] = End[i]
      <4>1. c \in Seq(S) /\ End \in Seq(S)
        BY <1>6, <1>10
      <4> QED BY <4>1, Joined
    <3> QED BY <1>11, <3>1
  <2> QED BY <1>6, <1>10, <2>1
<1>13. s[1] = m /\ s[2] = "sp" /\ \A i \in 1 .. L : s[2 + i] = t[i]
  <2>1. 1 \in 1 .. 2 /\ 1 \in 1 .. 2 + L /\ 1 \in 1 .. (2 + L) + 1
    OBVIOUS
  <2>2. 2 \in 1 .. 2 /\ 2 \in 1 .. 2 + L /\ 2 \in 1 .. (2 + L) + 1
    OBVIOUS
  <2>3. \A i \in 1 .. L : 2 + i \in 1 .. 2 + L /\ 2 + i \in 1 .. (2 + L) + 1
    OBVIOUS
  <2>4. s[1] = c[1] /\ c[1] = b[1] /\ b[1] = a[1]
    BY <1>8, <1>10, <1>12, <2>1
  <2>5. s[2] = c[2] /\ c[2] = b[2] /\ b[2] = a[2]
    BY <1>8, <1>10, <1>12, <2>2
  <2>6. ASSUME NEW i \in 1 .. L PROVE s[2 + i] = t[i]
    BY <1>8, <1>10, <1>12, <2>3
  <2> QED BY <1>2, <2>4, <2>5, <2>6
<1>14. s[L + 3] = "sp"
  <2>1. 1 \in 1 .. 1 /\ (2 + L) + 1 \in 1 .. (2 + L) + 1 /\ (2 + L) + 1 = L + 3
    OBVIOUS
  <2>2. s[(2 + L) + 1] = d[1]
    BY <1>10, <1>12, <2>1
  <2> QED BY <1>5, <2>1, <2>2
<1>15. /\ s[L + 4] = "HTTP/" /\ s[L + 5] = "1"
       /\ s[L + 6] = "cr" /\ s[L + 7] = "lf" /\ s[L + 8] = "cr" /\ s[L + 9] = "lf"
  <2>1. /\ ((2 + L) + 1) + 1 = L + 4 /\ ((2 + L) + 1) + 2 = L + 5 /\ ((2 + L) + 1) + 3 = L + 6
        /\ ((2 + L) + 1) + 4 = L + 7 /\ ((2 + L) + 1) + 5 = L + 8 /\ ((2 + L) + 1) + 6 = L + 9
    OBVIOUS
  <2>2. 1 \in 1 .. 6 /\ 2 \in 1 .. 6 /\ 3 \in 1 .. 6 /\ 4 \in 1 .. 6 /\ 5 \in 1 .. 6 /\ 6 \in 1 .. 6
    OBVIOUS
  <2>3. /\ s[((2 + L) + 1) + 1] = End[1] /\ s[((2 + L) + 1) + 2] = End[2]
        /\ s[((2 + L) + 1) + 3] = End[3] /\ s[((2 + L) + 1) + 4] = End[4]
        /\ s[((2 + L) + 1) + 5] = End[5] /\ s[((2 + L) + 1) + 6] = End[6]
    BY <1>12, <2>2
  <2> QED BY <1>6, <2>1, <2>3
<1>16. Request(m, t) = s
  BY <1>1, <1>4, <1>7, <1>9, <1>11 DEF Request
<1>17. Len(s) = L + 9
  BY <1>12
<1> QED BY <1>12, <1>13, <1>14, <1>15, <1>16, <1>17 DEF S

\* A single character follows at the next place.
LEMMA FollowsOne ==
  ASSUME NEW S, NEW s \in Seq(S), NEW n \in Nat, NEW x
  PROVE  Follows(s, n, <<x>>) <=> n + 1 <= Len(s) /\ s[n + 1] = x
<1>1. Len(s) \in Nat /\ DOMAIN s = 1 .. Len(s)
  BY LenProperties
<1>2. DOMAIN <<x>> = {1} /\ <<x>>[1] = x
  OBVIOUS
<1>3. Follows(s, n, <<x>>) <=> n + 1 \in DOMAIN s /\ s[n + 1] = x
  BY <1>2 DEF Follows
<1>4. n + 1 \in 1 .. Len(s) <=> n + 1 <= Len(s)
  BY <1>1
<1> QED BY <1>1, <1>3, <1>4

LEMMA FollowsTwo ==
  ASSUME NEW S, NEW s \in Seq(S), NEW n \in Nat, NEW x, NEW y
  PROVE  Follows(s, n, <<x, y>>) <=> n + 2 <= Len(s) /\ s[n + 1] = x /\ s[n + 2] = y
<1>1. Len(s) \in Nat /\ DOMAIN s = 1 .. Len(s)
  BY LenProperties
<1>2. DOMAIN <<x, y>> = {1, 2} /\ <<x, y>>[1] = x /\ <<x, y>>[2] = y
  OBVIOUS
<1>3. Follows(s, n, <<x, y>>) <=> /\ n + 1 \in DOMAIN s /\ s[n + 1] = x
                                 /\ n + 2 \in DOMAIN s /\ s[n + 2] = y
  BY <1>2 DEF Follows
<1>4. n + 1 \in 1 .. Len(s) /\ n + 2 \in 1 .. Len(s) <=> n + 2 <= Len(s)
  BY <1>1
<1> QED BY <1>1, <1>3, <1>4

\* A text of one character.
LEMMA OneCharacter ==
  ASSUME NEW S, NEW s \in Seq(S), Len(s) = 1
  PROVE  s = <<s[1]>>
<1>1. PICK x : x = s[1]
  OBVIOUS
<1>2. <<x>> \in Seq({x}) /\ Len(<<x>>) = 1 /\ <<x>>[1] = x
  OBVIOUS
<1>3. \A i \in 1 .. Len(s) : s[i] = <<x>>[i]
  BY <1>1, <1>2
<1>4. s = <<x>>
  BY <1>2, <1>3, SameText
<1> QED BY <1>1, <1>4

LEMMA TwoCharacters ==
  ASSUME NEW S, NEW s \in Seq(S), Len(s) = 2
  PROVE  s = <<s[1], s[2]>>
<1>1. PICK x, y : x = s[1] /\ y = s[2]
  OBVIOUS
<1>2. <<x, y>> \in Seq({x, y}) /\ Len(<<x, y>>) = 2 /\ <<x, y>>[1] = x /\ <<x, y>>[2] = y
  OBVIOUS
<1>3. \A i \in 1 .. Len(s) : s[i] = <<x, y>>[i]
  BY <1>1, <1>2
<1>4. s = <<x, y>>
  BY <1>2, <1>3, SameText
<1> QED BY <1>1, <1>4

\* No text at all.
LEMMA NoText ==
  ASSUME NEW S, NEW s \in Seq(S)
  PROVE  s = <<>> <=> Len(s) = 0
BY EmptySeq, LenProperties

\* A request is accepted if what stands where its URI should be is one, without a
\* space in it.
LEMMA RequestRead ==
  ASSUME NEW C, \A x \in C : x # "cr" /\ x # "HTTP/",
         NEW t \in Seq(C), NEW m, m # "sp", m # "cr"
  PROVE  ParseRequestHeader(Request(m, t)) =
           IF t # <<>> /\ ~Contains(t, "sp") /\ ParseUri(<<m>>, t) # <<>>
           THEN <<[method |-> <<m>>, uri |-> ParseUri(<<m>>, t)[1], version |-> <<"1">>,
                   headers |-> <<>>]>>
           ELSE <<>>
<1>1. PICK L \in Nat : L = Len(t)
  BY LenProperties
<1>s. PICK s : s = Request(m, t)
  OBVIOUS
<1>2. /\ s \in Seq(CharactersWith(C, m))
      /\ Len(s) = L + 9
      /\ s[1] = m /\ s[2] = "sp"
      /\ \A i \in 1 .. L : s[2 + i] = t[i]
      /\ s[L + 3] = "sp" /\ s[L + 4] = "HTTP/" /\ s[L + 5] = "1"
      /\ s[L + 6] = "cr" /\ s[L + 7] = "lf" /\ s[L + 8] = "cr" /\ s[L + 9] = "lf"
  BY <1>1, <1>s, Spelled
<1>3. PICK S : S = CharactersWith(C, m) /\ s \in Seq(S)
  BY <1>2
<1>4. PICK method, s1 : method = UpTo(s, {"sp", "cr"}) /\ s1 = After(s, Len(method) + 1)
  OBVIOUS
<1>5. PICK written, s2 : written = UpTo(s1, {"sp", "cr"}) /\ s2 = After(s1, Len(written) + 1)
  OBVIOUS
<1>6. PICK version, fields : /\ version = UpTo(s2, {"cr"})
                             /\ fields = ParseHeaders(After(s2, Len(version) + 2))
  OBVIOUS
<1>7. PICK uri : uri = ParseUri(method, written)
  OBVIOUS
<1>8. ParseRequestHeader(s) =
        IF /\ method # <<>> /\ Follows(s, Len(method), <<"sp">>)
           /\ written # <<>> /\ Follows(s1, Len(written), <<"sp">>)
           /\ uri # <<>>
           /\ IsVersion(version) /\ Follows(s2, Len(version), <<"cr", "lf">>)
           /\ fields.state = "complete"
        THEN <<[method |-> method, uri |-> uri[1], version |-> Tail(version),
                headers |-> fields.headers]>>
        ELSE <<>>
  BY <1>4, <1>5, <1>6, <1>7 DEF ParseRequestHeader
<1>9. method = <<m>> /\ Len(method) = 1
  <2>1. 1 \in Nat /\ 1 <= Len(s) /\ s[1 + 1] \in {"sp", "cr"} /\ \A i \in 1 .. 1 : s[i] \notin {"sp", "cr"}
    BY <1>1, <1>2
  <2>2. method = SubSeq(s, 1, 1) /\ Len(method) = 1
    BY <1>3, <1>4, <2>1, UpToIs
  <2>3. method \in Seq(S) /\ method[1] = s[1]
    BY <1>3, <2>1, <2>2, Beginning
  <2> QED BY <1>2, <2>2, <2>3, OneCharacter
<1>10. method # <<>> /\ Follows(s, Len(method), <<"sp">>)
  <2>1. <<m>> # <<>>
    OBVIOUS
  <2>2. 1 \in Nat /\ 1 + 1 <= Len(s) /\ s[1 + 1] = "sp"
    BY <1>1, <1>2
  <2>3. Follows(s, 1, <<"sp">>)
    BY <1>3, <2>2, FollowsOne
  <2> QED BY <1>9, <2>1, <2>3
<1>11. /\ s1 \in Seq(S) /\ Len(s1) = L + 7
       /\ \A i \in 1 .. L : s1[i] = t[i]
       /\ s1[L + 1] = "sp" /\ s1[L + 2] = "HTTP/" /\ s1[L + 3] = "1"
       /\ s1[L + 4] = "cr" /\ s1[L + 5] = "lf" /\ s1[L + 6] = "cr" /\ s1[L + 7] = "lf"
  <2>1. 2 \in Nat /\ 2 <= Len(s) /\ s1 = After(s, 2)
    <3>1. Len(method) + 1 = 2
      BY <1>9
    <3> QED BY <1>1, <1>2, <1>4, <3>1
  <2>2. /\ s1 \in Seq(S) /\ Len(s1) = Len(s) - 2
        /\ \A j \in 1 .. Len(s) - 2 : s1[j] = s[2 + j]
    BY <1>3, <2>1, Behind
  <2>3. Len(s) - 2 = L + 7
    BY <1>1, <1>2
  <2>4. \A j \in 1 .. L + 7 : s1[j] = s[2 + j]
    BY <2>2, <2>3
  <2>5. \A i \in 1 .. L : i \in 1 .. L + 7
    BY <1>1
  <2>6. /\ L + 1 \in 1 .. L + 7 /\ L + 2 \in 1 .. L + 7 /\ L + 3 \in 1 .. L + 7 /\ L + 4 \in 1 .. L + 7
        /\ L + 5 \in 1 .. L + 7 /\ L + 6 \in 1 .. L + 7 /\ L + 7 \in 1 .. L + 7
        /\ 2 + (L + 1) = L + 3 /\ 2 + (L + 2) = L + 4 /\ 2 + (L + 3) = L + 5 /\ 2 + (L + 4) = L + 6
        /\ 2 + (L + 5) = L + 7 /\ 2 + (L + 6) = L + 8 /\ 2 + (L + 7) = L + 9
    BY <1>1
  <2>7. /\ s1[L + 1] = s[L + 3] /\ s1[L + 2] = s[L + 4] /\ s1[L + 3] = s[L + 5] /\ s1[L + 4] = s[L + 6]
        /\ s1[L + 5] = s[L + 7] /\ s1[L + 6] = s[L + 8] /\ s1[L + 7] = s[L + 9]
    BY <2>4, <2>6
  <2>8. \A i \in 1 .. L : s1[i] = t[i]
    BY <1>2, <2>4, <2>5
  <2> QED BY <1>2, <2>2, <2>3, <2>7, <2>8
<1>12. Contains(t, "sp") <=> \E i \in 1 .. L : t[i] = "sp"
  BY <1>1 DEF Contains
<1>13. \A i \in 1 .. L : t[i] \in C /\ t[i] # "cr" /\ t[i] # "HTTP/"
  <2>1. \A i \in 1 .. L : t[i] \in C
    BY <1>1, ElementOfSeq
  <2> QED BY <2>1
<1>14. CASE ~Contains(t, "sp")
  <2>1. written = SubSeq(s1, 1, L) /\ Len(written) = L
    <3>1. L \in Nat /\ L <= Len(s1) /\ s1[L + 1] \in {"sp", "cr"} /\ \A i \in 1 .. L : s1[i] \notin {"sp", "cr"}
      <4>1. L \in Nat /\ L <= Len(s1) /\ s1[L + 1] = "sp"
        BY <1>1, <1>11
      <4>2. ASSUME NEW i \in 1 .. L PROVE s1[i] # "sp" /\ s1[i] # "cr"
        BY <1>11, <1>12, <1>13, <1>14
      <4> QED BY <4>1, <4>2
    <3>2. s1 \in Seq(S)
      BY <1>11
    <3>3. UpTo(s1, {"sp", "cr"}) = SubSeq(s1, 1, L) /\ Len(UpTo(s1, {"sp", "cr"})) = L
      BY <3>1, <3>2, UpToIs
    <3> QED BY <1>5, <3>3
  <2>2. written = t
    <3>1. L \in Nat /\ L <= Len(s1)
      BY <1>1, <1>11
    <3>2. written \in Seq(S) /\ \A i \in 1 .. L : written[i] = s1[i]
      BY <1>11, <2>1, <3>1, Beginning
    <3>3. Len(written) = Len(t) /\ \A i \in 1 .. Len(written) : written[i] = t[i]
      BY <1>1, <1>11, <2>1, <3>2
    <3> QED BY <3>2, <3>3, SameText
  <2>3. Follows(s1, Len(written), <<"sp">>)
    <3>1. L \in Nat /\ L + 1 <= Len(s1) /\ s1[L + 1] = "sp"
      BY <1>1, <1>11
    <3> QED BY <1>11, <2>1, <3>1, FollowsOne
  <2>4. /\ s2 \in Seq(S) /\ Len(s2) = 6
        /\ s2[1] = "HTTP/" /\ s2[2] = "1" /\ s2[3] = "cr"
        /\ s2[4] = "lf" /\ s2[5] = "cr" /\ s2[6] = "lf"
    <3>1. L + 1 \in Nat /\ L + 1 <= Len(s1) /\ s2 = After(s1, L + 1)
      BY <1>1, <1>5, <1>11, <2>1
    <3>2. /\ s2 \in Seq(S) /\ Len(s2) = Len(s1) - (L + 1)
          /\ \A j \in 1 .. Len(s1) - (L + 1) : s2[j] = s1[(L + 1) + j]
      BY <1>11, <3>1, Behind
    <3>3. Len(s1) - (L + 1) = 6
      BY <1>1, <1>11
    <3>4. \A j \in 1 .. 6 : s2[j] = s1[(L + 1) + j]
      BY <3>2, <3>3
    <3>5. /\ 1 \in 1 .. 6 /\ 2 \in 1 .. 6 /\ 3 \in 1 .. 6 /\ 4 \in 1 .. 6 /\ 5 \in 1 .. 6 /\ 6 \in 1 .. 6
          /\ (L + 1) + 1 = L + 2 /\ (L + 1) + 2 = L + 3 /\ (L + 1) + 3 = L + 4
          /\ (L + 1) + 4 = L + 5 /\ (L + 1) + 5 = L + 6 /\ (L + 1) + 6 = L + 7
      BY <1>1
    <3>6. /\ s2[1] = s1[L + 2] /\ s2[2] = s1[L + 3] /\ s2[3] = s1[L + 4]
          /\ s2[4] = s1[L + 5] /\ s2[5] = s1[L + 6] /\ s2[6] = s1[L + 7]
      BY <3>4, <3>5
    <3> QED BY <1>11, <3>2, <3>3, <3>6
  <2>5. version = <<"HTTP/", "1">> /\ Len(version) = 2
    <3>1. 2 \in Nat /\ 2 <= Len(s2) /\ s2[2 + 1] \in {"cr"} /\ \A i \in 1 .. 2 : s2[i] \notin {"cr"}
      BY <2>4
    <3>2. version = SubSeq(s2, 1, 2) /\ Len(version) = 2
      <4>1. s2 \in Seq(S)
        BY <2>4
      <4>2. UpTo(s2, {"cr"}) = SubSeq(s2, 1, 2) /\ Len(UpTo(s2, {"cr"})) = 2
        BY <3>1, <4>1, UpToIs
      <4> QED BY <1>6, <4>2
    <3>3. version \in Seq(S) /\ \A i \in 1 .. 2 : version[i] = s2[i]
      <4>1. s2 \in Seq(S)
        BY <2>4
      <4>2. SubSeq(s2, 1, 2) \in Seq(S) /\ \A j \in 1 .. 2 : SubSeq(s2, 1, 2)[j] = s2[j]
        BY <3>1, <4>1, Beginning
      <4> QED BY <3>2, <4>2
    <3>4. version[1] = "HTTP/" /\ version[2] = "1"
      BY <2>4, <3>3
    <3> QED BY <3>2, <3>3, <3>4, TwoCharacters
  <2>6. IsVersion(version) /\ Tail(version) = <<"1">>
    <3>1. Len(<<"HTTP/", "1">>) >= 2 /\ <<"HTTP/", "1">>[1] = "HTTP/" /\ Tail(<<"HTTP/", "1">>) = <<"1">>
      OBVIOUS
    <3> QED BY <2>5, <3>1 DEF IsVersion
  <2>7. Follows(s2, Len(version), <<"cr", "lf">>)
    <3>1. 2 \in Nat /\ 2 + 2 <= Len(s2) /\ s2[2 + 1] = "cr" /\ s2[2 + 2] = "lf"
      BY <2>4
    <3> QED BY <2>4, <2>5, <3>1, FollowsTwo
  <2>8. fields = [NewParser EXCEPT !.state = "complete"]
    <3>1. PICK s3 : s3 = After(s2, 4)
      OBVIOUS
    <3>2. 4 \in Nat /\ 4 <= Len(s2)
      BY <2>4
    <3>3. /\ s3 \in Seq(S) /\ Len(s3) = Len(s2) - 4
          /\ \A j \in 1 .. Len(s2) - 4 : s3[j] = s2[4 + j]
      BY <2>4, <3>1, <3>2, Behind
    <3>4. Len(s3) = 2 /\ s3[1] = "cr" /\ s3[2] = "lf"
      BY <2>4, <3>3
    <3>5. fields = ParseHeaders(s3)
      <4>1. Len(version) + 2 = 4
        BY <2>5
      <4> QED BY <1>6, <3>1, <4>1
    <3> QED BY <3>3, <3>4, <3>5, NoFields
  <2>9. fields.state = "complete" /\ fields.headers = <<>>
    BY <2>8 DEF NewParser
  <2>10. uri = ParseUri(<<m>>, t)
    BY <1>7, <1>9, <2>2
  <2> QED BY <1>s, <1>8, <1>9, <1>10, <1>14, <2>2, <2>3, <2>6, <2>7, <2>9, <2>10
<1>15. CASE Contains(t, "sp")
  <2>1. PICK n \in 0 .. Len(s1) : /\ \A i \in 1 .. n : s1[i] \notin {"sp", "cr"}
                                  /\ n = Len(s1) \/ s1[n + 1] \in {"sp", "cr"}
                                  /\ UpTo(s1, {"sp", "cr"}) = SubSeq(s1, 1, n)
                                  /\ Len(UpTo(s1, {"sp", "cr"})) = n
    <3>1. s1 \in Seq(S)
      BY <1>11
    <3> QED BY <3>1, UpToPlace
  <2>2. PICK j \in 1 .. L : t[j] = "sp"
    BY <1>12, <1>15
  <2>3. n \in Nat /\ n < L
    <3>1. s1[j] = "sp" /\ j \in Nat /\ j <= L /\ j >= 1 /\ n \in Nat
      BY <1>1, <1>11, <2>2
    <3>2. ~ (j \in 1 .. n)
      BY <2>1, <3>1
    <3> QED BY <1>1, <3>1, <3>2
  <2>4. Len(written) = n
    BY <1>5, <2>1
  <2>5. s2 \in Seq(S) /\ Len(s2) \in Nat /\ s2[1] # "HTTP/"
    <3>1. n + 1 \in Nat /\ n + 1 <= Len(s1) /\ s2 = After(s1, n + 1)
      BY <1>1, <1>5, <1>11, <2>3, <2>4
    <3>2. /\ s2 \in Seq(S) /\ Len(s2) = Len(s1) - (n + 1)
          /\ \A k \in 1 .. Len(s1) - (n + 1) : s2[k] = s1[(n + 1) + k]
      BY <1>11, <3>1, Behind
    <3>3. Len(s1) - (n + 1) = L + 7 - (n + 1) /\ 1 \in 1 .. L + 7 - (n + 1)
      BY <1>1, <1>11, <2>3
    <3>4. s2[1] = s1[(n + 1) + 1]
      BY <3>2, <3>3
    <3>5. CASE n + 1 = L
      <4>1. (n + 1) + 1 = L + 1
        BY <3>5
      <4> QED BY <1>11, <3>2, <3>4, <4>1, LenProperties
    <3>6. CASE n + 1 # L
      <4>1. (n + 1) + 1 \in 1 .. L
        BY <1>1, <2>3, <3>6
      <4> QED BY <1>11, <1>13, <3>2, <3>4, <4>1, LenProperties
    <3> QED BY <3>5, <3>6
  <2>6. ~IsVersion(version)
    <3>1. PICK k \in 0 .. Len(s2) : version = SubSeq(s2, 1, k) /\ Len(version) = k
      BY <1>6, <2>5, UpToPlace
    <3>2. k \in Nat /\ k <= Len(s2)
      BY <2>5
    <3>3. \A i \in 1 .. k : version[i] = s2[i]
      BY <2>5, <3>1, <3>2, Beginning
    <3>4. k >= 2 => version[1] = s2[1]
      BY <3>2, <3>3
    <3> QED BY <2>5, <3>1, <3>4 DEF IsVersion
  <2> QED BY <1>s, <1>8, <1>15, <2>6
<1> QED BY <1>14, <1>15

----------------------------------------------------------------------------
(* Numbers.                                                                *)

\* A set of naturals that has 0, and with each number the next, has them all.
LEMMA AllNaturals ==
  ASSUME NEW T, 0 \in T, \A k \in Nat : k \in T => k + 1 \in T
  PROVE  \A k \in Nat : k \in T
<1>1. IsWellFoundedOn(OpToRel(<, Nat), Nat)
  BY NatLessThanWellFounded
<1>2. SUFFICES ASSUME Nat \ T # {} PROVE FALSE
  OBVIOUS
<1>3. PICK k \in Nat \ T : \A j \in Nat \ T : ~ (<<j, k>> \in OpToRel(<, Nat))
  BY <1>1, <1>2, WFMin
<1>4. \A j \in Nat \ T : ~ (j < k)
  BY <1>3 DEF OpToRel
<1>5. k # 0 /\ k - 1 \in Nat /\ k - 1 \in T
  BY <1>4
<1>6. (k - 1) + 1 \in T
  BY <1>5
<1>7. (k - 1) + 1 = k /\ k \notin T
  OBVIOUS
<1> QED
  BY <1>6, <1>7

\* The same for numbers from 1 on.
LEMMA GreatestUpTo ==
  ASSUME NEW n \in Nat, NEW s \in SUBSET (1 .. n), s # {}
  PROVE  Max(s) \in s /\ \A i \in s : i <= Max(s)
<1>1. s \in SUBSET (0 .. n)
  OBVIOUS
<1> QED BY <1>1, MaxIs

\* The value of a digit is its place.
ValueOf(d) == (CHOOSE i \in DOMAIN Digits : Digits[i] = d) - 1

\* What is left of s without its greatest element.
Rest(s) == s \ {Max(s)}

\* What the digits of digits make whose places are in s.
DigitsOn(domain, digits, made) ==
  made = [s \in domain |->
            IF s = {} THEN 0
            ELSE made[Rest(s)] * Len(Digits) + ValueOf(digits[Max(s)])]

\* There is such a function.
LEMMA DigitsExist ==
  ASSUME NEW digits, NEW n \in Nat
  PROVE  \E made : DigitsOn(SUBSET (1 .. n), digits, made)
<1> DEFINE none == 0
           has == {k \in Nat : \E made : DigitsOn(SUBSET (1 .. k), digits, made)}
<1>1. 0 \in has
  <2>1. PICK made : made = [s \in SUBSET (1 .. 0) |-> none]
    OBVIOUS
  <2>2. \A s \in SUBSET (1 .. 0) : s = {}
    OBVIOUS
  <2>3. DigitsOn(SUBSET (1 .. 0), digits, made)
    BY <2>1, <2>2 DEF DigitsOn
  <2> QED BY <2>3
<1>2. ASSUME NEW k \in Nat, k \in has PROVE k + 1 \in has
  <2>1. PICK made : DigitsOn(SUBSET (1 .. k), digits, made)
    BY <1>2
  <2>2. \A s \in SUBSET (1 .. k) :
          made[s] = IF s = {} THEN none ELSE made[Rest(s)] * Len(Digits) + ValueOf(digits[Max(s)])
    BY <2>1 DEF DigitsOn
  <2>3. PICK more : more = [s \in SUBSET (1 .. k + 1) |->
                              IF s = {} THEN none
                              ELSE made[Rest(s)] * Len(Digits) + ValueOf(digits[Max(s)])]
    OBVIOUS
  <2>4. \A s \in SUBSET (1 .. k) : s \in SUBSET (1 .. k + 1) /\ more[s] = made[s]
    <3> SUFFICES ASSUME NEW s \in SUBSET (1 .. k)
                 PROVE  s \in SUBSET (1 .. k + 1) /\ more[s] = made[s]
      OBVIOUS
    <3>1. s \in SUBSET (1 .. k + 1)
      OBVIOUS
    <3> QED BY <2>2, <2>3, <3>1
  <2>5. ASSUME NEW s \in SUBSET (1 .. k + 1)
        PROVE  more[s] = IF s = {} THEN none ELSE more[Rest(s)] * Len(Digits) + ValueOf(digits[Max(s)])
    <3>1. s # {} => Rest(s) \in SUBSET (1 .. k)
      <4> SUFFICES ASSUME s # {} PROVE Rest(s) \in SUBSET (1 .. k)
        OBVIOUS
      <4>1. Max(s) \in s /\ \A i \in s : i <= Max(s)
        <5>1. k + 1 \in Nat /\ s # {}
          OBVIOUS
        <5> HIDE DEF has
        <5> QED BY <5>1, GreatestUpTo
      <4>2. ASSUME NEW i \in s, i # Max(s) PROVE i \in 1 .. k
        <5>1. i \in 1 .. k + 1 /\ Max(s) \in 1 .. k + 1 /\ i <= Max(s)
          BY <4>1
        <5> QED BY <4>2, <5>1
      <4> QED BY <4>2 DEF Rest
    <3> QED BY <2>3, <2>4, <3>1
  <2>6. DigitsOn(SUBSET (1 .. k + 1), digits, more)
    BY <2>3, <2>5 DEF DigitsOn
  <2> QED BY <2>6
<1>3. n \in has
  <2> HIDE DEF has
  <2> QED BY <1>1, <1>2, AllNaturals
<1> QED BY <1>3

\* Number is the value of such a function.
LEMMA NumberOfDigits ==
  ASSUME NEW S, NEW digits \in Seq(S)
  PROVE  \E made : /\ DigitsOn(SUBSET (1 .. Len(digits)), digits, made)
                   /\ Number(digits) =
                        made[1 .. Len(digits)]
<1>1. DOMAIN digits = 1 .. Len(digits) /\ Len(digits) \in Nat
  OBVIOUS
<1>2. PICK made : made = CHOOSE r : DigitsOn(SUBSET (1 .. Len(digits)), digits, r)
  OBVIOUS
<1>3. DigitsOn(SUBSET (1 .. Len(digits)), digits, made)
  BY <1>1, <1>2, DigitsExist
<1>4. Number(digits) =
        (CHOOSE r : DigitsOn(SUBSET (DOMAIN digits), digits, r))[DOMAIN digits]
  BY DEF Number, FoldLeft, MapThenFoldSet, DigitsOn, Rest, ValueOf
<1> QED BY <1>1, <1>2, <1>3, <1>4

\* Digit by digit, from the left.
LEMMA DigitByDigit ==
  ASSUME NEW n \in Nat, NEW digits, NEW made, DigitsOn(SUBSET (1 .. n), digits, made)
  PROVE  /\ made[1 .. 0] = 0
         /\ \A k \in 0 .. n - 1 : made[1 .. k + 1] = made[1 .. k] * Len(Digits) + ValueOf(digits[k + 1])
<1>1. \A s \in SUBSET (1 .. n) :
        made[s] = IF s = {} THEN 0
                  ELSE made[Rest(s)] * Len(Digits) + ValueOf(digits[Max(s)])
  BY DEF DigitsOn
<1>2. 1 .. 0 = {} /\ 1 .. 0 \in SUBSET (1 .. n)
  OBVIOUS
<1>3. ASSUME NEW k \in 0 .. n - 1
      PROVE  made[1 .. k + 1] = made[1 .. k] * Len(Digits) + ValueOf(digits[k + 1])
  <2>1. PICK s : s = 1 .. k + 1
    OBVIOUS
  <2>2. s \in SUBSET (1 .. n) /\ s # {} /\ k + 1 \in Nat
    BY <2>1
  <2>3. Max(s) \in s /\ \A i \in s : i <= Max(s)
    <3>1. s \in SUBSET (1 .. k + 1)
      BY <2>1
    <3> QED BY <2>2, <3>1, GreatestUpTo
  <2>4. Max(s) = k + 1
    <3>1. PICK m \in 1 .. k + 1 : m = Max(s)
      BY <2>1, <2>3
    <3>2. k + 1 \in s
      BY <2>1
    <3>3. k + 1 <= m
      BY <2>3, <3>1, <3>2
    <3> QED BY <3>1, <3>3
  <2>5. Rest(s) = 1 .. k
    <3>1. (1 .. k + 1) \ {k + 1} = 1 .. k
      OBVIOUS
    <3> QED BY <2>1, <2>4, <3>1 DEF Rest
  <2> QED BY <1>1, <2>1, <2>2, <2>4, <2>5
<1> QED BY <1>1, <1>2, <1>3

\* Digits make a number.
LEMMA NumberIsNat ==
  ASSUME NEW d \in Seq(Digit)
  PROVE  Number(d) \in Nat
<1>1. PICK n \in Nat : n = Len(d)
  BY LenProperties
<1>2. PICK made : DigitsOn(SUBSET (1 .. Len(d)), d, made) /\ Number(d) = made[1 .. Len(d)]
  BY NumberOfDigits
<1>3. made[1 .. 0] = 0 /\ \A k \in 0 .. n - 1 : made[1 .. k + 1] = made[1 .. k] * Len(Digits) + ValueOf(d[k + 1])
  <2>1. DigitsOn(SUBSET (1 .. n), d, made)
    BY <1>1, <1>2
  <2> QED BY <2>1, DigitByDigit
<1>4. Len(Digits) \in Nat
  BY ParserAssumption, LenProperties
<1>5. ASSUME NEW x \in Digit PROVE ValueOf(x) \in Nat
  <2>1. DOMAIN Digits = 1 .. Len(Digits)
    BY ParserAssumption, LenProperties
  <2>2. \E i \in DOMAIN Digits : Digits[i] = x
    BY DEF Digit, Range
  <2>3. PICK i : i = (CHOOSE j \in DOMAIN Digits : Digits[j] = x)
    OBVIOUS
  <2>4. i \in DOMAIN Digits
    BY <2>2, <2>3
  <2>5. i \in Nat /\ i >= 1
    BY <1>4, <2>1, <2>4
  <2>6. ValueOf(x) = i - 1
    BY <2>3 DEF ValueOf
  <2> QED BY <2>5, <2>6
<1>6. \A k \in Nat : k <= n => made[1 .. k] \in Nat
  <2> DEFINE good == {k \in Nat : k <= n => made[1 .. k] \in Nat}
  <2>1. 0 \in good
    BY <1>3
  <2>2. ASSUME NEW k \in Nat, k \in good PROVE k + 1 \in good
    <3> SUFFICES ASSUME k + 1 <= n PROVE made[1 .. k + 1] \in Nat
      OBVIOUS
    <3>1. k \in 0 .. n - 1 /\ k + 1 \in 1 .. n /\ k <= n
      OBVIOUS
    <3>2. d[k + 1] \in Digit
      BY <1>1, <3>1, ElementOfSeq
    <3>3. made[1 .. k] \in Nat
      BY <2>2, <3>1
    <3>4. PICK v \in Nat : v = ValueOf(d[k + 1])
      BY <1>5, <3>2
    <3>5. PICK b \in Nat : b = Len(Digits)
      BY <1>4
    <3>6. PICK m \in Nat : m = made[1 .. k]
      BY <3>3
    <3>7. m * b \in Nat
      OBVIOUS
    <3>8. made[1 .. k + 1] = m * b + v
      BY <1>3, <3>1, <3>4, <3>5, <3>6
    <3> QED BY <3>7, <3>8
  <2>3. \A k \in Nat : k \in good
    <3> HIDE DEF good
    <3> QED BY <2>1, <2>2, AllNaturals
  <2> QED BY <2>3
<1>7. n <= n
  OBVIOUS
<1> QED BY <1>1, <1>2, <1>6, <1>7

----------------------------------------------------------------------------
(* Hosts and ports.                                                        *)

\* No digit is a colon.
LEMMA DigitIsNoMark == \A x \in Digit : x # ":" /\ x # "/" /\ x # "sp" /\ x # "cr"
BY ParserAssumption DEF TokenChar, White

\* What is behind a colon is a number exactly if it has only digits.
LEMMA BehindIsNumber ==
  ASSUME NEW S, NEW a \in Seq(S), NEW n \in Nat, n <= Len(a)
  PROVE  /\ AllDigits(After(a, n)) <=> n < Len(a) /\ \A i \in n + 1 .. Len(a) : a[i] \in Digit
         /\ AllDigits(After(a, n)) => After(a, n) \in Seq(Digit)
<1>1. PICK L \in Nat : L = Len(a)
  BY LenProperties
<1>2. PICK b : b = After(a, n)
  OBVIOUS
<1>3. b \in Seq(S) /\ Len(b) = L - n /\ \A j \in 1 .. L - n : b[j] = a[n + j]
  BY <1>1, <1>2, Behind
<1>4. AllDigits(b) <=> Len(b) > 0 /\ \A i \in 1 .. Len(b) : b[i] \in Digit
  BY <1>3, AllDigitsIs
<1>5. (\A j \in 1 .. L - n : b[j] \in Digit) <=> \A i \in n + 1 .. L : a[i] \in Digit
  <2>1. ASSUME \A j \in 1 .. L - n : b[j] \in Digit, NEW i \in n + 1 .. L PROVE a[i] \in Digit
    <3>1. i - n \in 1 .. L - n /\ n + (i - n) = i
      BY <1>1
    <3>2. b[i - n] = a[n + (i - n)]
      BY <1>3, <3>1
    <3> QED BY <2>1, <3>1, <3>2
  <2>2. ASSUME \A i \in n + 1 .. L : a[i] \in Digit, NEW j \in 1 .. L - n PROVE b[j] \in Digit
    <3>1. n + j \in n + 1 .. L
      BY <1>1
    <3> QED BY <1>3, <2>2, <3>1
  <2> QED BY <2>1, <2>2
<1>6. AllDigits(b) <=> n < L /\ \A i \in n + 1 .. L : a[i] \in Digit
  BY <1>1, <1>3, <1>4, <1>5
<1>7. ASSUME AllDigits(b) PROVE b \in Seq(Digit)
  <2>1. \A i \in 1 .. Len(b) : b[i] \in Digit
    BY <1>4, <1>7
  <2>2. b = [i \in 1 .. Len(b) |-> b[i]] /\ Len(b) \in Nat
    BY <1>3, LenProperties
  <2> QED BY <2>1, <2>2, IsASeq
<1> QED BY <1>1, <1>2, <1>6, <1>7

\* The last colon.
LEMMA LastColon ==
  ASSUME NEW S, NEW a \in Seq(S), NEW c,
         c = Max({0} \cup {i \in DOMAIN a : a[i] = ":"})
  PROVE  /\ c \in 0 .. Len(a)
         /\ c # 0 => a[c] = ":"
         /\ \A i \in 1 .. Len(a) : a[i] = ":" => i <= c
<1>1. PICK L \in Nat : L = Len(a)
  BY LenProperties
<1>2. DOMAIN a = 1 .. L
  BY <1>1, LenProperties
<1>3. PICK T : T = {0} \cup {i \in DOMAIN a : a[i] = ":"}
  OBVIOUS
<1>4. T \in SUBSET (0 .. L) /\ T # {}
  BY <1>2, <1>3
<1>5. c \in T /\ \A i \in T : i <= c
  BY <1>3, <1>4, MaxIs
<1> QED BY <1>1, <1>2, <1>3, <1>4, <1>5

\* An authority is split where its host ends, if it has a port.
LEMMA HostSplits ==
  ASSUME NEW S, NEW a \in Seq(S)
  PROVE  \/ HostOf(a) = a /\ ConnectSplits(a) = {}
         \/ \E h \in 1 .. Len(a) - 2 : /\ ConnectSplits(a) = {h}
                                       /\ HostOf(a) = SubSeq(a, 1, h)
                                       /\ Len(HostOf(a)) = h
                                       /\ HostOf(a) # a
<1>1. PICK L \in Nat : L = Len(a)
  BY LenProperties
<1>2. PICK c : c = Max({0} \cup {i \in DOMAIN a : a[i] = ":"})
  OBVIOUS
<1>3. /\ c \in 0 .. L
      /\ c # 0 => a[c] = ":"
      /\ \A i \in 1 .. L : a[i] = ":" => i <= c
  BY <1>1, <1>2, LastColon
<1>4. HostOf(a) = IF c > 1 /\ AllDigits(After(a, c)) THEN SubSeq(a, 1, c - 1) ELSE a
  BY <1>2 DEF HostOf
<1>5. ASSUME NEW h \in ConnectSplits(a)
      PROVE  h \in 1 .. L - 2 /\ h + 1 = c /\ AllDigits(After(a, c))
  <2>1. h \in 1 .. L - 2 /\ a[h + 1] = ":" /\ AllDigits(After(a, h + 1))
    BY <1>1 DEF ConnectSplits
  <2>2. h + 1 \in Nat /\ h + 1 <= Len(a) /\ h + 1 \in 1 .. L
    BY <1>1, <2>1
  <2>3. \A i \in (h + 1) + 1 .. L : a[i] \in Digit
    BY <1>1, <2>1, <2>2, BehindIsNumber
  <2>4. h + 1 <= c
    BY <1>3, <2>1, <2>2
  <2>5. ASSUME h + 1 # c PROVE FALSE
    <3>1. c \in (h + 1) + 1 .. L /\ c # 0
      BY <1>3, <2>1, <2>4, <2>5
    <3>2. a[c] \in Digit /\ a[c] = ":"
      BY <1>3, <2>3, <3>1
    <3> QED BY <3>2, DigitIsNoMark
  <2> QED BY <2>1, <2>5
<1>6. CASE c > 1 /\ AllDigits(After(a, c))
  <2>1. PICK h : h = c - 1
    OBVIOUS
  <2>2. c \in Nat /\ c <= Len(a)
    BY <1>1, <1>3
  <2>3. c < L
    BY <1>1, <1>6, <2>2, BehindIsNumber
  <2>4. h \in 1 .. L - 2 /\ h + 1 = c /\ c # 0
    BY <1>1, <1>6, <2>1, <2>2, <2>3
  <2>5. h \in ConnectSplits(a)
    BY <1>1, <1>3, <1>6, <2>4 DEF ConnectSplits
  <2>6. ConnectSplits(a) = {h}
    <3>1. ASSUME NEW g \in ConnectSplits(a) PROVE g = h
      <4>1. g \in 1 .. L - 2 /\ g + 1 = c
        BY <1>5
      <4> QED BY <1>1, <2>4, <4>1
    <3> QED BY <2>5, <3>1
  <2>7. HostOf(a) = SubSeq(a, 1, h)
    BY <1>4, <1>6, <2>1
  <2>8. h \in Nat /\ h <= Len(a) /\ h # L
    BY <1>1, <2>4
  <2>9. Len(HostOf(a)) = h
    BY <2>7, <2>8, Beginning
  <2>10. HostOf(a) # a
    BY <1>1, <2>8, <2>9
  <2> QED BY <1>1, <2>4, <2>6, <2>7, <2>9, <2>10
<1>7. CASE ~ (c > 1 /\ AllDigits(After(a, c)))
  <2>1. HostOf(a) = a
    BY <1>4, <1>7
  <2>2. ASSUME NEW h \in ConnectSplits(a) PROVE FALSE
    <3>1. h \in 1 .. L - 2 /\ h + 1 = c /\ AllDigits(After(a, c))
      BY <1>5
    <3>2. c > 1
      BY <1>1, <3>1
    <3> QED BY <1>7, <3>1, <3>2
  <2> QED BY <2>1, <2>2
<1> QED BY <1>6, <1>7

\* A number that fits becomes the port of a URI.
LEMMA PortIs ==
  ASSUME NEW scheme, NEW host, NEW port, NEW path, NEW digits, NEW n, n = Number(digits)
  PROVE  WithPort([scheme |-> scheme, host |-> host, port |-> port, path |-> path], digits) =
           IF n >= LongModulus THEN <<>>
           ELSE <<[scheme |-> scheme, host |-> host, port |-> n % PortModulus, path |-> path]>>
<1>1. PICK u, p : /\ u = [scheme |-> scheme, host |-> host, port |-> port, path |-> path]
                  /\ p = n % PortModulus
  OBVIOUS
<1>2. [u EXCEPT !.port = p] = [scheme |-> scheme, host |-> host, port |-> p, path |-> path]
  BY <1>1
<1>3. WithPort(u, digits) = IF n >= LongModulus THEN <<>> ELSE <<[u EXCEPT !.port = p]>>
  BY <1>1 DEF WithPort
<1> QED BY <1>1, <1>2, <1>3

\* CONNECT is understood as it was written.
LEMMA ConnectIsAsWritten ==
  ASSUME NEW C, \A x \in C : x # "cr" /\ x # "HTTP/", text \in Seq(C)
  PROVE  ConnectAsWritten
<1>1. PICK parsed, uri, L : /\ parsed = ParseRequestHeader(Request("CONNECT", text))
                            /\ uri = ParseUri(<<"CONNECT">>, text)
                            /\ L = Len(text) /\ L \in Nat
  BY LenProperties
<1>2. parsed = IF text # <<>> /\ ~Contains(text, "sp") /\ uri # <<>>
               THEN <<[method |-> <<"CONNECT">>, uri |-> uri[1], version |-> <<"1">>,
                       headers |-> <<>>]>>
               ELSE <<>>
  <2>1. "CONNECT" # "sp" /\ "CONNECT" # "cr"
    OBVIOUS
  <2> QED BY <1>1, <2>1, RequestRead
<1>3. ConnectAsWritten <=>
        /\ parsed # <<>> <=> HostOf(text) # text /\ ~Contains(text, "sp") /\ PortOf(text) < LongModulus
        /\ parsed # <<>> =>
             /\ parsed[1].uri.host = HostOf(text)
             /\ PortOf(text) < PortModulus => parsed[1].uri.port = PortOf(text)
  BY <1>1 DEF ConnectAsWritten, Request
<1>4. CASE HostOf(text) = text /\ ConnectSplits(text) = {}
  <2>1. uri = <<>>
    BY <1>1, <1>4 DEF ParseUri
  <2> QED BY <1>2, <1>3, <1>4, <2>1
<1>5. ASSUME NEW h \in 1 .. Len(text) - 2, ConnectSplits(text) = {h},
             HostOf(text) = SubSeq(text, 1, h), Len(HostOf(text)) = h, HostOf(text) # text
      PROVE  ConnectAsWritten
  <2>1. h \in Nat /\ h + 1 \in Nat /\ h + 1 <= Len(text) /\ L > 0
    BY <1>1
  <2>2. PICK n : n = Number(After(text, h + 1))
    OBVIOUS
  <2>3. n \in Nat
    <3>1. AllDigits(After(text, h + 1))
      BY <1>5 DEF ConnectSplits
    <3> QED BY <2>1, <2>2, <3>1, BehindIsNumber, NumberIsNat
  <2>4. PortOf(text) = n
    BY <1>5, <2>2 DEF PortOf
  <2>5. uri = IF n >= LongModulus THEN <<>>
              ELSE <<[scheme |-> <<>>, host |-> SubSeq(text, 1, h), port |-> n % PortModulus,
                      path |-> <<>>]>>
    <3> DEFINE first == CHOOSE g \in ConnectSplits(text) : \A g2 \in ConnectSplits(text) : g <= g2
    <3>1. first = h
      <4>1. h <= h /\ h \in ConnectSplits(text) /\ \A g \in ConnectSplits(text) : g = h
        BY <1>5, <2>1
      <4> QED BY <4>1
    <3>a. uri = WithPort([scheme |-> <<>>, host |-> SubSeq(text, 1, first), port |-> DefaultPort,
                          path |-> <<>>], After(text, first + 1))
      <4>1. ConnectSplits(text) # {}
        BY <1>5
      <4> QED BY <1>1, <4>1 DEF ParseUri
    <3> HIDE DEF first
    <3>2. uri = WithPort([scheme |-> <<>>, host |-> SubSeq(text, 1, h), port |-> DefaultPort,
                          path |-> <<>>], After(text, h + 1))
      BY <3>1, <3>a
    <3> QED BY <2>2, <3>2, PortIs
  <2>6. text # <<>>
    BY <1>1, <2>1, NoText
  <2>7. LongModulus \in Nat /\ PortModulus \in Nat
    BY ParserAssumption
  <2>8. n >= LongModulus <=> ~ (n < LongModulus)
    BY <2>3, <2>7
  <2>9. uri # <<>> <=> n < LongModulus
    BY <2>5, <2>8
  <2>10. parsed # <<>> <=> ~Contains(text, "sp") /\ n < LongModulus
    BY <1>2, <2>6, <2>9
  <2>11. ASSUME parsed # <<>>
         PROVE  /\ parsed[1].uri.host = HostOf(text)
                /\ n < PortModulus => parsed[1].uri.port = n
    <3>1. parsed[1].uri = uri[1]
      BY <1>2, <2>11
    <3>2. uri[1].host = SubSeq(text, 1, h) /\ uri[1].port = n % PortModulus
      BY <2>5, <2>8, <2>10, <2>11
    <3>3. n < PortModulus => n % PortModulus = n
      BY <2>3, <2>7
    <3> QED BY <1>5, <3>1, <3>2, <3>3
  <2> QED BY <1>3, <1>5, <2>4, <2>10, <2>11
<1> QED BY <1>4, <1>5, HostSplits

----------------------------------------------------------------------------
(* Status lines.                                                           *)

\* A reply with the text t where its status code should be, and no fields.
Reply(t) == <<"HTTP/", "1", "sp">> \o t \o <<"cr", "lf", "cr", "lf">>
ReplyCharacters(C) == C \cup {"sp", "HTTP/", "1", "cr", "lf"}

\* Its characters, one by one.
LEMMA ReplySpelled ==
  ASSUME NEW C, NEW t \in Seq(C), NEW s, s = Reply(t)
  PROVE  /\ s \in Seq(ReplyCharacters(C))
         /\ Len(s) = Len(t) + 7
         /\ s[1] = "HTTP/" /\ s[2] = "1" /\ s[3] = "sp"
         /\ \A i \in 1 .. Len(t) : s[3 + i] = t[i]
         /\ s[Len(t) + 4] = "cr" /\ s[Len(t) + 5] = "lf" /\ s[Len(t) + 6] = "cr" /\ s[Len(t) + 7] = "lf"
<1>0. PICK L \in Nat : L = Len(t)
  BY LenProperties
<1> DEFINE S == ReplyCharacters(C)
<1>1. PICK a : a = <<"HTTP/", "1", "sp">>
  OBVIOUS
<1>2. a \in Seq(S) /\ Len(a) = 3 /\ a[1] = "HTTP/" /\ a[2] = "1" /\ a[3] = "sp"
  <2>1. /\ <<"HTTP/", "1", "sp">> \in Seq(S) /\ Len(<<"HTTP/", "1", "sp">>) = 3
        /\ <<"HTTP/", "1", "sp">>[1] = "HTTP/" /\ <<"HTTP/", "1", "sp">>[2] = "1"
        /\ <<"HTTP/", "1", "sp">>[3] = "sp"
    BY DEF ReplyCharacters
  <2> HIDE DEF S
  <2> QED BY <1>1, <2>1
<1>3. t \in Seq(S)
  <2>1. C \subseteq S
    BY DEF ReplyCharacters
  <2> QED BY <2>1, SeqMonotonic
<1>4. PICK d : d = <<"cr", "lf", "cr", "lf">>
  OBVIOUS
<1>5. d \in Seq(S) /\ Len(d) = 4 /\ d[1] = "cr" /\ d[2] = "lf" /\ d[3] = "cr" /\ d[4] = "lf"
  <2>1. /\ <<"cr", "lf", "cr", "lf">> \in Seq(S) /\ Len(<<"cr", "lf", "cr", "lf">>) = 4
        /\ <<"cr", "lf", "cr", "lf">>[1] = "cr" /\ <<"cr", "lf", "cr", "lf">>[2] = "lf"
        /\ <<"cr", "lf", "cr", "lf">>[3] = "cr" /\ <<"cr", "lf", "cr", "lf">>[4] = "lf"
    BY DEF ReplyCharacters
  <2> HIDE DEF S
  <2> QED BY <1>4, <2>1
<1> HIDE DEF S
<1>6. PICK b : b = a \o t
  OBVIOUS
<1>7. /\ b \in Seq(S) /\ Len(b) = 3 + L
      /\ \A i \in 1 .. 3 : b[i] = a[i]
      /\ \A i \in 1 .. L : b[3 + i] = t[i]
  <2>1. /\ a \o t \in Seq(S) /\ Len(a \o t) = Len(a) + Len(t)
        /\ \A i \in 1 .. Len(a) : (a \o t)[i] = a[i]
        /\ \A i \in 1 .. Len(t) : (a \o t)[Len(a) + i] = t[i]
    <3>1. a \in Seq(S) /\ t \in Seq(S)
      BY <1>2, <1>3
    <3> QED BY <3>1, Joined
  <2> QED BY <1>0, <1>2, <1>6, <2>1
<1>8. s = b \o d
  BY <1>1, <1>4, <1>6 DEF Reply
<1>9. /\ s \in Seq(S) /\ Len(s) = (3 + L) + 4
      /\ \A i \in 1 .. 3 + L : s[i] = b[i]
      /\ \A i \in 1 .. 4 : s[(3 + L) + i] = d[i]
  <2>1. /\ b \o d \in Seq(S) /\ Len(b \o d) = Len(b) + Len(d)
        /\ \A i \in 1 .. Len(b) : (b \o d)[i] = b[i]
        /\ \A i \in 1 .. Len(d) : (b \o d)[Len(b) + i] = d[i]
    <3>1. b \in Seq(S) /\ d \in Seq(S)
      BY <1>5, <1>7
    <3> QED BY <3>1, Joined
  <2> QED BY <1>5, <1>7, <1>8, <2>1
<1>10. s[1] = "HTTP/" /\ s[2] = "1" /\ s[3] = "sp"
  <2>1. /\ 1 \in 1 .. 3 /\ 2 \in 1 .. 3 /\ 3 \in 1 .. 3
        /\ 1 \in 1 .. 3 + L /\ 2 \in 1 .. 3 + L /\ 3 \in 1 .. 3 + L
    OBVIOUS
  <2>2. s[1] = a[1] /\ s[2] = a[2] /\ s[3] = a[3]
    BY <1>7, <1>9, <2>1
  <2> QED BY <1>2, <2>2
<1>11. ASSUME NEW i \in 1 .. L PROVE s[3 + i] = t[i]
  <2>1. 3 + i \in 1 .. 3 + L
    OBVIOUS
  <2> QED BY <1>7, <1>9, <2>1
<1>12. s[L + 4] = "cr" /\ s[L + 5] = "lf" /\ s[L + 6] = "cr" /\ s[L + 7] = "lf"
  <2>1. (3 + L) + 1 = L + 4 /\ (3 + L) + 2 = L + 5 /\ (3 + L) + 3 = L + 6 /\ (3 + L) + 4 = L + 7
    OBVIOUS
  <2>2. 1 \in 1 .. 4 /\ 2 \in 1 .. 4 /\ 3 \in 1 .. 4 /\ 4 \in 1 .. 4
    OBVIOUS
  <2>3. /\ s[(3 + L) + 1] = d[1] /\ s[(3 + L) + 2] = d[2]
        /\ s[(3 + L) + 3] = d[3] /\ s[(3 + L) + 4] = d[4]
    BY <1>9, <2>2
  <2> QED BY <1>5, <2>1, <2>3
<1>13. Len(s) = L + 7
  BY <1>9
<1> QED BY <1>0, <1>9, <1>10, <1>11, <1>12, <1>13 DEF S

\* A reply is accepted if what stands where its status code should be begins with a number
\* that can be converted.
LEMMA ReplyRead ==
  ASSUME NEW C, \A x \in C : x # "cr" /\ x # "HTTP/", NEW t \in Seq(C)
  PROVE  \E reason :
           /\ IF Contains(t, "sp") THEN t = UpTo(t, {"sp"}) \o <<"sp">> \o reason ELSE reason = <<>>
           /\ ParseResponseHeader(Reply(t)) =
                IF Stoul(UpTo(t, {"sp"})) # <<>>
                THEN <<[version |-> <<"1">>,
                        status_code |-> Stoul(UpTo(t, {"sp"}))[1] % StatusModulus,
                        description |-> reason, headers |-> <<>>]>>
                ELSE <<>>
<1>1. PICK L \in Nat : L = Len(t)
  BY LenProperties
<1> DEFINE S == ReplyCharacters(C)
<1>s. PICK s : s = Reply(t)
  OBVIOUS
<1> HIDE DEF S
<1>2. /\ s \in Seq(ReplyCharacters(C))
      /\ Len(s) = Len(t) + 7
      /\ s[1] = "HTTP/" /\ s[2] = "1" /\ s[3] = "sp"
      /\ \A i \in 1 .. Len(t) : s[3 + i] = t[i]
      /\ s[Len(t) + 4] = "cr" /\ s[Len(t) + 5] = "lf" /\ s[Len(t) + 6] = "cr" /\ s[Len(t) + 7] = "lf"
  BY <1>s, ReplySpelled
<1>3. /\ s \in Seq(S)
      /\ Len(s) = L + 7
      /\ s[1] = "HTTP/" /\ s[2] = "1" /\ s[3] = "sp"
      /\ \A i \in 1 .. L : s[3 + i] = t[i]
      /\ s[L + 4] = "cr" /\ s[L + 5] = "lf" /\ s[L + 6] = "cr" /\ s[L + 7] = "lf"
  BY <1>1, <1>2 DEF S
<1>4. t \in Seq(S)
  <2>1. C \subseteq S
    BY DEF S, ReplyCharacters
  <2> QED BY <2>1, SeqMonotonic
<1>5. PICK version, s1 : version = UpTo(s, {"sp", "cr"}) /\ s1 = After(s, Len(version) + 1)
  OBVIOUS
<1>6. PICK status, described, s2 :
        /\ status = UpTo(s1, {"sp", "cr"})
        /\ described = Follows(s1, Len(status), <<"sp">>)
        /\ s2 = After(s1, IF described THEN Len(status) + 1 ELSE Len(status))
  OBVIOUS
<1>7. PICK description, fields, code :
        /\ description = IF described THEN UpTo(s2, {"cr"}) ELSE <<>>
        /\ fields = ParseHeaders(After(s2, Len(description) + 2))
        /\ code = Stoul(status)
  OBVIOUS
<1>8. ParseResponseHeader(s) =
        IF /\ IsVersion(version) /\ Follows(s, Len(version), <<"sp">>)
           /\ code # <<>>
           /\ Follows(s2, Len(description), <<"cr", "lf">>)
           /\ fields.state = "complete"
        THEN <<[version |-> Tail(version), status_code |-> code[1] % StatusModulus,
                description |-> description, headers |-> fields.headers]>>
        ELSE <<>>
  BY <1>5, <1>6, <1>7 DEF ParseResponseHeader
<1>9. version = <<"HTTP/", "1">> /\ Len(version) = 2
  <2>1. 2 \in Nat /\ 2 <= Len(s) /\ s[2 + 1] \in {"sp", "cr"} /\ \A i \in 1 .. 2 : s[i] \notin {"sp", "cr"}
    BY <1>1, <1>3
  <2>2. UpTo(s, {"sp", "cr"}) = SubSeq(s, 1, 2) /\ Len(UpTo(s, {"sp", "cr"})) = 2
    <3>1. s \in Seq(S)
      BY <1>3
    <3> QED BY <2>1, <3>1, UpToIs
  <2>3. SubSeq(s, 1, 2) \in Seq(S) /\ \A i \in 1 .. 2 : SubSeq(s, 1, 2)[i] = s[i]
    BY <1>3, <2>1, Beginning
  <2>4. version[1] = "HTTP/" /\ version[2] = "1"
    BY <1>3, <1>5, <2>2, <2>3
  <2> QED BY <1>5, <2>2, <2>3, <2>4, TwoCharacters
<1>10. IsVersion(version) /\ Tail(version) = <<"1">>
  <2>1. Len(<<"HTTP/", "1">>) >= 2 /\ <<"HTTP/", "1">>[1] = "HTTP/" /\ Tail(<<"HTTP/", "1">>) = <<"1">>
    OBVIOUS
  <2> QED BY <1>9, <2>1 DEF IsVersion
<1>11. Follows(s, Len(version), <<"sp">>)
  <2>1. 2 \in Nat /\ 2 + 1 <= Len(s) /\ s[2 + 1] = "sp"
    BY <1>1, <1>3
  <2>2. Follows(s, 2, <<"sp">>)
    BY <1>3, <2>1, FollowsOne
  <2> QED BY <1>9, <2>2
<1>12. /\ s1 \in Seq(S) /\ Len(s1) = L + 4
       /\ \A i \in 1 .. L : s1[i] = t[i]
       /\ s1[L + 1] = "cr" /\ s1[L + 2] = "lf" /\ s1[L + 3] = "cr" /\ s1[L + 4] = "lf"
  <2>1. 3 \in Nat /\ 3 <= Len(s) /\ s1 = After(s, 3)
    <3>1. Len(version) + 1 = 3
      BY <1>9
    <3> QED BY <1>1, <1>3, <1>5, <3>1
  <2>2. /\ s1 \in Seq(S) /\ Len(s1) = Len(s) - 3
        /\ \A j \in 1 .. Len(s) - 3 : s1[j] = s[3 + j]
    BY <1>3, <2>1, Behind
  <2>3. Len(s) - 3 = L + 4
    BY <1>1, <1>3
  <2>4. \A j \in 1 .. L + 4 : s1[j] = s[3 + j]
    BY <2>2, <2>3
  <2>5. \A i \in 1 .. L : i \in 1 .. L + 4
    BY <1>1
  <2>6. /\ L + 1 \in 1 .. L + 4 /\ L + 2 \in 1 .. L + 4 /\ L + 3 \in 1 .. L + 4 /\ L + 4 \in 1 .. L + 4
        /\ 3 + (L + 1) = L + 4 /\ 3 + (L + 2) = L + 5 /\ 3 + (L + 3) = L + 6 /\ 3 + (L + 4) = L + 7
    BY <1>1
  <2>7. /\ s1[L + 1] = s[L + 4] /\ s1[L + 2] = s[L + 5] /\ s1[L + 3] = s[L + 6] /\ s1[L + 4] = s[L + 7]
    BY <2>4, <2>6
  <2>8. \A i \in 1 .. L : s1[i] = t[i]
    BY <1>3, <2>4, <2>5
  <2> QED BY <1>3, <2>2, <2>3, <2>7, <2>8
<1>13. Contains(t, "sp") <=> \E i \in 1 .. L : t[i] = "sp"
  BY <1>1 DEF Contains
<1>14. \A i \in 1 .. L : t[i] # "cr"
  <2>1. \A i \in 1 .. L : t[i] \in C
    BY <1>1, ElementOfSeq
  <2> QED BY <2>1
\* The status ends before the first space, or where t does.
<1>15. PICK n \in 0 .. L : /\ \A i \in 1 .. n : t[i] # "sp"
                           /\ n = L \/ t[n + 1] = "sp"
                           /\ UpTo(t, {"sp"}) = SubSeq(t, 1, n)
                           /\ Len(UpTo(t, {"sp"})) = n
  <2>1. \E n \in 0 .. Len(t) : /\ \A i \in 1 .. n : t[i] \notin {"sp"}
                               /\ n = Len(t) \/ t[n + 1] \in {"sp"}
                               /\ UpTo(t, {"sp"}) = SubSeq(t, 1, n)
                               /\ Len(UpTo(t, {"sp"})) = n
    BY <1>4, UpToPlace
  <2> QED BY <1>1, <2>1
<1>16. n \in Nat /\ n <= L /\ n <= Len(t)
  BY <1>1
<1>17. status = SubSeq(s1, 1, n) /\ Len(status) = n
  <2>1. n \in Nat /\ n <= Len(s1)
    BY <1>1, <1>12, <1>16
  <2>2. \A i \in 1 .. n : s1[i] \notin {"sp", "cr"}
    <3> SUFFICES ASSUME NEW i \in 1 .. n PROVE s1[i] # "sp" /\ s1[i] # "cr"
      OBVIOUS
    <3>1. i \in 1 .. L
      BY <1>1, <1>16
    <3> QED BY <1>12, <1>14, <1>15, <3>1
  <2>3. s1[n + 1] \in {"sp", "cr"}
    <3>1. CASE n = L
      BY <1>12, <3>1
    <3>2. CASE n # L
      <4>1. n + 1 \in 1 .. L
        BY <1>1, <1>16, <3>2
      <4>2. s1[n + 1] = t[n + 1]
        BY <1>12, <4>1
      <4> QED BY <1>15, <3>2, <4>2
    <3> QED BY <3>1, <3>2
  <2>4. UpTo(s1, {"sp", "cr"}) = SubSeq(s1, 1, n) /\ Len(UpTo(s1, {"sp", "cr"})) = n
    <3>1. s1 \in Seq(S)
      BY <1>12
    <3> QED BY <2>1, <2>2, <2>3, <3>1, UpToIs
  <2> QED BY <1>6, <2>4
<1>18. status \in Seq(S) /\ \A i \in 1 .. n : status[i] = t[i]
  <2>1. n \in Nat /\ n <= Len(s1) /\ s1 \in Seq(S)
    BY <1>1, <1>12, <1>16
  <2>2. SubSeq(s1, 1, n) \in Seq(S) /\ \A i \in 1 .. n : SubSeq(s1, 1, n)[i] = s1[i]
    BY <2>1, Beginning
  <2>3. \A i \in 1 .. n : i \in 1 .. L
    BY <1>1, <1>16
  <2> QED BY <1>12, <1>17, <2>2, <2>3
<1>19. code = Stoul(UpTo(t, {"sp"}))
  <2>1. PICK u : u = UpTo(t, {"sp"})
    OBVIOUS
  <2>2. u \in Seq(S) /\ Len(u) = n /\ \A i \in 1 .. n : u[i] = t[i]
    BY <1>4, <1>15, <1>16, <2>1, Beginning
  <2>3. \A i \in 1 .. n : status[i] = u[i]
    BY <1>18, <2>2
  <2>4. status = u
    BY <1>17, <1>18, <2>2, <2>3, SameText
  <2> QED BY <1>7, <2>1, <2>4
\* Behind the reason the header ends.
<1>30. ASSUME NEW k \in Nat, NEW m \in Nat, k + m = L, Len(description) = m, s2 = After(s1, k)
       PROVE  /\ Follows(s2, Len(description), <<"cr", "lf">>)
              /\ fields.state = "complete" /\ fields.headers = <<>>
  <2>1. k \in Nat /\ k <= Len(s1) /\ s1 \in Seq(S) /\ Len(s1) - k = m + 4
    BY <1>1, <1>12, <1>30
  <2>2. /\ s2 \in Seq(S) /\ Len(s2) = Len(s1) - k
        /\ \A j \in 1 .. Len(s1) - k : s2[j] = s1[k + j]
    BY <1>30, <2>1, Behind
  <2>3. Len(s2) = m + 4 /\ \A j \in 1 .. m + 4 : s2[j] = s1[k + j]
    BY <2>1, <2>2
  <2>4. /\ m + 1 \in 1 .. m + 4 /\ m + 2 \in 1 .. m + 4 /\ m + 3 \in 1 .. m + 4 /\ m + 4 \in 1 .. m + 4
        /\ k + (m + 1) = L + 1 /\ k + (m + 2) = L + 2 /\ k + (m + 3) = L + 3 /\ k + (m + 4) = L + 4
    BY <1>30
  <2>5. /\ s2[m + 1] = s1[L + 1] /\ s2[m + 2] = s1[L + 2]
        /\ s2[m + 3] = s1[L + 3] /\ s2[m + 4] = s1[L + 4]
    BY <2>3, <2>4
  <2>6. s2[m + 1] = "cr" /\ s2[m + 2] = "lf" /\ s2[m + 3] = "cr" /\ s2[m + 4] = "lf"
    BY <1>12, <2>5
  <2>7. Follows(s2, m, <<"cr", "lf">>)
    <3>1. m + 2 <= Len(s2)
      BY <2>3
    <3> QED BY <2>2, <2>6, <3>1, FollowsTwo
  <2>8. PICK s3 : s3 = After(s2, m + 2)
    OBVIOUS
  <2>9. m + 2 \in Nat /\ m + 2 <= Len(s2) /\ Len(s2) - (m + 2) = 2
    BY <2>3
  <2>10. s3 \in Seq(S) /\ Len(s3) = 2 /\ \A j \in 1 .. 2 : s3[j] = s2[(m + 2) + j]
    <3>1. /\ After(s2, m + 2) \in Seq(S) /\ Len(After(s2, m + 2)) = Len(s2) - (m + 2)
          /\ \A j \in 1 .. Len(s2) - (m + 2) : After(s2, m + 2)[j] = s2[(m + 2) + j]
      BY <2>2, <2>9, Behind
    <3> QED BY <2>8, <2>9, <3>1
  <2>11. s3[1] = "cr" /\ s3[2] = "lf"
    <3>1. 1 \in 1 .. 2 /\ 2 \in 1 .. 2 /\ (m + 2) + 1 = m + 3 /\ (m + 2) + 2 = m + 4
      OBVIOUS
    <3>2. s3[1] = s2[m + 3] /\ s3[2] = s2[m + 4]
      BY <2>10, <3>1
    <3> QED BY <2>6, <3>2
  <2>12. fields = ParseHeaders(s3)
    BY <1>7, <1>30, <2>8
  <2>13. fields = [NewParser EXCEPT !.state = "complete"]
    BY <2>10, <2>11, <2>12, NoFields
  <2>14. fields.state = "complete" /\ fields.headers = <<>>
    BY <2>13 DEF NewParser
  <2> QED BY <1>30, <2>7, <2>14
<1>31. ASSUME /\ Follows(s2, Len(description), <<"cr", "lf">>)
              /\ fields.state = "complete" /\ fields.headers = <<>>
       PROVE  ParseResponseHeader(s) =
                IF Stoul(UpTo(t, {"sp"})) # <<>>
                THEN <<[version |-> <<"1">>,
                        status_code |-> Stoul(UpTo(t, {"sp"}))[1] % StatusModulus,
                        description |-> description, headers |-> <<>>]>>
                ELSE <<>>
  BY <1>8, <1>10, <1>11, <1>19, <1>31
<1>32. CASE n = L
  <2>1. ~Contains(t, "sp")
    BY <1>13, <1>15, <1>32
  <2>2. ~described
    <3>1. L \in Nat /\ s1 \in Seq(S) /\ s1[L + 1] # "sp"
      BY <1>12
    <3>2. ~Follows(s1, L, <<"sp">>)
      BY <3>1, FollowsOne
    <3> QED BY <1>6, <1>17, <1>32, <3>2
  <2>3. s2 = After(s1, L) /\ description = <<>> /\ Len(description) = 0
    <3>1. Len(<<>>) = 0
      OBVIOUS
    <3> QED BY <1>6, <1>7, <1>17, <1>32, <2>2, <3>1
  <2>4. L \in Nat /\ 0 \in Nat /\ L + 0 = L
    OBVIOUS
  <2>5. /\ Follows(s2, Len(description), <<"cr", "lf">>)
        /\ fields.state = "complete" /\ fields.headers = <<>>
    BY <1>30, <2>3, <2>4
  <2> QED BY <1>s, <1>31, <2>1, <2>3, <2>5
<1>33. CASE n # L
  <2>1. PICK k, m : k = n + 1 /\ m = L - k
    OBVIOUS
  <2>2. k \in Nat /\ m \in Nat /\ k + m = L /\ k \in 1 .. L /\ k >= 1
    BY <1>16, <1>33, <2>1
  <2>3. t[k] = "sp" /\ s1[k] = "sp"
    BY <1>12, <1>15, <1>33, <2>1, <2>2
  <2>4. Contains(t, "sp")
    BY <1>13, <2>2, <2>3
  <2>5. described
    <3>1. n \in Nat /\ s1 \in Seq(S) /\ n + 1 <= Len(s1) /\ s1[n + 1] = "sp"
      BY <1>12, <1>16, <2>1, <2>3
    <3>2. Follows(s1, n, <<"sp">>)
      BY <3>1, FollowsOne
    <3> QED BY <1>6, <1>17, <3>2
  <2>6. s2 = After(s1, k) /\ description = UpTo(s2, {"cr"})
    BY <1>6, <1>7, <1>17, <2>1, <2>5
  <2>7. /\ s2 \in Seq(S) /\ Len(s2) = m + 4
        /\ \A j \in 1 .. m + 4 : s2[j] = s1[k + j]
    <3>1. k <= Len(s1) /\ s1 \in Seq(S) /\ Len(s1) - k = m + 4
      BY <1>1, <1>12, <2>2
    <3>2. /\ After(s1, k) \in Seq(S) /\ Len(After(s1, k)) = Len(s1) - k
          /\ \A j \in 1 .. Len(s1) - k : After(s1, k)[j] = s1[k + j]
      BY <2>2, <3>1, Behind
    <3> QED BY <2>6, <3>1, <3>2
  <2>8. \A i \in 1 .. m : s2[i] = t[k + i]
    <3> SUFFICES ASSUME NEW i \in 1 .. m PROVE s2[i] = t[k + i]
      OBVIOUS
    <3>1. i \in 1 .. m + 4 /\ k + i \in 1 .. L
      BY <2>2
    <3> QED BY <1>12, <2>7, <3>1
  <2>9. description = SubSeq(s2, 1, m) /\ Len(description) = m
    <3>1. m \in Nat /\ m <= Len(s2)
      BY <2>2, <2>7
    <3>2. \A i \in 1 .. m : s2[i] \notin {"cr"}
      <4> SUFFICES ASSUME NEW i \in 1 .. m PROVE s2[i] # "cr"
        OBVIOUS
      <4>1. k + i \in 1 .. L
        BY <2>2
      <4> QED BY <1>14, <2>8, <4>1
    <3>3. s2[m + 1] \in {"cr"}
      <4>1. m + 1 \in 1 .. m + 4 /\ k + (m + 1) = L + 1
        BY <2>2
      <4>2. s2[m + 1] = s1[k + (m + 1)]
        BY <2>7, <4>1
      <4> QED BY <1>12, <4>1, <4>2
    <3>4. UpTo(s2, {"cr"}) = SubSeq(s2, 1, m) /\ Len(UpTo(s2, {"cr"})) = m
      BY <2>7, <3>1, <3>2, <3>3, UpToIs
    <3> QED BY <2>6, <3>4
  <2>10. description \in Seq(S) /\ \A i \in 1 .. m : description[i] = t[k + i]
    <3>1. m <= Len(s2)
      BY <2>2, <2>7
    <3>2. SubSeq(s2, 1, m) \in Seq(S) /\ \A i \in 1 .. m : SubSeq(s2, 1, m)[i] = s2[i]
      BY <2>2, <2>7, <3>1, Beginning
    <3> QED BY <2>8, <2>9, <3>2
  <2>11. /\ Follows(s2, Len(description), <<"cr", "lf">>)
         /\ fields.state = "complete" /\ fields.headers = <<>>
    BY <1>30, <2>2, <2>6, <2>9
  <2>12. t = UpTo(t, {"sp"}) \o <<"sp">> \o description
    <3>1. PICK u, d : u = UpTo(t, {"sp"}) /\ d = <<"sp">>
      OBVIOUS
    <3>2. u \in Seq(S) /\ Len(u) = n /\ \A i \in 1 .. n : u[i] = t[i]
      BY <1>4, <1>15, <1>16, <3>1, Beginning
    <3>3. d \in Seq(S) /\ Len(d) = 1 /\ d[1] = "sp"
      <4>1. <<"sp">> \in Seq(S) /\ Len(<<"sp">>) = 1 /\ <<"sp">>[1] = "sp"
        BY DEF S, ReplyCharacters
      <4> QED BY <3>1, <4>1
    <3>4. PICK v : v = u \o d
      OBVIOUS
    <3>5. /\ v \in Seq(S) /\ Len(v) = n + 1
          /\ \A i \in 1 .. n : v[i] = u[i]
          /\ \A i \in 1 .. 1 : v[n + i] = d[i]
      <4>1. /\ u \o d \in Seq(S) /\ Len(u \o d) = Len(u) + Len(d)
            /\ \A i \in 1 .. Len(u) : (u \o d)[i] = u[i]
            /\ \A i \in 1 .. Len(d) : (u \o d)[Len(u) + i] = d[i]
        <5>1. u \in Seq(S) /\ d \in Seq(S)
          BY <3>2, <3>3
        <5> QED BY <5>1, Joined
      <4> QED BY <3>2, <3>3, <3>4, <4>1
    <3>6. PICK w : w = v \o description
      OBVIOUS
    <3>7. /\ w \in Seq(S) /\ Len(w) = k + m
          /\ \A i \in 1 .. k : w[i] = v[i]
          /\ \A i \in 1 .. m : w[k + i] = description[i]
      <4>1. /\ v \o description \in Seq(S) /\ Len(v \o description) = Len(v) + Len(description)
            /\ \A i \in 1 .. Len(v) : (v \o description)[i] = v[i]
            /\ \A i \in 1 .. Len(description) : (v \o description)[Len(v) + i] = description[i]
        <5>1. v \in Seq(S) /\ description \in Seq(S)
          BY <2>10, <3>5
        <5> QED BY <5>1, Joined
      <4> QED BY <2>1, <2>9, <3>5, <3>6, <4>1
    <3>8. \A i \in 1 .. L : w[i] = t[i]
      <4> SUFFICES ASSUME NEW i \in 1 .. L PROVE w[i] = t[i]
        OBVIOUS
      <4>1. CASE i \in 1 .. n
        <5>1. i \in 1 .. k
          BY <1>16, <2>1, <4>1
        <5> QED BY <3>2, <3>5, <3>7, <4>1, <5>1
      <4>2. CASE i = k
        <5>1. k \in 1 .. k /\ 1 \in 1 .. 1
          BY <2>2
        <5>2. v[n + 1] = d[1]
          BY <3>5, <5>1
        <5> QED BY <2>1, <2>3, <3>3, <3>7, <4>2, <5>1, <5>2
      <4>3. CASE i > k
        <5>1. i - k \in 1 .. m /\ k + (i - k) = i
          BY <2>2, <4>3
        <5> QED BY <2>10, <3>7, <5>1
      <4>4. i \in 1 .. n \/ i = k \/ i > k
        BY <1>16, <2>1
      <4> QED BY <4>1, <4>2, <4>3, <4>4
    <3>9. Len(w) = Len(t)
      BY <1>1, <2>2, <3>7
    <3>10. w = t
      BY <1>1, <1>4, <3>7, <3>8, <3>9, SameText
    <3> QED BY <3>1, <3>4, <3>6, <3>10
  <2> QED BY <1>s, <1>31, <2>4, <2>11, <2>12
<1> QED BY <1>32, <1>33

\* White space is no sign, and neither has a digit in it.
LEMMA WhiteIsNoDigit ==
  /\ \A x \in Digit : x \notin White /\ x # "+" /\ x # "-"
  /\ "+" \notin White /\ "-" \notin White
BY ParserAssumption DEF TokenChar

\* What stoul makes of a text, by places: w characters are white space, and digits
\* come from behind d, up to k.
Reads(u, n, w, d, k) ==
  /\ w \in 0 .. n /\ d \in 0 .. n /\ k \in 0 .. n - d
  /\ \A i \in 1 .. w : u[i] \in White
  /\ w = n \/ u[w + 1] \notin White
  /\ IF w < n /\ u[w + 1] \in {"+", "-"} THEN d = w + 1 ELSE d = w
  /\ \A i \in 1 .. k : u[d + i] \in Digit
  /\ k = n - d \/ u[d + k + 1] \notin Digit

LEMMA StoulReads ==
  ASSUME NEW S, NEW u \in Seq(S), NEW n \in Nat, n = Len(u)
  PROVE  \E w, d, k, digits :
           /\ Reads(u, n, w, d, k)
           /\ digits \in Seq(Digit) /\ Len(digits) = k /\ \A i \in 1 .. k : digits[i] = u[d + i]
           /\ Stoul(u) # <<>> <=> k > 0 /\ Number(digits) < LongModulus
           /\ Stoul(u) # <<>> /\ ~(w < n /\ u[w + 1] = "-") => Stoul(u)[1] = Number(digits)
<1>1. PICK w \in 0 .. n : /\ \A i \in 1 .. w : u[i] \in White
                          /\ w = n \/ u[w + 1] \notin White
                          /\ Len(Leading(u, White)) = w
  BY LeadingPlace
<1>2. PICK s1 : s1 = After(u, w)
  OBVIOUS
<1>3. s1 \in Seq(S) /\ Len(s1) = n - w /\ \A j \in 1 .. n - w : s1[j] = u[w + j]
  <2>1. w \in Nat /\ w <= Len(u)
    BY <1>1
  <2> QED BY <1>2, <2>1, Behind
<1>4. ASSUME NEW x PROVE Follows(s1, 0, <<x>>) <=> w < n /\ u[w + 1] = x
  <2>1. Follows(s1, 0, <<x>>) <=> 0 + 1 <= Len(s1) /\ s1[0 + 1] = x
    BY <1>3, FollowsOne
  <2>2. 0 + 1 = 1 /\ (1 <= n - w <=> w < n)
    BY <1>1
  <2>3. w < n => s1[1] = u[w + 1]
    BY <1>1, <1>3
  <2> QED BY <1>3, <2>1, <2>2, <2>3
<1> DEFINE signed == w < n /\ u[w + 1] \in {"+", "-"}
<1>6. (\E sign \in {"+", "-"} : Follows(s1, 0, <<sign>>)) <=> signed
  BY <1>4
<1>7. PICK d \in 0 .. n : d = IF signed THEN w + 1 ELSE w
  BY <1>1
<1>8. PICK rest : rest = IF signed THEN Tail(s1) ELSE s1
  OBVIOUS
<1>9. rest \in Seq(S) /\ Len(rest) = n - d /\ \A j \in 1 .. n - d : rest[j] = u[d + j]
  <2>1. CASE ~signed
    BY <1>3, <1>7, <1>8, <2>1
  <2>2. CASE signed
    <3>1. Len(s1) > 0 /\ n - w >= 1
      BY <1>1, <1>3, <2>2
    <3>2. PICK y : y = Tail(s1)
      OBVIOUS
    <3>3. y \in Seq(S) /\ Len(y) = Len(s1) - 1 /\ \A j \in 1 .. Len(s1) - 1 : y[j] = s1[j + 1]
      <4>1. s1 # <<>>
        BY <1>3, <3>1
      <4> QED BY <1>3, <3>2, <4>1, HeadTailProperties
    <3>4. d = w + 1 /\ rest = y
      BY <1>7, <1>8, <2>2, <3>2
    <3>5. Len(s1) - 1 = n - d
      BY <1>1, <1>3, <3>4
    <3>6. ASSUME NEW j \in 1 .. n - d PROVE y[j] = u[d + j]
      <4>1. j + 1 \in 1 .. n - w /\ w + (j + 1) = d + j
        BY <1>1, <3>4
      <4>2. s1[j + 1] = u[w + (j + 1)]
        BY <1>3, <4>1
      <4> QED BY <3>3, <3>5, <4>1, <4>2
    <3> QED BY <3>3, <3>4, <3>5, <3>6
  <2> QED BY <2>1, <2>2
<1>10. PICK digits : digits = LeadingDigits(rest)
  OBVIOUS
<1>11. PICK k \in 0 .. n - d : /\ \A i \in 1 .. k : rest[i] \in Digit
                               /\ k = n - d \/ rest[k + 1] \notin Digit
                               /\ digits = SubSeq(rest, 1, k) /\ Len(digits) = k
  <2>1. rest \in Seq(S)
    BY <1>9
  <2>2. \E m \in 0 .. Len(rest) : /\ \A i \in 1 .. m : rest[i] \in Digit
                                  /\ m = Len(rest) \/ rest[m + 1] \notin Digit
                                  /\ LeadingDigits(rest) = SubSeq(rest, 1, m)
                                  /\ Len(LeadingDigits(rest)) = m
    BY <2>1, DigitsPlace
  <2> QED BY <1>9, <1>10, <2>2
<1>12. k \in Nat /\ k <= n - d /\ d \in Nat /\ \A i \in 1 .. k : i \in 1 .. n - d
  BY <1>7, <1>11
<1>13. digits \in Seq(S) /\ \A i \in 1 .. k : digits[i] = rest[i]
  <2>1. k <= Len(rest) /\ rest \in Seq(S)
    BY <1>9, <1>12
  <2> QED BY <1>11, <1>12, <2>1, Beginning
<1>14. \A i \in 1 .. k : digits[i] = u[d + i] /\ u[d + i] \in Digit
  BY <1>9, <1>11, <1>12, <1>13
<1>15. digits \in Seq(Digit)
  <2>1. digits = [i \in 1 .. Len(digits) |-> digits[i]] /\ Len(digits) \in Nat
    BY <1>13, LenProperties
  <2>2. \A i \in 1 .. Len(digits) : digits[i] \in Digit
    BY <1>11, <1>14
  <2> QED BY <2>1, <2>2, IsASeq
<1>16. Reads(u, n, w, d, k)
  <2>1. k = n - d \/ u[d + k + 1] \notin Digit
    <3>1. k # n - d => k + 1 \in 1 .. n - d /\ d + (k + 1) = d + k + 1
      BY <1>12
    <3> QED BY <1>9, <1>11, <3>1
  <2> QED BY <1>1, <1>7, <1>11, <1>14, <2>1 DEF Reads
<1>17. PICK number \in Nat : number = Number(digits)
  BY <1>15, NumberIsNat
<1>18. digits = <<>> <=> k = 0
  BY <1>11, <1>13, NoText
<1>19. Stoul(u) = IF digits = <<>> \/ number >= LongModulus THEN <<>>
                  ELSE IF Follows(s1, 0, <<"-">>) THEN <<(LongModulus - number) % LongModulus>>
                  ELSE <<number>>
  BY <1>1, <1>2, <1>6, <1>8, <1>10, <1>17 DEF Stoul
<1>20. Stoul(u) # <<>> <=> k > 0 /\ number < LongModulus
  <2>1. LongModulus \in Nat
    BY ParserAssumption
  <2>2. number >= LongModulus <=> ~(number < LongModulus)
    BY <2>1
  <2>3. k = 0 <=> ~(k > 0)
    BY <1>12
  <2> QED BY <1>18, <1>19, <2>2, <2>3
<1>21. Stoul(u) # <<>> /\ ~(w < n /\ u[w + 1] = "-") => Stoul(u)[1] = number
  BY <1>4, <1>19
<1>22. Len(digits) = k /\ \A i \in 1 .. k : digits[i] = u[d + i]
  BY <1>11, <1>14
<1>23. Stoul(u) # <<>> <=> k > 0 /\ Number(digits) < LongModulus
  BY <1>17, <1>20
<1>24. Stoul(u) # <<>> /\ ~(w < n /\ u[w + 1] = "-") => Stoul(u)[1] = Number(digits)
  BY <1>17, <1>21
<1> QED BY <1>15, <1>16, <1>22, <1>23, <1>24

\* A status line is understood as it was written.
LEMMA StatusIsAsWritten ==
  ASSUME NEW C, \A x \in C : x # "cr" /\ x # "HTTP/", text \in Seq(C)
  PROVE  StatusAsWritten
<1>1. PICK parsed, L : parsed = ParseResponseHeader(Reply(text)) /\ L = Len(text) /\ L \in Nat
  BY LenProperties
<1>2. PICK u : u = UpTo(text, {"sp"})
  OBVIOUS
<1>3. PICK reason :
        /\ IF Contains(text, "sp") THEN text = u \o <<"sp">> \o reason ELSE reason = <<>>
        /\ parsed =
             IF Stoul(u) # <<>>
             THEN <<[version |-> <<"1">>, status_code |-> Stoul(u)[1] % StatusModulus,
                     description |-> reason, headers |-> <<>>]>>
             ELSE <<>>
  BY <1>1, <1>2, ReplyRead
<1>4. PICK n \in 0 .. L : /\ \A i \in 1 .. n : text[i] # "sp"
                          /\ n = L \/ text[n + 1] = "sp"
                          /\ u = SubSeq(text, 1, n) /\ Len(u) = n
  <2>1. \E m \in 0 .. Len(text) : /\ \A i \in 1 .. m : text[i] \notin {"sp"}
                                  /\ m = Len(text) \/ text[m + 1] \in {"sp"}
                                  /\ UpTo(text, {"sp"}) = SubSeq(text, 1, m)
                                  /\ Len(UpTo(text, {"sp"})) = m
    BY UpToPlace
  <2> QED BY <1>1, <1>2, <2>1
<1>5. n \in Nat /\ n <= L /\ u \in Seq(C) /\ \A i \in 1 .. n : u[i] = text[i]
  <2>1. n \in Nat /\ n <= Len(text)
    BY <1>1
  <2> QED BY <1>1, <1>4, <2>1, Beginning
<1>6. PICK w, d, k, digits :
        /\ Reads(u, n, w, d, k)
        /\ digits \in Seq(Digit) /\ Len(digits) = k /\ \A i \in 1 .. k : digits[i] = u[d + i]
        /\ Stoul(u) # <<>> <=> k > 0 /\ Number(digits) < LongModulus
        /\ Stoul(u) # <<>> /\ ~(w < n /\ u[w + 1] = "-") => Stoul(u)[1] = Number(digits)
  <2>1. u \in Seq(C) /\ n \in Nat /\ n = Len(u)
    BY <1>4, <1>5
  <2> QED BY <2>1, StoulReads
<1>7. PICK places, begin : places = {i \in DOMAIN text : text[i] \in Digit} /\ begin = Min(places)
  OBVIOUS
<1>8. PICK number, leads :
        /\ number = LeadingDigits(After(text, begin - 1))
        /\ leads = \A i \in 1 .. begin - 1 :
                     text[i] \in White \ {"sp"} \/ (i = begin - 1 /\ text[i] \in {"+", "-"})
  OBVIOUS
<1>9. DOMAIN text = 1 .. L /\ places \subseteq Nat
  BY <1>1, <1>7, LenProperties
<1>10. places # {} =>
         /\ begin \in 1 .. L /\ text[begin] \in Digit
         /\ \A i \in 1 .. L : text[i] \in Digit => begin <= i
  <2>1. places # {} => begin \in places /\ \A i \in places : begin <= i
    BY <1>7, <1>9, MinIs
  <2> QED BY <1>7, <1>9, <2>1
<1>11. /\ w \in 0 .. n /\ d \in 0 .. n /\ k \in 0 .. n - d
       /\ \A i \in 1 .. w : u[i] \in White
       /\ w = n \/ u[w + 1] \notin White
       /\ IF w < n /\ u[w + 1] \in {"+", "-"} THEN d = w + 1 ELSE d = w
       /\ \A i \in 1 .. k : u[d + i] \in Digit
       /\ k = n - d \/ u[d + k + 1] \notin Digit
  BY <1>6 DEF Reads
\* If stoul finds digits, they are the first there are.
<1>12. ASSUME k > 0 PROVE places # {} /\ leads /\ begin = d + 1
  <2>1. d + 1 \in 1 .. n /\ 1 \in 1 .. k /\ d + 1 \in 1 .. L
    BY <1>1, <1>5, <1>11, <1>12
  <2>2. text[d + 1] \in Digit /\ d + 1 \in places
    BY <1>5, <1>7, <1>9, <1>11, <2>1
  <2>3. ASSUME NEW i \in 1 .. d
        PROVE  /\ text[i] \in White \ {"sp"} \/ (i = d /\ text[i] \in {"+", "-"})
               /\ text[i] \notin Digit
    <3>1. i \in 1 .. n /\ text[i] = u[i] /\ text[i] # "sp"
      BY <1>4, <1>5, <1>11
    <3>2. i \in 1 .. w \/ (i = d /\ i = w + 1 /\ u[w + 1] \in {"+", "-"})
      BY <1>11
    <3>3. text[i] \in White \/ (i = d /\ text[i] \in {"+", "-"})
      BY <1>11, <3>1, <3>2
    <3> QED BY <3>1, <3>3, WhiteIsNoDigit
  <2>4. begin \in 1 .. L /\ text[begin] \in Digit /\ begin <= d + 1
    BY <1>10, <2>1, <2>2
  <2>5. begin = d + 1
    <3>1. ~(begin \in 1 .. d)
      BY <2>3, <2>4
    <3> QED BY <1>11, <2>4, <3>1
  <2>6. begin - 1 = d
    BY <1>11, <2>5
  <2> QED BY <1>8, <2>2, <2>3, <2>5, <2>6
\* If what comes before the first digit may come there, stoul finds digits.
<1>13. ASSUME places # {}, leads PROVE k > 0
  <2>1. begin \in 1 .. L /\ text[begin] \in Digit
    BY <1>10, <1>13
  <2>2. \A i \in 1 .. begin - 1 :
          text[i] \in White \ {"sp"} \/ (i = begin - 1 /\ text[i] \in {"+", "-"})
    BY <1>8, <1>13
  <2>3. begin <= n
    <3>1. ASSUME n < begin PROVE FALSE
      <4>1. n + 1 \in 1 .. begin - 1 \/ n + 1 = begin
        BY <1>5, <2>1, <3>1
      <4>2. text[n + 1] = "sp"
        BY <1>4, <1>5, <2>1, <3>1
      <4> QED BY <2>1, <2>2, <4>1, <4>2, DigitIsNoMark
    <3> QED BY <1>5, <2>1, <3>1
  <2>4. \A i \in 1 .. begin : u[i] = text[i]
    BY <1>5, <2>1, <2>3
  <2>5. u[begin] \in Digit /\ u[begin] \notin White /\ u[begin] \notin {"+", "-"}
    BY <2>1, <2>4, WhiteIsNoDigit
  <2>6. w < begin
    BY <1>11, <2>1, <2>5
  <2>7. d + 1 = begin
    <3>1. CASE w + 1 = begin
      BY <1>11, <2>5, <3>1
    <3>2. CASE w + 1 < begin
      <4>1. w + 1 \in 1 .. begin - 1 /\ w + 1 \in 1 .. begin /\ w < n
        BY <1>11, <2>1, <2>3, <3>2
      <4>2. u[w + 1] \notin White
        BY <1>11, <4>1
      <4>3. w + 1 = begin - 1 /\ u[w + 1] \in {"+", "-"}
        BY <2>2, <2>4, <4>1, <4>2
      <4> QED BY <1>11, <2>1, <4>1, <4>3
    <3> QED BY <1>11, <2>1, <2>6, <3>1, <3>2
  <2>8. k # 0
    <3>1. ASSUME k = 0 PROVE FALSE
      <4>1. d + k + 1 = begin /\ k # n - d
        BY <1>11, <2>1, <2>3, <2>7, <3>1
      <4> QED BY <1>11, <2>5, <4>1
    <3> QED BY <3>1
  <2> QED BY <1>11, <2>8
\* They are the same digits.
<1>14. ASSUME k > 0 PROVE number = digits
  <2>1. begin - 1 = d /\ d \in Nat /\ d <= Len(text) /\ d <= n /\ k \in Nat /\ k <= n - d
    BY <1>1, <1>5, <1>11, <1>12, <1>14
  <2>2. PICK a : a = After(text, d)
    OBVIOUS
  <2>3. a \in Seq(C) /\ Len(a) = L - d /\ \A j \in 1 .. L - d : a[j] = text[d + j]
    <3>1. a \in Seq(C) /\ Len(a) = Len(text) - d /\ \A j \in 1 .. Len(text) - d : a[j] = text[d + j]
      BY <2>1, <2>2, Behind
    <3> QED BY <1>1, <3>1
  <2>4. k <= Len(a)
    BY <1>1, <1>5, <2>1, <2>3
  <2>5. ASSUME NEW j \in 1 .. k PROVE a[j] = digits[j] /\ a[j] \in Digit
    <3>1. j \in 1 .. L - d /\ d + j \in 1 .. n
      BY <1>1, <1>5, <2>1
    <3>2. a[j] = text[d + j] /\ u[d + j] = text[d + j] /\ digits[j] = u[d + j] /\ u[d + j] \in Digit
      BY <1>5, <1>6, <1>11, <2>3, <3>1
    <3> QED BY <3>2
  <2>6. k = Len(a) \/ a[k + 1] \notin Digit
    <3>1. CASE k # n - d
      <4>1. k + 1 \in 1 .. L - d /\ d + (k + 1) = d + k + 1 /\ d + k + 1 \in 1 .. n
        BY <1>1, <1>5, <2>1, <3>1
      <4>2. a[k + 1] = text[d + (k + 1)] /\ u[d + k + 1] = text[d + k + 1]
        BY <1>5, <2>3, <4>1
      <4> QED BY <1>11, <3>1, <4>1, <4>2
    <3>2. CASE k = n - d /\ n # L
      <4>1. k + 1 \in 1 .. L - d /\ d + (k + 1) = n + 1
        BY <1>1, <1>5, <2>1, <3>2
      <4>2. a[k + 1] = text[n + 1]
        BY <2>3, <4>1
      <4> QED BY <1>4, <3>2, <4>2, DigitIsNoMark
    <3>3. CASE k = n - d /\ n = L
      BY <2>3, <3>3
    <3> QED BY <3>1, <3>2, <3>3
  <2>7. LeadingDigits(a) = SubSeq(a, 1, k) /\ Len(LeadingDigits(a)) = k
    BY <2>1, <2>3, <2>4, <2>5, <2>6, DigitsAre
  <2>8. LeadingDigits(a) \in Seq(C) /\ \A j \in 1 .. k : LeadingDigits(a)[j] = a[j]
    BY <2>1, <2>3, <2>4, <2>7, Beginning
  <2>9. PICK m : m = LeadingDigits(a)
    OBVIOUS
  <2>10. m \in Seq(C) /\ Len(m) = Len(digits) /\ \A j \in 1 .. Len(m) : m[j] = digits[j]
    BY <1>6, <2>5, <2>7, <2>8, <2>9
  <2>11. m = digits
    BY <1>6, <2>10, SameText
  <2> QED BY <1>8, <2>1, <2>2, <2>9, <2>11
<1>15. Stoul(u) # <<>> <=> places # {} /\ leads /\ Number(number) < LongModulus
  BY <1>6, <1>12, <1>13, <1>14
<1>16. PICK v : v = SubSeq(text, 1, begin - 1)
  OBVIOUS
<1>17. ASSUME Stoul(u) # <<>>, Number(number) < StatusModulus, ~Contains(v, "-")
       PROVE  Stoul(u)[1] % StatusModulus = Number(number)
  <2>1. k > 0 /\ number = digits /\ begin - 1 = d
    BY <1>6, <1>11, <1>12, <1>14, <1>17
  <2>2. ~(w < n /\ u[w + 1] = "-")
    <3>1. ASSUME w < n, u[w + 1] = "-" PROVE FALSE
      <4>1. d = w + 1 /\ d \in 1 .. n /\ d \in Nat /\ d <= Len(text)
        BY <1>1, <1>5, <1>11, <3>1
      <4>2. v \in Seq(C) /\ Len(v) = d /\ \A j \in 1 .. d : v[j] = text[j]
        BY <1>16, <2>1, <4>1, Beginning
      <4>3. d \in 1 .. Len(v) /\ v[d] = "-"
        BY <1>5, <3>1, <4>1, <4>2
      <4> QED BY <1>17, <4>3 DEF Contains
    <3> QED BY <3>1
  <2>3. Stoul(u)[1] = Number(number)
    BY <1>6, <1>17, <2>1, <2>2
  <2>4. PICK m \in Nat : m = Number(number)
    BY <1>6, <2>1, NumberIsNat
  <2>5. m < StatusModulus => m % StatusModulus = m
    BY ParserAssumption
  <2> QED BY <1>17, <2>3, <2>4, <2>5
<1>18. parsed # <<>> <=> Stoul(u) # <<>>
  BY <1>3
<1>19. parsed # <<>> => parsed[1].status_code = Stoul(u)[1] % StatusModulus /\ parsed[1].description = reason
  BY <1>3
<1>20. places # {} <=> \E i \in DOMAIN text : text[i] \in Digit
  BY <1>7
<1>21. StatusAsWritten <=>
         /\ parsed # <<>> <=> (\E i \in DOMAIN text : text[i] \in Digit) /\ leads /\ Number(number) < LongModulus
         /\ parsed # <<>> =>
              /\ Number(number) < StatusModulus /\ ~Contains(v, "-") => parsed[1].status_code = Number(number)
              /\ Contains(text, "sp") => text = UpTo(text, {"sp"}) \o <<"sp">> \o parsed[1].description
              /\ ~Contains(text, "sp") => parsed[1].description = <<>>
  BY <1>1, <1>7, <1>8, <1>16 DEF StatusAsWritten, Reply
<1> QED BY <1>2, <1>3, <1>15, <1>17, <1>18, <1>19, <1>20, <1>21

----------------------------------------------------------------------------
(* URIs.                                                                   *)

LEMMA FollowsThree ==
  ASSUME NEW S, NEW s \in Seq(S), NEW n \in Nat, NEW x, NEW y, NEW z
  PROVE  Follows(s, n, <<x, y, z>>) <=>
           n + 3 <= Len(s) /\ s[n + 1] = x /\ s[n + 2] = y /\ s[n + 3] = z
<1>1. Len(s) \in Nat /\ DOMAIN s = 1 .. Len(s)
  BY LenProperties
<1>2. DOMAIN <<x, y, z>> = {1, 2, 3} /\ <<x, y, z>>[1] = x /\ <<x, y, z>>[2] = y /\ <<x, y, z>>[3] = z
  OBVIOUS
<1>3. Follows(s, n, <<x, y, z>>) <=> /\ n + 1 \in DOMAIN s /\ s[n + 1] = x
                                    /\ n + 2 \in DOMAIN s /\ s[n + 2] = y
                                    /\ n + 3 \in DOMAIN s /\ s[n + 3] = z
  BY <1>2 DEF Follows
<1>4. n + 1 \in 1 .. Len(s) /\ n + 2 \in 1 .. Len(s) /\ n + 3 \in 1 .. Len(s) <=> n + 3 <= Len(s)
  BY <1>1
<1> QED BY <1>1, <1>3, <1>4

\* A number between two places.
LEMMA NumberBetween ==
  ASSUME NEW S, NEW s \in Seq(S), NEW i \in Nat, NEW k \in Nat, i < k, k <= Len(s)
  PROVE  AllDigits(SubSeq(s, i + 1, k)) <=> \A j \in i + 1 .. k : s[j] \in Digit
<1>1. PICK b : b = SubSeq(s, i + 1, k)
  OBVIOUS
<1>2. i <= k
  OBVIOUS
<1>3. b \in Seq(S) /\ Len(b) = k - i /\ \A j \in 1 .. k - i : b[j] = s[i + j]
  BY <1>1, <1>2, Between
<1>4. AllDigits(b) <=> Len(b) > 0 /\ \A j \in 1 .. Len(b) : b[j] \in Digit
  BY <1>3, AllDigitsIs
<1>5. AllDigits(b) <=> \A j \in 1 .. k - i : b[j] \in Digit
  BY <1>3, <1>4
<1>6. ASSUME \A j \in 1 .. k - i : b[j] \in Digit, NEW l \in i + 1 .. k PROVE s[l] \in Digit
  <2>1. l - i \in 1 .. k - i /\ i + (l - i) = l
    OBVIOUS
  <2>2. b[l - i] = s[i + (l - i)]
    BY <1>3, <2>1
  <2> QED BY <1>6, <2>1, <2>2
<1>7. ASSUME \A l \in i + 1 .. k : s[l] \in Digit, NEW j \in 1 .. k - i PROVE b[j] \in Digit
  <2>1. i + j \in i + 1 .. k
    OBVIOUS
  <2> QED BY <1>3, <1>7, <2>1
<1> QED BY <1>1, <1>5, <1>6, <1>7

\* "://" at place i.
Mark(u, i) == u[i] = ":" /\ u[i + 1] = "/" /\ u[i + 2] = "/"

\* A match of the expression for URIs, by its places.
LEMMA SplitsAre ==
  ASSUME NEW S, NEW u \in Seq(S), NEW L \in Nat, L = Len(u),
         NEW a \in 1 .. L, NEW b \in 1 .. L, NEW c \in 1 .. L
  PROVE  [scheme |-> a, host |-> b, port |-> c] \in UriSplits(u) <=>
           /\ a + 3 <= L /\ Mark(u, a + 1)
           /\ b > a + 3
           /\ \/ c = b
              \/ c > b + 1 /\ u[b + 1] = ":" /\ \A i \in b + 2 .. c : u[i] \in Digit
           /\ c + 1 <= L /\ u[c + 1] = "/"
<1>1. DOMAIN u = 1 .. L
  BY LenProperties
<1>2. PICK m : m = [scheme |-> a, host |-> b, port |-> c]
  OBVIOUS
<1>3. /\ m \in [scheme : DOMAIN u, host : DOMAIN u, port : DOMAIN u]
      /\ m.scheme = a /\ m.host = b /\ m.port = c
  BY <1>1, <1>2
<1>4. m \in UriSplits(u) <=>
        /\ Follows(u, a, <<":", "/", "/">>)
        /\ b > a + 3
        /\ \/ c = b
           \/ c > b + 1 /\ u[b + 1] = ":" /\ AllDigits(SubSeq(u, b + 2, c))
        /\ Follows(u, c, <<"/">>)
  BY <1>3 DEF UriSplits
<1>5. a \in Nat /\ b \in Nat /\ c \in Nat
  OBVIOUS
<1>6. Follows(u, a, <<":", "/", "/">>) <=> a + 3 <= L /\ Mark(u, a + 1)
  <2>1. Follows(u, a, <<":", "/", "/">>) <=> a + 3 <= Len(u) /\ u[a + 1] = ":" /\ u[a + 2] = "/" /\ u[a + 3] = "/"
    BY <1>5, FollowsThree
  <2>2. (a + 1) + 1 = a + 2 /\ (a + 1) + 2 = a + 3
    BY <1>5
  <2> QED BY <2>1, <2>2 DEF Mark
<1>7. Follows(u, c, <<"/">>) <=> c + 1 <= L /\ u[c + 1] = "/"
  BY <1>5, FollowsOne
<1>8. ASSUME c > b + 1
      PROVE  AllDigits(SubSeq(u, b + 2, c)) <=> \A i \in b + 2 .. c : u[i] \in Digit
  <2>1. b + 1 \in Nat /\ b + 1 < c /\ c <= Len(u) /\ (b + 1) + 1 = b + 2
    BY <1>5, <1>8
  <2>2. AllDigits(SubSeq(u, (b + 1) + 1, c)) <=> \A i \in (b + 1) + 1 .. c : u[i] \in Digit
    BY <1>5, <2>1, NumberBetween
  <2> QED BY <2>1, <2>2
<1> QED BY <1>2, <1>4, <1>6, <1>7, <1>8

\* Every match has such places.
LEMMA SplitsHave ==
  ASSUME NEW S, NEW u \in Seq(S), NEW L \in Nat, L = Len(u), NEW m \in UriSplits(u)
  PROVE  \E a, b, c \in 1 .. L : m = [scheme |-> a, host |-> b, port |-> c]
<1>1. DOMAIN u = 1 .. L
  BY LenProperties
<1>2. m \in [scheme : 1 .. L, host : 1 .. L, port : 1 .. L]
  BY <1>1 DEF UriSplits
<1>3. m = [scheme |-> m.scheme, host |-> m.host, port |-> m.port]
  BY <1>2
<1>4. m.scheme \in 1 .. L /\ m.host \in 1 .. L /\ m.port \in 1 .. L
  BY <1>2
<1> QED BY <1>3, <1>4

\* Text with the first "://" at p and the next "/" behind e.
Divided(u, L, p, e) ==
  /\ p \in Nat /\ e \in Nat
  /\ 2 <= p /\ p + 2 < e /\ e + 1 <= L
  /\ Mark(u, p)
  /\ \A i \in 1 .. L - 2 : Mark(u, i) => p <= i
  /\ \A i \in p + 3 .. e : u[i] # "/"
  /\ u[e + 1] = "/"

\* The host ends at k, where a port begins, if there is one.
HostEnds(u, p, e, k) ==
  /\ k \in p + 3 .. e
  /\ \/ k <= e - 2 /\ u[k + 1] = ":" /\ \A i \in k + 2 .. e : u[i] \in Digit
     \/ k = e /\ \A h \in p + 3 .. e - 2 : ~ (u[h + 1] = ":" /\ \A i \in h + 2 .. e : u[i] \in Digit)

\* The match that is taken.
LEMMA MatchIs ==
  ASSUME NEW S, NEW u \in Seq(S), NEW L \in Nat, L = Len(u), NEW p, NEW e, Divided(u, L, p, e),
         NEW k, HostEnds(u, p, e, k)
  PROVE  LET m == [scheme |-> p - 1, host |-> k, port |-> e]
         IN  /\ m \in UriSplits(u)
             /\ m = CHOOSE m1 \in UriSplits(u) : \A m2 \in UriSplits(u) : ~Preferred(m2, m1)
<1>1. /\ p \in Nat /\ e \in Nat /\ k \in Nat
      /\ 2 <= p /\ p + 2 < e /\ e + 1 <= L /\ p + 3 <= k /\ k <= e
      /\ Mark(u, p) /\ u[e + 1] = "/"
  BY DEF Divided, HostEnds
<1>2. /\ \A i \in 1 .. L - 2 : Mark(u, i) => p <= i
      /\ \A i \in p + 3 .. e : u[i] # "/"
  BY DEF Divided
<1>3. PICK m : m = [scheme |-> p - 1, host |-> k, port |-> e]
  OBVIOUS
<1>4. m \in UriSplits(u)
  <2>1. /\ p - 1 \in 1 .. L /\ k \in 1 .. L /\ e \in 1 .. L
        /\ (p - 1) + 3 <= L /\ (p - 1) + 1 = p /\ k > (p - 1) + 3
    BY <1>1
  <2>2. e = k \/ (e > k + 1 /\ u[k + 1] = ":" /\ \A i \in k + 2 .. e : u[i] \in Digit)
    <3>1. CASE k = e
      BY <3>1
    <3>2. CASE k <= e - 2 /\ u[k + 1] = ":" /\ \A i \in k + 2 .. e : u[i] \in Digit
      <4>1. e > k + 1
        BY <1>1, <3>2
      <4> QED BY <3>2, <4>1
    <3> QED BY <3>1, <3>2 DEF HostEnds
  <2> QED BY <1>1, <1>3, <2>1, <2>2, SplitsAre
\* Others have a longer scheme, or a longer host.
<1>5. ASSUME NEW a \in 1 .. L, NEW b \in 1 .. L, NEW c \in 1 .. L,
             [scheme |-> a, host |-> b, port |-> c] \in UriSplits(u)
      PROVE  /\ p - 1 <= a
             /\ a = p - 1 => k <= b
             /\ a = p - 1 /\ b = k => c = e
  <2>1. /\ a + 3 <= L /\ Mark(u, a + 1)
        /\ b > a + 3
        /\ \/ c = b
           \/ c > b + 1 /\ u[b + 1] = ":" /\ \A i \in b + 2 .. c : u[i] \in Digit
        /\ c + 1 <= L /\ u[c + 1] = "/"
    BY <1>5, SplitsAre
  <2>2. p <= a + 1
    <3>1. a + 1 \in 1 .. L - 2
      BY <2>1
    <3> QED BY <1>2, <2>1, <3>1
  <2>3. ASSUME a = p - 1, b <= k PROVE c = e /\ k <= b
    <3>1. p + 3 <= b /\ b <= e /\ b <= c
      BY <1>1, <2>1, <2>3
    <3>2. c >= e
      <4> SUFFICES ASSUME c < e PROVE FALSE
        BY <1>1
      <4>1. c + 1 \in p + 3 .. e
        BY <1>1, <3>1
      <4> QED BY <1>2, <2>1, <4>1
    <3>3. CASE c = b
      <4>1. c = e /\ b = e
        BY <1>1, <3>1, <3>2, <3>3
      <4> QED BY <1>1, <4>1
    <3>4. CASE c > b + 1 /\ u[b + 1] = ":" /\ \A i \in b + 2 .. c : u[i] \in Digit
      <4>1. b # e
        <5>1. ":" # "/"
          OBVIOUS
        <5> QED BY <1>1, <3>4, <5>1
      <4>2. c = e
        <5> SUFFICES ASSUME c > e PROVE FALSE
          BY <1>1, <3>2
        <5>1. e + 1 \in b + 2 .. c
          BY <1>1, <3>1, <4>1
        <5>2. u[e + 1] \in Digit
          BY <3>4, <5>1
        <5> QED BY <1>1, <5>2, DigitIsNoMark
      <4>3. b + 2 <= e /\ b \in p + 3 .. e - 2 /\ \A i \in b + 2 .. e : u[i] \in Digit
        BY <1>1, <3>1, <3>4, <4>2
      <4>4. k # e
        <5> SUFFICES ASSUME k = e PROVE FALSE
          OBVIOUS
        <5>1. \A h \in p + 3 .. e - 2 : ~ (u[h + 1] = ":" /\ \A i \in h + 2 .. e : u[i] \in Digit)
          BY <1>1 DEF HostEnds
        <5> QED BY <3>4, <4>3, <5>1
      <4>5. k <= e - 2 /\ u[k + 1] = ":"
        BY <4>4 DEF HostEnds
      <4>6. b = k
        <5> SUFFICES ASSUME b < k PROVE FALSE
          BY <1>1, <2>3
        <5>1. k + 1 \in b + 2 .. e
          BY <1>1, <4>5
        <5>2. u[k + 1] \in Digit
          BY <4>3, <5>1
        <5> QED BY <4>5, <5>2, DigitIsNoMark
      <4> QED BY <1>1, <4>2, <4>6
    <3> QED BY <2>1, <3>3, <3>4
  <2>4. a = p - 1 => k <= b
    <3> SUFFICES ASSUME a = p - 1, ~ (k <= b) PROVE FALSE
      OBVIOUS
    <3>1. b <= k
      BY <1>1
    <3> QED BY <2>3, <3>1
  <2>5. a = p - 1 /\ b = k => c = e
    <3> SUFFICES ASSUME a = p - 1, b = k PROVE c = e
      OBVIOUS
    <3>1. b <= k
      BY <1>1
    <3> QED BY <2>3, <3>1
  <2> QED BY <1>1, <2>2, <2>4, <2>5
<1>6. m.scheme = p - 1 /\ m.host = k /\ m.port = e
  BY <1>3
<1>7. ASSUME NEW m2 \in UriSplits(u) PROVE ~Preferred(m2, m)
  <2>1. PICK a, b, c \in 1 .. L : m2 = [scheme |-> a, host |-> b, port |-> c]
    BY SplitsHave
  <2>2. m2.scheme = a /\ m2.host = b
    BY <2>1
  <2>3. p - 1 <= a /\ (a = p - 1 => k <= b)
    BY <1>5, <1>7, <2>1
  <2> QED BY <1>1, <1>6, <2>1, <2>2, <2>3 DEF Preferred
<1>8. ASSUME NEW m1 \in UriSplits(u), ~Preferred(m, m1) PROVE m1 = m
  <2>1. PICK a, b, c \in 1 .. L : m1 = [scheme |-> a, host |-> b, port |-> c]
    BY SplitsHave
  <2>2. m1.scheme = a /\ m1.host = b
    BY <2>1
  <2>3. p - 1 <= a /\ (a = p - 1 => k <= b) /\ (a = p - 1 /\ b = k => c = e)
    BY <1>5, <1>8, <2>1
  <2>4. ~ (p - 1 < a) /\ ~ (p - 1 = a /\ k < b)
    BY <1>6, <1>8, <2>2 DEF Preferred
  <2>5. a = p - 1 /\ b = k
    BY <1>1, <2>1, <2>3, <2>4
  <2> QED BY <1>3, <2>1, <2>3, <2>5
<1>9. PICK chosen : chosen = CHOOSE m1 \in UriSplits(u) : \A m2 \in UriSplits(u) : ~Preferred(m2, m1)
  OBVIOUS
<1>10. chosen \in UriSplits(u) /\ \A m2 \in UriSplits(u) : ~Preferred(m2, chosen)
  BY <1>4, <1>7, <1>9
<1>11. chosen = m
  BY <1>4, <1>8, <1>10
<1> QED BY <1>3, <1>4, <1>9, <1>11

\* A part of a part is a part.
LEMMA Inside ==
  ASSUME NEW S, NEW u \in Seq(S), NEW v \in Seq(S), NEW b \in Nat, NEW q \in Nat,
         Len(v) = q, b + q <= Len(u), \A j \in 1 .. q : v[j] = u[b + j],
         NEW i \in Nat, NEW k \in Nat, i <= k, k <= q
  PROVE  SubSeq(v, i + 1, k) = SubSeq(u, b + i + 1, b + k)
<1>1. PICK x, y : x = SubSeq(v, i + 1, k) /\ y = SubSeq(u, (b + i) + 1, b + k)
  OBVIOUS
<1>2. x \in Seq(S) /\ Len(x) = k - i /\ \A j \in 1 .. k - i : x[j] = v[i + j]
  BY <1>1, Between
<1>3. y \in Seq(S) /\ Len(y) = k - i /\ \A j \in 1 .. k - i : y[j] = u[(b + i) + j]
  <2>1. PICK c, d : c = b + i /\ d = b + k
    OBVIOUS
  <2>2. c \in Nat /\ d \in Nat /\ c <= d /\ d <= Len(u) /\ d - c = k - i
    <3>1. Len(u) \in Nat
      BY LenProperties
    <3> QED BY <2>1, <3>1
  <2>3. y = SubSeq(u, c + 1, d)
    BY <1>1, <2>1
  <2>4. y \in Seq(S) /\ Len(y) = d - c /\ \A j \in 1 .. d - c : y[j] = u[c + j]
    BY <2>2, <2>3, Between
  <2> QED BY <2>1, <2>2, <2>4
<1>4. ASSUME NEW j \in 1 .. k - i PROVE x[j] = y[j]
  <2>1. i + j \in 1 .. q /\ b + (i + j) = (b + i) + j
    OBVIOUS
  <2> QED BY <1>2, <1>3, <2>1
<1>5. x = y
  BY <1>2, <1>3, <1>4, SameText
<1>6. (b + i) + 1 = b + i + 1
  OBVIOUS
<1> QED BY <1>1, <1>5, <1>6

\* What u is, taken apart at p, e and k, with the port it is given.
PartsAre(u, p, e, k, port, parts) ==
  parts = [scheme |-> SubSeq(u, 1, p - 1), host |-> SubSeq(u, p + 3, k), port |-> port, path |-> After(u, e)]

\* A URI is what it is taken apart into.
LEMMA UriIs ==
  ASSUME NEW S, NEW u \in Seq(S), NEW L \in Nat, L = Len(u),
         NEW p, NEW e, Divided(u, L, p, e), NEW k, HostEnds(u, p, e, k)
  PROVE  /\ k = e =>
              \A none : PartsAre(u, p, e, k, DefaultPort, none) => ParseUri(<<"a">>, u) = <<none>>
         /\ k # e =>
              \A n, some : n = Number(SubSeq(u, k + 2, e)) /\ PartsAre(u, p, e, k, n % PortModulus, some) =>
                ParseUri(<<"a">>, u) = IF n >= LongModulus THEN <<>> ELSE <<some>>
<1>1. PICK m : m = CHOOSE m1 \in UriSplits(u) : \A m2 \in UriSplits(u) : ~Preferred(m2, m1)
  OBVIOUS
<1>2. /\ UriSplits(u) # {}
      /\ m.scheme = p - 1 /\ m.host = k /\ m.port = e
  <2>1. PICK r : r = [scheme |-> p - 1, host |-> k, port |-> e]
    OBVIOUS
  <2>2. r \in UriSplits(u) /\ r = m
    BY <1>1, <2>1, MatchIs
  <2> QED BY <2>1, <2>2
<1>3. <<"a">> # <<"CONNECT">>
  <2>1. <<"a">>[1] = "a" /\ <<"CONNECT">>[1] = "CONNECT" /\ "a" # "CONNECT"
    OBVIOUS
  <2> QED BY <2>1
<1>4. PICK scheme, host, path, digits :
        /\ scheme = SubSeq(u, 1, m.scheme) /\ host = SubSeq(u, m.scheme + 4, m.host)
        /\ path = After(u, m.port) /\ digits = SubSeq(u, m.host + 2, m.port)
  OBVIOUS
<1>5. PICK result : result = [scheme |-> scheme, host |-> host, port |-> DefaultPort, path |-> path]
  OBVIOUS
<1>6. ParseUri(<<"a">>, u) = IF m.port = m.host THEN <<result>> ELSE WithPort(result, digits)
  <2>1. ParseUri(<<"a">>, u) =
          LET m0 == CHOOSE m1 \in UriSplits(u) : \A m2 \in UriSplits(u) : ~Preferred(m2, m1)
              r == [scheme |-> SubSeq(u, 1, m0.scheme), host |-> SubSeq(u, m0.scheme + 4, m0.host),
                    port |-> DefaultPort, path |-> After(u, m0.port)]
          IN  IF m0.port = m0.host THEN <<r>> ELSE WithPort(r, SubSeq(u, m0.host + 2, m0.port))
    BY <1>2, <1>3 DEF ParseUri
  <2> QED BY <1>1, <1>4, <1>5, <2>1
<1>7. /\ scheme = SubSeq(u, 1, p - 1) /\ host = SubSeq(u, p + 3, k)
      /\ path = After(u, e) /\ digits = SubSeq(u, k + 2, e)
  <2>1. (p - 1) + 4 = p + 3
    BY DEF Divided
  <2> QED BY <1>2, <1>4, <2>1
<1>8. ASSUME k = e, NEW none, PartsAre(u, p, e, k, DefaultPort, none)
      PROVE  ParseUri(<<"a">>, u) = <<none>>
  <2>1. ParseUri(<<"a">>, u) = <<result>>
    BY <1>2, <1>6, <1>8
  <2>2. none = result
    BY <1>5, <1>7, <1>8 DEF PartsAre
  <2> QED BY <2>1, <2>2
<1>9. ASSUME k # e, NEW n, NEW some, n = Number(SubSeq(u, k + 2, e)),
             PartsAre(u, p, e, k, n % PortModulus, some)
      PROVE  ParseUri(<<"a">>, u) = IF n >= LongModulus THEN <<>> ELSE <<some>>
  <2>1. m.port # m.host
    BY <1>2, <1>9
  <2>2. ParseUri(<<"a">>, u) = WithPort(result, digits)
    BY <1>6, <2>1
  <2>3. some = [scheme |-> scheme, host |-> host, port |-> n % PortModulus, path |-> path]
    BY <1>7, <1>9 DEF PartsAre
  <2>4. n = Number(digits)
    BY <1>7, <1>9
  <2>5. WithPort(result, digits) = IF n >= LongModulus THEN <<>>
          ELSE <<[scheme |-> scheme, host |-> host, port |-> n % PortModulus, path |-> path]>>
    BY <1>5, <2>4, PortIs
  <2> QED BY <2>2, <2>3, <2>5
<1> QED BY <1>8, <1>9

\* Without "://", or a "/" behind it, there is no URI.
LEMMA NoUri ==
  ASSUME NEW S, NEW u \in Seq(S), UriSplits(u) = {}
  PROVE  ParseUri(<<"a">>, u) = <<>>
<1>1. <<"a">> # <<"CONNECT">>
  <2>1. <<"a">>[1] = "a" /\ <<"CONNECT">>[1] = "CONNECT" /\ "a" # "CONNECT"
    OBVIOUS
  <2> QED BY <2>1
<1> QED BY <1>1 DEF ParseUri

\* A URI is understood as it was written.
LEMMA UriIsAsWritten ==
  ASSUME NEW C, \A x \in C : x # "cr" /\ x # "HTTP/", text \in Seq(C)
  PROVE  UriAsWritten
<1>1. PICK L \in Nat : L = Len(text)
  BY LenProperties
<1>2. PICK parsed, uri : /\ parsed = ParseRequestHeader(Request("a", text))
                         /\ uri = ParseUri(<<"a">>, text)
  OBVIOUS
<1>3. parsed = IF text # <<>> /\ ~Contains(text, "sp") /\ uri # <<>>
               THEN <<[method |-> <<"a">>, uri |-> uri[1], version |-> <<"1">>, headers |-> <<>>]>>
               ELSE <<>>
  <2>1. "a" # "sp" /\ "a" # "cr"
    OBVIOUS
  <2> QED BY <1>2, <2>1, RequestRead
<1>4. PICK marks : marks = {i \in DOMAIN text : Follows(text, i - 1, <<":", "/", "/">>)}
  OBVIOUS
<1>5. PICK p, behind, authority, host :
        /\ p = Min(marks) /\ behind = After(text, p + 2)
        /\ authority = UpTo(behind, {"/"}) /\ host = HostOf(authority)
  OBVIOUS
<1>6. UriAsWritten <=>
        /\ marks = {} \/ Contains(text, "sp") => parsed = <<>>
        /\ marks # {} /\ 1 \notin marks /\ ~Contains(text, "sp") /\ authority # <<>> =>
             /\ parsed # <<>> <=> authority # behind /\ PortOf(authority) < LongModulus
             /\ parsed # <<>> =>
                  /\ parsed[1].uri.scheme = SubSeq(text, 1, p - 1)
                  /\ parsed[1].uri.host = host
                  /\ parsed[1].uri.path = After(behind, Len(authority))
                  /\ host = authority => parsed[1].uri.port = DefaultPort
                  /\ host # authority /\ PortOf(authority) < PortModulus =>
                       parsed[1].uri.port = PortOf(authority)
  BY <1>2, <1>4, <1>5 DEF UriAsWritten, Request
<1>7. \A i : i \in marks <=> i \in 1 .. L - 2 /\ Mark(text, i)
  <2> SUFFICES ASSUME NEW i PROVE i \in marks <=> i \in 1 .. L - 2 /\ Mark(text, i)
    OBVIOUS
  <2>1. DOMAIN text = 1 .. L
    BY <1>1, LenProperties
  <2>2. i \in marks <=> i \in 1 .. L /\ Follows(text, i - 1, <<":", "/", "/">>)
    BY <1>4, <2>1
  <2>3. CASE i \in 1 .. L
    <3>1. PICK j \in Nat : j = i - 1
      BY <2>3
    <3>2. Follows(text, j, <<":", "/", "/">>) <=>
            j + 3 <= Len(text) /\ text[j + 1] = ":" /\ text[j + 2] = "/" /\ text[j + 3] = "/"
      BY FollowsThree
    <3>3. j + 1 = i /\ j + 2 = i + 1 /\ j + 3 = i + 2 /\ (j + 3 <= L <=> i \in 1 .. L - 2)
      BY <1>1, <2>3, <3>1
    <3> QED BY <1>1, <2>2, <2>3, <3>1, <3>2, <3>3 DEF Mark
  <2>4. CASE i \notin 1 .. L
    <3>1. i \notin 1 .. L - 2
      BY <1>1, <2>4
    <3> QED BY <2>2, <2>4, <3>1
  <2> QED BY <2>3, <2>4
<1>8. ASSUME marks = {} PROVE parsed = <<>>
  <2>1. ASSUME NEW m \in UriSplits(text) PROVE FALSE
    <3>1. PICK a, b, c \in 1 .. L : m = [scheme |-> a, host |-> b, port |-> c]
      BY <1>1, SplitsHave
    <3>2. a + 3 <= L /\ Mark(text, a + 1)
      BY <1>1, <3>1, SplitsAre
    <3>3. a + 1 \in 1 .. L - 2
      BY <3>2
    <3> QED BY <1>7, <1>8, <3>2, <3>3
  <2>2. UriSplits(text) = {}
    BY <2>1
  <2>3. uri = <<>>
    BY <1>2, <2>2, NoUri
  <2> QED BY <1>3, <2>3
<1>9. ASSUME marks # {}, 1 \notin marks, ~Contains(text, "sp"), authority # <<>>
      PROVE  /\ parsed # <<>> <=> authority # behind /\ PortOf(authority) < LongModulus
             /\ parsed # <<>> =>
                  /\ parsed[1].uri.scheme = SubSeq(text, 1, p - 1)
                  /\ parsed[1].uri.host = host
                  /\ parsed[1].uri.path = After(behind, Len(authority))
                  /\ host = authority => parsed[1].uri.port = DefaultPort
                  /\ host # authority /\ PortOf(authority) < PortModulus =>
                       parsed[1].uri.port = PortOf(authority)
  <2>1. /\ p \in Nat /\ 2 <= p /\ p + 2 <= L /\ Mark(text, p)
        /\ \A i \in 1 .. L - 2 : Mark(text, i) => p <= i
    <3>1. marks \subseteq Nat
      BY <1>7
    <3>2. p \in marks /\ \A i \in marks : p <= i
      BY <1>5, <1>9, <3>1, MinIs
    <3>3. p \in 1 .. L - 2 /\ Mark(text, p) /\ p # 1
      BY <1>7, <1>9, <3>2
    <3> QED BY <1>7, <3>2, <3>3
  <2>2. PICK b \in Nat : b = p + 2
    BY <2>1
  <2>3. /\ b <= L /\ behind = After(text, b)
        /\ behind \in Seq(C) /\ Len(behind) = L - b
        /\ \A j \in 1 .. L - b : behind[j] = text[b + j]
    <3>1. b <= Len(text)
      BY <1>1, <2>1, <2>2
    <3>2. /\ After(text, b) \in Seq(C) /\ Len(After(text, b)) = Len(text) - b
          /\ \A j \in 1 .. Len(text) - b : After(text, b)[j] = text[b + j]
      BY <3>1, Behind
    <3> QED BY <1>1, <1>5, <2>2, <3>1, <3>2
  <2>4. PICK q \in 0 .. Len(behind) : /\ \A i \in 1 .. q : behind[i] \notin {"/"}
                                      /\ q = Len(behind) \/ behind[q + 1] \in {"/"}
                                      /\ authority = SubSeq(behind, 1, q)
                                      /\ Len(authority) = q
    <3>1. behind \in Seq(C)
      BY <2>3
    <3> QED BY <1>5, <3>1, UpToPlace
  <2>5. q \in Nat /\ q <= L - b /\ q <= Len(behind)
    BY <1>1, <2>3, <2>4
  <2>6. authority \in Seq(C) /\ \A j \in 1 .. q : authority[j] = behind[j] /\ authority[j] = text[b + j]
    <3>1. SubSeq(behind, 1, q) \in Seq(C) /\ \A j \in 1 .. q : SubSeq(behind, 1, q)[j] = behind[j]
      BY <2>3, <2>5, Beginning
    <3>2. \A j \in 1 .. q : j \in 1 .. L - b
      BY <2>5
    <3> QED BY <2>3, <2>4, <3>1, <3>2
  <2>7. q >= 1
    <3>1. q # 0
      BY <1>9, <2>4, <2>6, NoText
    <3> QED BY <2>5, <3>1
  <2>8. authority = behind <=> q = Len(behind)
    <3>1. SubSeq(behind, 1, Len(behind)) = behind
      BY <2>3, SubSeqFull
    <3> QED BY <2>4, <3>1
  \* There is no "/" behind the mark.
  <2>9. CASE q = Len(behind)
    <3>1. ASSUME NEW m \in UriSplits(text) PROVE FALSE
      <4>1. PICK x, y, z \in 1 .. L : m = [scheme |-> x, host |-> y, port |-> z]
        BY <1>1, SplitsHave
      <4>2. /\ x + 3 <= L /\ Mark(text, x + 1) /\ y > x + 3 /\ z + 1 <= L /\ text[z + 1] = "/"
            /\ z = y \/ z > y + 1
        BY <1>1, <4>1, SplitsAre
      <4>3. p <= x + 1
        <5>1. x + 1 \in 1 .. L - 2
          BY <4>2
        <5> QED BY <2>1, <4>2, <5>1
      <4>4. z + 1 > b
        BY <2>1, <2>2, <4>2, <4>3
      <4>5. (z + 1) - b \in 1 .. L - b /\ b + ((z + 1) - b) = z + 1
        BY <2>3, <4>2, <4>4
      <4>6. behind[(z + 1) - b] = "/" /\ (z + 1) - b \in 1 .. q
        BY <2>3, <2>9, <4>2, <4>5
      <4> QED BY <2>4, <4>6
    <3>2. UriSplits(text) = {}
      BY <3>1
    <3>3. uri = <<>>
      BY <1>2, <3>2, NoUri
    <3>4. parsed = <<>> /\ authority = behind
      BY <1>3, <2>8, <2>9, <3>3
    <3> QED BY <3>4
  <2>10. CASE q # Len(behind)
    <3>1. PICK e \in Nat : e = b + q
      BY <2>5
    <3>2. Divided(text, L, p, e)
      <4>1. p + 2 < e /\ e + 1 <= L
        BY <2>2, <2>3, <2>5, <2>7, <2>10, <3>1
      <4>2. ASSUME NEW i \in p + 3 .. e PROVE text[i] # "/"
        <5>1. i - b \in 1 .. q /\ b + (i - b) = i
          BY <2>1, <2>2, <2>5, <3>1
        <5>2. authority[i - b] = text[i] /\ authority[i - b] = behind[i - b]
          BY <2>6, <5>1
        <5> QED BY <2>4, <5>1, <5>2
      <4>3. text[e + 1] = "/"
        <5>1. q + 1 \in 1 .. L - b /\ b + (q + 1) = e + 1
          BY <2>3, <2>5, <2>10, <3>1
        <5>2. behind[q + 1] = text[e + 1]
          BY <2>3, <5>1
        <5> QED BY <2>4, <2>10, <5>2
      <4> QED BY <2>1, <3>1, <4>1, <4>2, <4>3 DEF Divided
    <3>3. authority # behind /\ text # <<>>
      <4>1. Len(text) # 0
        BY <1>1, <2>1
      <4>2. text # <<>>
        BY <4>1, NoText
      <4> QED BY <2>8, <2>10, <4>2
    <3>4. After(behind, Len(authority)) = After(text, e)
      <4>1. SubSeq(behind, q + 1, L - b) = SubSeq(text, b + q + 1, b + (L - b))
        <5>1. PICK w \in Nat : w = L - b
          BY <2>3
        <5>2. /\ text \in Seq(C) /\ behind \in Seq(C) /\ Len(behind) = w /\ b + w <= Len(text)
              /\ \A j \in 1 .. w : behind[j] = text[b + j]
              /\ q <= w /\ w <= w
          BY <1>1, <2>3, <2>5, <5>1
        <5>3. SubSeq(behind, q + 1, w) = SubSeq(text, b + q + 1, b + w)
          BY <2>5, <5>2, Inside
        <5> QED BY <5>1, <5>3
      <4>2. b + (L - b) = L
        BY <2>2
      <4>3. After(behind, q) = SubSeq(behind, q + 1, L - b) /\ After(text, e) = SubSeq(text, b + q + 1, L)
        BY <1>1, <2>3, <3>1 DEF After
      <4> QED BY <2>4, <4>1, <4>2, <4>3
    <3>5. \A i, k \in Nat : i <= k /\ k <= q => SubSeq(authority, i + 1, k) = SubSeq(text, b + i + 1, b + k)
      <4> SUFFICES ASSUME NEW i \in Nat, NEW k \in Nat, i <= k, k <= q
                   PROVE  SubSeq(authority, i + 1, k) = SubSeq(text, b + i + 1, b + k)
        OBVIOUS
      <4>1. /\ text \in Seq(C) /\ authority \in Seq(C) /\ Len(authority) = q /\ b + q <= Len(text)
            /\ \A j \in 1 .. q : authority[j] = text[b + j]
        BY <1>1, <2>3, <2>4, <2>5, <2>6
      <4> QED BY <2>5, <4>1, Inside
    <3>6. LongModulus \in Nat /\ PortModulus \in Nat
      BY ParserAssumption
    \* There is no port.
    <3>7. CASE HostOf(authority) = authority /\ ConnectSplits(authority) = {}
      <4>1. HostEnds(text, p, e, e)
        <5>1. e \in p + 3 .. e
          BY <2>1, <2>2, <2>7, <3>1
        <5>2. ASSUME NEW h \in p + 3 .. e - 2, text[h + 1] = ":", \A i \in h + 2 .. e : text[i] \in Digit
              PROVE  FALSE
          <6>1. PICK g : g = h - b
            OBVIOUS
          <6>2. /\ g \in 1 .. q - 2 /\ g + 1 \in Nat /\ g + 1 \in 1 .. q
                /\ b + (g + 1) = h + 1 /\ g + 1 <= Len(authority)
            BY <2>1, <2>2, <2>4, <2>5, <3>1, <6>1
          <6>3. authority[g + 1] = ":"
            BY <2>6, <5>2, <6>2
          <6>4. \A i \in (g + 1) + 1 .. Len(authority) : authority[i] \in Digit
            <7> SUFFICES ASSUME NEW i \in (g + 1) + 1 .. q PROVE authority[i] \in Digit
              BY <2>4
            <7>1. i \in 1 .. q /\ b + i \in h + 2 .. e
              BY <2>5, <3>1, <6>2
            <7> QED BY <2>6, <5>2, <7>1
          <6>5. g + 1 < Len(authority)
            BY <2>4, <2>5, <6>2
          <6>6. AllDigits(After(authority, g + 1))
            <7>1. authority \in Seq(C) /\ g + 1 \in Nat /\ g + 1 <= Len(authority)
              BY <2>6, <6>2
            <7> QED BY <6>4, <6>5, <7>1, BehindIsNumber
          <6>7. g \in ConnectSplits(authority)
            BY <2>4, <6>2, <6>3, <6>6 DEF ConnectSplits
          <6> QED BY <3>7, <6>7
        <5> QED BY <5>1, <5>2 DEF HostEnds
      <4>2. PICK none : PartsAre(text, p, e, e, DefaultPort, none)
        BY DEF PartsAre
      <4>3. uri = <<none>>
        BY <1>1, <1>2, <3>2, <4>1, <4>2, UriIs
      <4>4. SubSeq(text, p + 3, e) = authority
        <5>1. 0 \in Nat /\ 0 <= q /\ q <= q /\ 0 + 1 = 1
          BY <2>5
        <5>2. SubSeq(authority, 0 + 1, q) = SubSeq(text, b + 0 + 1, b + q)
          BY <2>5, <3>5, <5>1
        <5>3. SubSeq(authority, 1, q) = authority
          BY <2>4, <2>6, SubSeqFull
        <5>4. b + 0 + 1 = p + 3
          BY <2>1, <2>2
        <5> QED BY <3>1, <5>1, <5>2, <5>3, <5>4
      <4>5. PortOf(authority) = 0 /\ 0 < LongModulus
        BY <3>7, ParserAssumption DEF PortOf
      <4>6. /\ uri # <<>> /\ uri[1].scheme = SubSeq(text, 1, p - 1) /\ uri[1].host = authority
            /\ uri[1].port = DefaultPort /\ uri[1].path = After(text, e)
        <5>1. uri # <<>> /\ uri[1] = none
          BY <4>3
        <5>2. /\ none.scheme = SubSeq(text, 1, p - 1) /\ none.host = SubSeq(text, p + 3, e)
              /\ none.port = DefaultPort /\ none.path = After(text, e)
          BY <4>2 DEF PartsAre
        <5> QED BY <4>4, <5>1, <5>2
      <4>7. parsed # <<>> /\ parsed[1].uri = uri[1]
        BY <1>3, <1>9, <3>3, <4>6
      <4>8. host = authority
        BY <1>5, <3>7
      <4> QED BY <3>3, <3>4, <4>5, <4>6, <4>7, <4>8
    \* The port begins behind the host.
    <3>8. ASSUME NEW h \in 1 .. Len(authority) - 2, ConnectSplits(authority) = {h},
                 HostOf(authority) = SubSeq(authority, 1, h), Len(HostOf(authority)) = h,
                 HostOf(authority) # authority
          PROVE  /\ parsed # <<>> <=> authority # behind /\ PortOf(authority) < LongModulus
                 /\ parsed # <<>> =>
                      /\ parsed[1].uri.scheme = SubSeq(text, 1, p - 1)
                      /\ parsed[1].uri.host = host
                      /\ parsed[1].uri.path = After(behind, Len(authority))
                      /\ host = authority => parsed[1].uri.port = DefaultPort
                      /\ host # authority /\ PortOf(authority) < PortModulus =>
                           parsed[1].uri.port = PortOf(authority)
      <4>1. PICK k \in Nat : k = b + h
        BY <2>4, <2>5
      <4>2. /\ h \in Nat /\ h + 1 \in Nat /\ h + 1 \in 1 .. q /\ h <= q /\ h + 1 <= q /\ h + 2 <= q
            /\ b + (h + 1) = k + 1 /\ k \in p + 3 .. e /\ k <= e - 2 /\ k # e
        BY <2>1, <2>2, <2>4, <2>5, <3>1, <3>8, <4>1
      <4>3. authority[h + 1] = ":" /\ AllDigits(After(authority, h + 1))
        BY <3>8 DEF ConnectSplits
      <4>4. /\ After(authority, h + 1) \in Seq(Digit)
            /\ \A i \in (h + 1) + 1 .. q : authority[i] \in Digit
        <5>1. authority \in Seq(C) /\ h + 1 <= Len(authority)
          BY <2>4, <2>6, <4>2
        <5>2. /\ \A i \in (h + 1) + 1 .. Len(authority) : authority[i] \in Digit
              /\ After(authority, h + 1) \in Seq(Digit)
          BY <4>2, <4>3, <5>1, BehindIsNumber
        <5> QED BY <2>4, <5>2
      <4>5. HostEnds(text, p, e, k)
        <5>1. text[k + 1] = ":"
          BY <2>6, <4>2, <4>3
        <5>2. ASSUME NEW i \in k + 2 .. e PROVE text[i] \in Digit
          <6>1. i - b \in 1 .. q /\ i - b \in (h + 1) + 1 .. q /\ b + (i - b) = i
            BY <2>5, <3>1, <4>1, <4>2
          <6> QED BY <2>6, <4>4, <6>1
        <5> QED BY <4>2, <5>1, <5>2 DEF HostEnds
      <4>6. PICK n : n = Number(SubSeq(text, k + 2, e))
        OBVIOUS
      <4>7. PICK some : PartsAre(text, p, e, k, n % PortModulus, some)
        BY DEF PartsAre
      <4>8. uri = IF n >= LongModulus THEN <<>> ELSE <<some>>
        BY <1>1, <1>2, <3>2, <4>2, <4>5, <4>6, <4>7, UriIs
      <4>9. SubSeq(text, p + 3, k) = host
        <5>1. 0 \in Nat /\ 0 <= h /\ 0 + 1 = 1
          BY <4>2
        <5>2. SubSeq(authority, 0 + 1, h) = SubSeq(text, b + 0 + 1, b + h)
          BY <3>5, <4>2, <5>1
        <5>3. b + 0 + 1 = p + 3
          BY <2>1, <2>2
        <5> QED BY <1>5, <3>8, <4>1, <5>1, <5>2, <5>3
      <4>10. SubSeq(text, k + 2, e) = After(authority, h + 1)
        <5>1. SubSeq(authority, (h + 1) + 1, q) = SubSeq(text, b + (h + 1) + 1, b + q)
          <6>1. q <= q
            BY <2>5
          <6> QED BY <2>5, <3>5, <4>2, <6>1
        <5>2. b + (h + 1) + 1 = k + 2
          BY <4>1, <4>2
        <5> QED BY <2>4, <3>1, <5>1, <5>2 DEF After
      <4>11. n \in Nat
        BY <4>4, <4>6, <4>10, NumberIsNat
      <4>12. PortOf(authority) = n
        BY <3>8, <4>6, <4>10 DEF PortOf
      <4>13. uri # <<>> <=> n < LongModulus
        <5>1. n >= LongModulus <=> ~ (n < LongModulus)
          BY <3>6, <4>11
        <5> QED BY <4>8, <5>1
      <4>14. parsed # <<>> <=> n < LongModulus
        BY <1>3, <1>9, <3>3, <4>13
      <4>15. ASSUME parsed # <<>>
             PROVE  /\ parsed[1].uri.scheme = SubSeq(text, 1, p - 1)
                    /\ parsed[1].uri.host = host
                    /\ parsed[1].uri.path = After(text, e)
                    /\ n < PortModulus => parsed[1].uri.port = n
        <5>1. parsed[1].uri = uri[1]
          BY <1>3, <4>15
        <5>2. ~ (n >= LongModulus)
          BY <3>6, <4>11, <4>14, <4>15
        <5>3. uri[1] = some
          BY <4>8, <5>2
        <5>4. /\ some.scheme = SubSeq(text, 1, p - 1) /\ some.host = SubSeq(text, p + 3, k)
              /\ some.port = n % PortModulus /\ some.path = After(text, e)
          BY <4>7 DEF PartsAre
        <5>5. /\ uri[1].scheme = SubSeq(text, 1, p - 1) /\ uri[1].host = host
              /\ uri[1].port = n % PortModulus /\ uri[1].path = After(text, e)
          BY <4>9, <5>3, <5>4
        <5>6. n < PortModulus => n % PortModulus = n
          BY <3>6, <4>11
        <5> QED BY <5>1, <5>5, <5>6
      <4>16. host # authority
        BY <1>5, <3>8
      <4> QED BY <3>3, <3>4, <4>12, <4>14, <4>15, <4>16
    <3> QED BY <2>6, <3>7, <3>8, HostSplits
  <2> QED BY <2>9, <2>10
<1> QED BY <1>3, <1>6, <1>8, <1>9

----------------------------------------------------------------------------

\* The text of a part is written with the characters of that part.
Written == part \in DOMAIN Characters /\ text \in Seq(Characters[part])

\* StartLinesAsWritten holds of any text: of the requests and replies the proxy reads, it
\* understands the start line as it was written, and accepts nothing else.
THEOREM StartLinesAsWrittenHolds == Spec => []StartLinesAsWritten
<1>1. Init => Written
  BY TextAssumption DEF Init, Written
<1>2. Written /\ [Next]_vars => Written'
  <2> SUFFICES ASSUME Written, [Next]_vars PROVE Written'
    OBVIOUS
  <2>1. ASSUME NEW c \in Characters[part], Write(c) PROVE Written'
    <3>1. text' = Append(text, c) /\ part' = part
      BY <2>1 DEF Write
    <3>2. Append(text, c) \in Seq(Characters[part])
      BY <2>1, AppendProperties DEF Written
    <3> QED BY <3>1, <3>2 DEF Written
  <2>2. CASE UNCHANGED vars
    BY <2>2 DEF vars, Written
  <2> QED BY <2>1, <2>2 DEF Next
<1>3. Written => StartLinesAsWritten
  <2> SUFFICES ASSUME Written PROVE StartLinesAsWritten
    OBVIOUS
  <2>1. text \in Seq(Characters[part]) /\ part \in DOMAIN Characters
    BY DEF Written
  <2>2. part # "fields" => \A x \in Characters[part] : x # "cr" /\ x # "HTTP/"
    BY <2>1, TextAssumption
  <2>3. part = "uri" => UriAsWritten
    BY <2>1, <2>2, UriIsAsWritten
  <2>4. part = "connect" => ConnectAsWritten
    BY <2>1, <2>2, ConnectIsAsWritten
  <2>5. part = "status" => StatusAsWritten
    BY <2>1, <2>2, StatusIsAsWritten
  <2> QED BY <2>3, <2>4, <2>5 DEF StartLinesAsWritten
<1> QED BY <1>1, <1>2, <1>3, PTL DEF Spec

=============================================================================
