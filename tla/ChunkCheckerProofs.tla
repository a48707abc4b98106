-------------------------- MODULE ChunkCheckerProofs --------------------------
(***************************************************************************)
(* Proofs about the chunk checker, for every base and width of the size,   *)
(* those of the code among them: its members stay in their ranges, no more *)
(* is read of a chunk than its size, and its verdict on what it was given  *)
(* is right.                                                               *)
(*                                                                         *)
(* For the verdict the text is read by places.  After each of the          *)
(* ChunkStarts there is a piece, whose digits, line and end have one place *)
(* each (LineUpTo, PieceAt, OneEnd), and which is the same piece when the  *)
(* text goes on.  The invariant, Place, is that there is a place b with    *)
(* whole chunks up to it, and the state of the checker says what there is  *)
(* of the piece that begins there (Where): nothing more can make a piece   *)
(* of it once the checker has failed (Dead), and one of the Ends does      *)
(* before (CanGoOn).                                                       *)
(***************************************************************************)
EXTENDS ChunkChecker, SequenceTheorems, FiniteSetTheorems, WellFoundedInduction, TLAPS

\* A checker that keeps the invariant: while a size is read, nothing of its chunk has
\* been, or a size that wraps might fall below what was read of it.
Sound(c) ==
  /\ c \in Checker
  /\ c.current_chunk_size_has_read <= c.current_chunk_size
  /\ c.state = "chunk_size" => c.current_chunk_size_has_read = 0

\* A residue is a size.
LEMMA Residue == \A n \in Nat : n % Modulus \in 0 .. Modulus - 1
BY ChunkAssumption

\* Taking a character does not break it.
LEMMA StepIsSound ==
  ASSUME NEW c, Sound(c), NEW ch \in Char
  PROVE  Sound(Step(c, ch))
<1> DEFINE size == c.current_chunk_size
           read == c.current_chunk_size_has_read
<1>1. /\ c \in Checker /\ c.state \in State
      /\ size \in 0 .. Modulus - 1 /\ read \in 0 .. Modulus - 1 /\ read <= size
  BY DEF Sound, Checker
<1>2. \A s \in State \ {"chunk_size"} : Sound([c EXCEPT !.state = s])
  BY <1>1 DEF Sound, Checker
<1>3. ASSUME ch \in Digit PROVE Sound(SizeBegins(c, ch))
  <2>1. ch % Modulus \in 0 .. Modulus - 1
    BY <1>3, Residue, ChunkAssumption DEF Digit
  <2> QED BY <2>1, ChunkAssumption DEF Sound, Checker, SizeBegins, State
<1>4. ASSUME c.state = "chunk_size", ch \in Digit
      PROVE  Sound(SizeGoesOn(c, ch))
  <2>1. size * Base + ch \in Nat
    BY <1>1, <1>4, ChunkAssumption DEF Digit
  <2>2. (size * Base + ch) % Modulus \in 0 .. Modulus - 1
    BY <2>1, Residue
  <2>3. read = 0
    BY <1>4 DEF Sound
  <2> QED BY <1>1, <2>2, <2>3, ChunkAssumption DEF Sound, Checker, SizeGoesOn
<1>5. ASSUME DataRemains(c), c.state = "chunk_data"
      PROVE  Sound([c EXCEPT !.current_chunk_size_has_read = @ + 1])
  BY <1>1, <1>5, ChunkAssumption DEF Sound, Checker, DataRemains
<1>6. Sound(c)
  OBVIOUS
<1>7. AfterSizeLine(c) \in State \ {"chunk_size"}
  BY DEF AfterSizeLine, State
<1>8. \/ \E s \in State \ {"chunk_size"} : Step(c, ch) = [c EXCEPT !.state = s]
      \/ ch \in Digit /\ Step(c, ch) = SizeBegins(c, ch)
      \/ /\ c.state = "chunk_size" /\ ch \in Digit
         /\ Step(c, ch) = SizeGoesOn(c, ch)
      \/ /\ DataRemains(c) /\ c.state = "chunk_data"
         /\ Step(c, ch) = [c EXCEPT !.current_chunk_size_has_read = @ + 1]
      \/ Step(c, ch) = c
  <2>1. CASE c.state = "chunk_size_start"
    BY <1>7, <2>1 DEF Step, State
  <2>2. CASE c.state = "chunk_size"
    BY <2>2 DEF Step, State
  <2>3. CASE c.state = "chunk_ext"
    BY <1>7, <2>3 DEF Step, State
  <2>4. CASE c.state = "chunk_size_cr"
    BY <1>7, <2>4 DEF Step, State
  <2>5. CASE c.state = "chunk_data"
    BY <1>7, <2>5 DEF Step, State
  <2>6. CASE c.state = "chunk_data_cr"
    BY <1>7, <2>6 DEF Step, State
  <2>7. CASE c.state = "chunk_last"
    BY <1>7, <2>7 DEF Step, State
  <2>8. CASE c.state = "chunk_last_cr"
    BY <1>7, <2>8 DEF Step, State
  <2>9. CASE c.state = "chunk_complete"
    BY <1>7, <2>9 DEF Step, State
  <2>10. CASE c.state = "chunk_check_failed"
    BY <1>7, <2>10 DEF Step, State
  <2> QED BY <1>1, <2>1, <2>2, <2>3, <2>4, <2>5, <2>6, <2>7, <2>8, <2>9, <2>10 DEF State
<1> QED BY <1>2, <1>3, <1>4, <1>5, <1>6, <1>8

----------------------------------------------------------------------------

Inv == Sound(checker) /\ given \in Seq(Char)

\* TypeOK holds of the checker, however large Base and Modulus are: what was read of a
\* chunk never passes its size, in check() of http_chunk_checker.
THEOREM TypeOKHolds == Spec => []TypeOK
<1>1. Init => Inv
  BY ChunkAssumption DEF Init, Inv, Sound, NewChecker, Checker, State
<1>2. Inv /\ [Next]_vars => Inv'
  <2> SUFFICES ASSUME Inv, [Next]_vars PROVE Inv'
    OBVIOUS
  <2>1. ASSUME NEW ch \in Char, Check(ch) PROVE Inv'
    <3>1. checker' = Step(checker, ch) /\ given' = Append(given, ch)
      BY <2>1 DEF Check
    <3>2. Sound(checker')
      BY <3>1, StepIsSound DEF Inv
    <3>3. given' \in Seq(Char)
      BY <3>1 DEF Inv
    <3> QED BY <3>2, <3>3 DEF Inv, Sound
  <2>2. CASE UNCHANGED vars
    BY <2>2 DEF Inv, vars, Sound
  <2> QED BY <2>1, <2>2 DEF Next
<1>3. Inv => TypeOK
  BY DEF Inv, Sound, TypeOK
<1> QED BY <1>1, <1>2, <1>3, PTL DEF Spec

----------------------------------------------------------------------------
(* Numbers and the values of digits.                                       *)

\* A set of naturals that is not empty has a least element.
LEMMA LeastOf ==
  ASSUME NEW T, T \subseteq Nat, T # {}
  PROVE  \E x \in T : \A y \in T : x <= y
<1>1. IsWellFoundedOn(OpToRel(<, Nat), Nat)
  BY NatLessThanWellFounded
<1>2. PICK x \in T : \A y \in T : ~ (<<y, x>> \in OpToRel(<, Nat))
  BY <1>1, WFMin
<1>3. \A y \in T : ~ (y < x)
  BY <1>2 DEF OpToRel
<1> QED BY <1>3

\* A set of naturals that has 0, and with each number the next, has them all.
LEMMA AllNaturals ==
  ASSUME NEW T, 0 \in T, \A k \in Nat : k \in T => k + 1 \in T
  PROVE  \A k \in Nat : k \in T
<1>1. IsWellFoundedOn(OpToRel(<, Nat), Nat)
  BY NatLessThanWellFounded
<1>2. SUFFICES ASSUME Nat \ T # {} PROVE FALSE
  OBVIOUS
<1>3. PICK k \in Nat \ T : \A j \in Nat \ T : ~ (<<j, k>> \in OpToRel(<, Nat))
  BY <1>1, <1>2, WFMin
<1>4. \A j \in Nat \ T : ~ (j < k)
  BY <1>3 DEF OpToRel
<1>5. k # 0 /\ k - 1 \in Nat /\ k - 1 \in T
  BY <1>4
<1>6. (k - 1) + 1 \in T
  BY <1>5
<1>7. (k - 1) + 1 = k /\ k \notin T
  OBVIOUS
<1> QED
  BY <1>6, <1>7

\* A set of numbers up to n that is not empty has a greatest element.
LEMMA GreatestOf ==
  ASSUME NEW n \in Nat, NEW s \in SUBSET (1 .. n), s # {}
  PROVE  Max(s) \in s /\ \A i \in s : i <= Max(s)
<1> DEFINE T == {n - i : i \in s}
<1>0. ASSUME NEW i \in s PROVE i \in Nat /\ n - i \in Nat
  <2>1. i \in 1 .. n
    OBVIOUS
  <2> QED BY <2>1
<1>1. PICK k \in T : \A j \in T : k <= j
  <2>1. T \subseteq Nat /\ T # {}
    BY <1>0
  <2> HIDE DEF T
  <2> QED BY <2>1, LeastOf
<1>2. PICK m \in s : k = n - m
  BY <1>1
<1>3. \A i \in s : m >= i
  <2> SUFFICES ASSUME NEW i \in s PROVE m >= i
    OBVIOUS
  <2>1. k <= n - i
    BY <1>1
  <2>2. i \in Nat /\ m \in Nat
    BY <1>0
  <2> QED BY <1>2, <2>1, <2>2
<1>4. Max(s) \in s /\ \A i \in s : Max(s) >= i
  BY <1>2, <1>3 DEF Max
<1> HIDE DEF T
<1>5. PICK top \in s : top = Max(s)
  BY <1>4
<1>6. \A i \in s : i <= top
  BY <1>0, <1>4, <1>5
<1> QED BY <1>5, <1>6

\* What is left of s without its greatest element.
Rest(s) == s \ {Max(s)}

\* What the digits of digits make whose places are in s.
DigitsOn(domain, digits, made) ==
  made = [s \in domain |->
            IF s = {} THEN 0
            ELSE made[Rest(s)] * Base + digits[Max(s)]]

\* There is such a function.
LEMMA DigitsExist ==
  ASSUME NEW digits, NEW n \in Nat
  PROVE  \E made : DigitsOn(SUBSET (1 .. n), digits, made)
<1> DEFINE none == 0
           has == {k \in Nat : \E made : DigitsOn(SUBSET (1 .. k), digits, made)}
<1>1. 0 \in has
  <2>1. PICK made : made = [s \in SUBSET (1 .. 0) |-> none]
    OBVIOUS
  <2>2. \A s \in SUBSET (1 .. 0) : s = {}
    OBVIOUS
  <2>3. DigitsOn(SUBSET (1 .. 0), digits, made)
    BY <2>1, <2>2 DEF DigitsOn
  <2> QED BY <2>3
<1>2. ASSUME NEW k \in Nat, k \in has PROVE k + 1 \in has
  <2>1. PICK made : DigitsOn(SUBSET (1 .. k), digits, made)
    BY <1>2
  <2>2. \A s \in SUBSET (1 .. k) :
          made[s] = IF s = {} THEN none ELSE made[Rest(s)] * Base + digits[Max(s)]
    BY <2>1 DEF DigitsOn
  <2>3. PICK more : more = [s \in SUBSET (1 .. k + 1) |->
                              IF s = {} THEN none
                              ELSE made[Rest(s)] * Base + digits[Max(s)]]
    OBVIOUS
  <2>4. \A s \in SUBSET (1 .. k) : s \in SUBSET (1 .. k + 1) /\ more[s] = made[s]
    <3> SUFFICES ASSUME NEW s \in SUBSET (1 .. k)
                 PROVE  s \in SUBSET (1 .. k + 1) /\ more[s] = made[s]
      OBVIOUS
    <3>1. s \in SUBSET (1 .. k + 1)
      OBVIOUS
    <3> QED BY <2>2, <2>3, <3>1
  <2>5. ASSUME NEW s \in SUBSET (1 .. k + 1)
        PROVE  more[s] = IF s = {} THEN none ELSE more[Rest(s)] * Base + digits[Max(s)]
    <3>1. s # {} => Rest(s) \in SUBSET (1 .. k)
      <4> SUFFICES ASSUME s # {} PROVE Rest(s) \in SUBSET (1 .. k)
        OBVIOUS
      <4>1. Max(s) \in s /\ \A i \in s : i <= Max(s)
        <5>1. k + 1 \in Nat /\ s # {}
          OBVIOUS
        <5> HIDE DEF has
        <5> QED BY <5>1, GreatestOf
      <4>2. ASSUME NEW i \in s, i # Max(s) PROVE i \in 1 .. k
        <5>1. i \in 1 .. k + 1 /\ Max(s) \in 1 .. k + 1 /\ i <= Max(s)
          BY <4>1
        <5> QED BY <4>2, <5>1
      <4> QED BY <4>2 DEF Rest
    <3> QED BY <2>3, <2>4, <3>1
  <2>6. DigitsOn(SUBSET (1 .. k + 1), digits, more)
    BY <2>3, <2>5 DEF DigitsOn
  <2> QED BY <2>6
<1>3. n \in has
  <2> HIDE DEF has
  <2> QED BY <1>1, <1>2, AllNaturals
<1> QED BY <1>3

\* Number is the value of such a function.
LEMMA NumberOfDigits ==
  ASSUME NEW S, NEW digits \in Seq(S)
  PROVE  \E made : /\ DigitsOn(SUBSET (1 .. Len(digits)), digits, made)
                   /\ Number(digits) =
                        made[1 .. Len(digits)]
<1>1. DOMAIN digits = 1 .. Len(digits) /\ Len(digits) \in Nat
  OBVIOUS
<1>2. PICK made : made = CHOOSE r : DigitsOn(SUBSET (1 .. Len(digits)), digits, r)
  OBVIOUS
<1>3. DigitsOn(SUBSET (1 .. Len(digits)), digits, made)
  BY <1>1, <1>2, DigitsExist
<1>4. Number(digits) =
        (CHOOSE r : DigitsOn(SUBSET (DOMAIN digits), digits, r))[DOMAIN digits]
  BY DEF Number, FoldLeft, MapThenFoldSet, DigitsOn, Rest
<1> QED BY <1>1, <1>2, <1>3, <1>4

\* Digit by digit, from the left.
LEMMA DigitByDigit ==
  ASSUME NEW n \in Nat, NEW digits, NEW made, DigitsOn(SUBSET (1 .. n), digits, made)
  PROVE  /\ made[1 .. 0] = 0
         /\ \A k \in 0 .. n - 1 : made[1 .. k + 1] = made[1 .. k] * Base + digits[k + 1]
<1>1. \A s \in SUBSET (1 .. n) :
        made[s] = IF s = {} THEN 0
                  ELSE made[Rest(s)] * Base + digits[Max(s)]
  BY DEF DigitsOn
<1>2. 1 .. 0 = {} /\ 1 .. 0 \in SUBSET (1 .. n)
  OBVIOUS
<1>3. ASSUME NEW k \in 0 .. n - 1
      PROVE  made[1 .. k + 1] = made[1 .. k] * Base + digits[k + 1]
  <2>1. PICK s : s = 1 .. k + 1
    OBVIOUS
  <2>2. s \in SUBSET (1 .. n) /\ s # {} /\ k + 1 \in Nat
    BY <2>1
  <2>3. Max(s) \in s /\ \A i \in s : i <= Max(s)
    <3>1. s \in SUBSET (1 .. k + 1)
      BY <2>1
    <3> QED BY <2>2, <3>1, GreatestOf
  <2>4. Max(s) = k + 1
    <3>1. PICK m \in 1 .. k + 1 : m = Max(s)
      BY <2>1, <2>3
    <3>2. k + 1 \in s
      BY <2>1
    <3>3. k + 1 <= m
      BY <2>3, <3>1, <3>2
    <3> QED BY <3>1, <3>3
  <2>5. Rest(s) = 1 .. k
    <3>1. (1 .. k + 1) \ {k + 1} = 1 .. k
      OBVIOUS
    <3> QED BY <2>1, <2>4, <3>1 DEF Rest
  <2> QED BY <1>1, <2>1, <2>2, <2>4, <2>5
<1> QED BY <1>1, <1>2, <1>3

\* A digit more makes Base times as much, and the digit.
LEMMA NumberExtended ==
  ASSUME NEW d \in Seq(Digit), NEW x \in Digit
  PROVE  /\ Number(<<>>) = 0
         /\ Number(Append(d, x)) = Number(d) * Base + x
<1> DEFINE n == Len(d)
           e == Append(d, x)
<1>1. n \in Nat /\ e \in Seq(Digit) /\ Len(e) = n + 1 /\ e[n + 1] = x
      /\ \A i \in 1 .. n : e[i] = d[i]
  OBVIOUS
<1>2. PICK made : DigitsOn(SUBSET (1 .. Len(d)), d, made) /\ Number(d) = made[1 .. Len(d)]
  BY NumberOfDigits
<1>3. PICK more : DigitsOn(SUBSET (1 .. Len(e)), e, more) /\ Number(e) = more[1 .. Len(e)]
  <2> HIDE DEF e
  <2> QED BY <1>1, NumberOfDigits
<1>4. made[1 .. 0] = 0 /\ \A k \in 0 .. n - 1 : made[1 .. k + 1] = made[1 .. k] * Base + d[k + 1]
  <2> HIDE DEF n
  <2>1. n \in Nat /\ DigitsOn(SUBSET (1 .. n), d, made)
    BY <1>1, <1>2 DEF n
  <2> QED BY <2>1, DigitByDigit
<1>5. /\ more[1 .. 0] = 0
      /\ \A k \in 0 .. (n + 1) - 1 : more[1 .. k + 1] = more[1 .. k] * Base + e[k + 1]
  <2> HIDE DEF n, e
  <2>1. n + 1 \in Nat /\ DigitsOn(SUBSET (1 .. n + 1), e, more)
    BY <1>1, <1>3
  <2> QED BY <2>1, DigitByDigit
<1> HIDE DEF n, e
<1>6. \A k \in Nat : k <= n => more[1 .. k] = made[1 .. k]
  <2> DEFINE same == {k \in Nat : k <= n => more[1 .. k] = made[1 .. k]}
  <2>1. 0 \in same
    BY <1>4, <1>5
  <2>2. ASSUME NEW k \in Nat, k \in same PROVE k + 1 \in same
    <3> SUFFICES ASSUME k + 1 <= n PROVE more[1 .. k + 1] = made[1 .. k + 1]
      OBVIOUS
    <3>1. k \in 0 .. n - 1 /\ k \in 0 .. (n + 1) - 1 /\ k + 1 \in 1 .. n /\ k <= n
      BY <1>1
    <3> QED BY <1>1, <1>4, <1>5, <2>2, <3>1
  <2>3. \A k \in Nat : k \in same
    <3> HIDE DEF same
    <3> QED BY <2>1, <2>2, AllNaturals
  <2> QED BY <2>3
<1>7. Number(e) = Number(d) * Base + x
  <2>1. n \in 0 .. (n + 1) - 1 /\ n <= n
    BY <1>1
  <2>2. more[1 .. n + 1] = more[1 .. n] * Base + e[n + 1]
    BY <1>5, <2>1
  <2>3. Number(e) = more[1 .. n + 1] /\ Number(d) = made[1 .. n]
    BY <1>1, <1>2, <1>3 DEF n
  <2>4. more[1 .. n] = made[1 .. n]
    BY <1>1, <1>6, <2>1
  <2> QED BY <1>1, <2>2, <2>3, <2>4
<1>8. Number(<<>>) = 0
  <2>1. PICK none : none = <<>> /\ none \in Seq(Digit) /\ Len(none) = 0
    BY EmptySeq
  <2>2. PICK m : DigitsOn(SUBSET (1 .. Len(none)), none, m) /\ Number(none) = m[1 .. Len(none)]
    BY <2>1, NumberOfDigits
  <2>3. DigitsOn(SUBSET (1 .. 0), none, m) /\ 0 \in Nat
    BY <2>1, <2>2
  <2>4. m[1 .. 0] = 0
    BY <2>3, DigitByDigit
  <2> QED BY <2>1, <2>2, <2>4
<1> QED BY <1>7, <1>8 DEF e

----------------------------------------------------------------------------
(* Places in a text: its characters are named by where they stand, so that *)
(* they keep their names while the text goes on.                           *)

\* There are digits after place i up to place k.
Digits(s, i, k) == \A j \in i + 1 .. k : s[j] \in Digit

\* The number they make.
NumberAt(s, i, k) == Number(SubSeq(s, i + 1, k))

\* t begins with the characters of s.
GoesOn(s, t) ==
  /\ Len(s) <= Len(t)
  /\ \A j \in 1 .. Len(s) : t[j] = s[j]

\* What is between two places of a text.
LEMMA Between ==
  ASSUME NEW S, NEW s \in Seq(S), NEW i \in Nat, NEW k \in Nat, i <= k, k <= Len(s)
  PROVE  /\ SubSeq(s, i + 1, k) \in Seq(S)
         /\ Len(SubSeq(s, i + 1, k)) = k - i
         /\ \A j \in 1 .. k - i : SubSeq(s, i + 1, k)[j] = s[i + j]
<1>1. \A j \in i + 1 .. k : s[j] \in S
  <2> SUFFICES ASSUME NEW j \in i + 1 .. k PROVE s[j] \in S
    OBVIOUS
  <2>1. j \in 1 .. Len(s)
    BY LenProperties
  <2> QED BY <2>1, ElementOfSeq
<1>2. i + 1 \in Int /\ k \in Int
  OBVIOUS
<1>3. /\ SubSeq(s, i + 1, k) \in Seq(S)
      /\ Len(SubSeq(s, i + 1, k)) = IF i + 1 <= k THEN k - (i + 1) + 1 ELSE 0
      /\ \A j \in 1 .. k - (i + 1) + 1 : SubSeq(s, i + 1, k)[j] = s[(i + 1) + j - 1]
  BY <1>1, <1>2, SubSeqProperties
<1>4. k - (i + 1) + 1 = k - i /\ (i + 1 <= k <=> i < k)
  OBVIOUS
<1>5. Len(SubSeq(s, i + 1, k)) = k - i
  BY <1>3, <1>4
<1>6. ASSUME NEW j \in 1 .. k - i PROVE SubSeq(s, i + 1, k)[j] = s[i + j]
  <2>1. (i + 1) + j - 1 = i + j /\ j \in 1 .. k - (i + 1) + 1
    BY <1>4
  <2>2. SubSeq(s, i + 1, k)[j] = s[(i + 1) + j - 1]
    BY <1>3, <2>1
  <2> QED BY <2>1, <2>2
<1> QED BY <1>3, <1>5, <1>6

\* Digits are a text of digits.
LEMMA BetweenDigits ==
  ASSUME NEW s \in Seq(Char), NEW i \in Nat, NEW k \in Nat, i <= k, k <= Len(s), Digits(s, i, k)
  PROVE  SubSeq(s, i + 1, k) \in Seq(Digit)
<1>1. \A j \in i + 1 .. k : s[j] \in Digit
  BY DEF Digits
<1>2. i + 1 \in Int /\ k \in Int
  OBVIOUS
<1> QED BY <1>1, <1>2, SubSeqProperties

\* Nothing is 0, and each digit more makes Base times as much, and the digit.
LEMMA NumberAtExtended ==
  ASSUME NEW s \in Seq(Char), NEW i \in Nat, NEW k \in Nat, i <= k, k + 1 <= Len(s),
         Digits(s, i, k + 1)
  PROVE  NumberAt(s, i, k + 1) = NumberAt(s, i, k) * Base + s[k + 1]
<1>1. Digits(s, i, k) /\ k <= Len(s) /\ k + 1 \in Nat /\ i <= k + 1
  BY LenProperties DEF Digits
<1>8. SubSeq(s, i + 1, k) \in Seq(Digit)
  BY <1>1, BetweenDigits
<1>2. PICK d \in Seq(Digit) : d = SubSeq(s, i + 1, k)
  BY <1>8
<1>9. SubSeq(s, i + 1, k + 1) \in Seq(Digit)
  BY <1>1, BetweenDigits
<1>3. PICK e \in Seq(Digit) : e = SubSeq(s, i + 1, k + 1)
  BY <1>9
<1>4. Len(d) = k - i /\ \A j \in 1 .. k - i : d[j] = s[i + j]
  BY <1>1, <1>2, Between
<1>5. Len(e) = (k + 1) - i /\ \A j \in 1 .. (k + 1) - i : e[j] = s[i + j]
  BY <1>1, <1>3, Between
<1>6. PICK x \in Digit : x = s[k + 1]
  BY DEF Digits
<1>7. e = Append(d, x)
  <2>0. /\ Append(d, x) \in Seq(Digit) /\ Len(Append(d, x)) = Len(d) + 1
        /\ \A j \in 1 .. Len(d) : Append(d, x)[j] = d[j]
        /\ Append(d, x)[Len(d) + 1] = x
    BY AppendProperties
  <2>1. PICK a \in Seq(Digit) : a = Append(d, x)
    BY <2>0
  <2>2. Len(a) = Len(d) + 1 /\ a[Len(d) + 1] = x /\ \A j \in 1 .. Len(d) : a[j] = d[j]
    BY <2>0, <2>1
  <2>3. (k - i) + 1 = (k + 1) - i /\ k - i \in Nat /\ i + ((k - i) + 1) = k + 1
    OBVIOUS
  <2>4. Len(a) = Len(e)
    BY <1>4, <1>5, <2>2, <2>3
  <2>5. ASSUME NEW j \in 1 .. Len(e) PROVE e[j] = a[j]
    <3>1. j \in 1 .. (k + 1) - i /\ e[j] = s[i + j]
      BY <1>5
    <3>2. CASE j = (k - i) + 1
      BY <1>4, <1>6, <2>2, <2>3, <3>1, <3>2
    <3>3. CASE j \in 1 .. k - i
      BY <1>4, <2>2, <3>1, <3>3
    <3> QED BY <3>1, <3>2, <3>3
  <2>6. e = a
    BY <2>4, <2>5, SeqEqual
  <2> QED BY <2>1, <2>6
<1> QED BY <1>2, <1>3, <1>6, <1>7, NumberExtended DEF NumberAt

\* No digits are 0.
LEMMA NumberAtStart ==
  ASSUME NEW s \in Seq(Char), NEW i \in Nat
  PROVE  NumberAt(s, i, i) = 0
<1>1. SubSeq(s, i + 1, i) = <<>>
  BY SubSeqEmpty
<1>2. 0 \in Digit
  BY ChunkAssumption DEF Digit
<1>3. <<>> \in Seq(Digit)
  BY EmptySeq
<1> QED BY <1>1, <1>2, <1>3, NumberExtended DEF NumberAt

\* A number is a natural number.
LEMMA NumberAtIsNat ==
  ASSUME NEW s \in Seq(Char), NEW i \in Nat
  PROVE  \A k \in Nat : i <= k /\ k <= Len(s) /\ Digits(s, i, k) => NumberAt(s, i, k) \in Nat
<1> DEFINE good == {k \in Nat : i <= k /\ k <= Len(s) /\ Digits(s, i, k) => NumberAt(s, i, k) \in Nat}
<1>1. 0 \in good
  <2>1. i <= 0 => i = 0
    OBVIOUS
  <2> QED BY <2>1, NumberAtStart
<1>2. ASSUME NEW k \in Nat, k \in good PROVE k + 1 \in good
  <2> SUFFICES ASSUME i <= k + 1, k + 1 <= Len(s), Digits(s, i, k + 1)
               PROVE  NumberAt(s, i, k + 1) \in Nat
    OBVIOUS
  <2>1. CASE i = k + 1
    BY <2>1, NumberAtStart
  <2>2. CASE i <= k
    <3>1. Digits(s, i, k) /\ k <= Len(s)
      BY LenProperties DEF Digits
    <3>2. NumberAt(s, i, k) \in Nat
      BY <1>2, <2>2, <3>1
    <3>3. NumberAt(s, i, k + 1) = NumberAt(s, i, k) * Base + s[k + 1]
      BY <2>2, NumberAtExtended
    <3>4. s[k + 1] \in Nat
      BY <2>2 DEF Digits, Digit
    <3>5. NumberAt(s, i, k) * Base \in Nat
      BY <3>2, ChunkAssumption
    <3> HIDE DEF good
    <3> QED BY <3>3, <3>4, <3>5
  <2> QED BY <2>1, <2>2
<1>3. \A k \in Nat : k \in good
  <2> HIDE DEF good
  <2> QED BY <1>1, <1>2, AllNaturals
<1> QED BY <1>3

\* A text that goes on has the same numbers in the same places.
LEMMA SameNumber ==
  ASSUME NEW s \in Seq(Char), NEW t \in Seq(Char), GoesOn(s, t),
         NEW i \in Nat, NEW k \in Nat, i <= k, k <= Len(s)
  PROVE  SubSeq(t, i + 1, k) = SubSeq(s, i + 1, k)
<1>0. /\ SubSeq(s, i + 1, k) \in Seq(Char) /\ Len(SubSeq(s, i + 1, k)) = k - i
      /\ \A j \in 1 .. k - i : SubSeq(s, i + 1, k)[j] = s[i + j]
  BY Between
<1>1. PICK a \in Seq(Char) : a = SubSeq(s, i + 1, k)
  BY <1>0
<1>2. Len(s) \in Nat /\ Len(t) \in Nat /\ k <= Len(t)
  BY LenProperties DEF GoesOn
<1>5. /\ SubSeq(t, i + 1, k) \in Seq(Char) /\ Len(SubSeq(t, i + 1, k)) = k - i
      /\ \A j \in 1 .. k - i : SubSeq(t, i + 1, k)[j] = t[i + j]
  BY <1>2, Between
<1>3. PICK b \in Seq(Char) : b = SubSeq(t, i + 1, k)
  BY <1>5
<1>4. ASSUME NEW j \in 1 .. Len(a) PROVE a[j] = b[j]
  <2>1. j \in 1 .. k - i /\ i + j \in 1 .. Len(s)
    BY <1>0, <1>1, <1>2
  <2>2. a[j] = s[i + j] /\ b[j] = t[i + j]
    BY <1>0, <1>1, <1>3, <1>5, <2>1
  <2> QED BY <2>1, <2>2 DEF GoesOn
<1>6. a = b
  BY <1>0, <1>1, <1>3, <1>4, <1>5, SeqEqual
<1> QED BY <1>1, <1>3, <1>6

----------------------------------------------------------------------------
(* The line before a chunk.                                                *)

\* The classes of characters are apart.
LEMMA Characters ==
  /\ CR \notin Digit /\ LF \notin Digit /\ Separator \notin Digit
  /\ CR # LF /\ CR # Separator
  /\ {CR, LF, Separator, OtherChar} \subseteq Char /\ Digit \subseteq Char
BY ChunkAssumption DEF CR, LF, Separator, OtherChar, Digit, Char

\* What a text begins with.
LEMMA Beginning ==
  ASSUME NEW S, NEW s \in Seq(S), NEW k \in Nat, k <= Len(s)
  PROVE  /\ SubSeq(s, 1, k) \in Seq(S)
         /\ Len(SubSeq(s, 1, k)) = k
         /\ \A j \in 1 .. k : SubSeq(s, 1, k)[j] = s[j]
<1>1. 0 \in Nat /\ 0 <= k
  OBVIOUS
<1>2. /\ SubSeq(s, 0 + 1, k) \in Seq(S)
      /\ Len(SubSeq(s, 0 + 1, k)) = k - 0
      /\ \A j \in 1 .. k - 0 : SubSeq(s, 0 + 1, k)[j] = s[0 + j]
  BY <1>1, Between
<1>3. 0 + 1 = 1 /\ k - 0 = k /\ \A j \in 1 .. k : 0 + j = j
  OBVIOUS
<1> QED BY <1>2, <1>3

\* The end of a line, by its places.
LEMMA EndsIs ==
  ASSUME NEW w \in Seq(Char)
  PROVE  EndsWithCRLF(w) <=> Len(w) >= 2 /\ w[Len(w) - 1] = CR /\ w[Len(w)] = LF
<1>1. Len(w) \in Nat
  BY LenProperties
<1> SUFFICES ASSUME Len(w) >= 2
             PROVE  SubSeq(w, Len(w) - 1, Len(w)) = <<CR, LF>>
                      <=> w[Len(w) - 1] = CR /\ w[Len(w)] = LF
  BY DEF EndsWithCRLF
<1>2. PICK n \in Nat : n = Len(w) - 2
  BY <1>1
<1>3. n + 1 = Len(w) - 1 /\ n <= Len(w) /\ Len(w) - n = 2 /\ n + 2 = Len(w)
  BY <1>1, <1>2
<1>4. /\ SubSeq(w, n + 1, Len(w)) \in Seq(Char) /\ Len(SubSeq(w, n + 1, Len(w))) = Len(w) - n
      /\ \A j \in 1 .. Len(w) - n : SubSeq(w, n + 1, Len(w))[j] = w[n + j]
  <2>1. Len(w) <= Len(w)
    BY <1>1
  <2> QED BY <1>1, <1>3, <2>1, Between
<1>5. PICK t \in Seq(Char) : t = SubSeq(w, n + 1, Len(w))
  BY <1>4
<1>6. Len(t) = 2 /\ t[1] = w[Len(w) - 1] /\ t[2] = w[Len(w)]
  <2>1. 1 \in 1 .. Len(w) - n /\ 2 \in 1 .. Len(w) - n
    BY <1>3
  <2> QED BY <1>3, <1>4, <1>5, <2>1
<1>9. CR \in Char /\ LF \in Char
  BY Characters
<1>10. <<CR, LF>> \in Seq(Char) /\ Len(<<CR, LF>>) = 2
  BY <1>9
<1>7. PICK c \in Seq(Char) : c = <<CR, LF>> /\ Len(c) = 2 /\ c[1] = CR /\ c[2] = LF
  BY <1>10
<1>8. t = c <=> t[1] = CR /\ t[2] = LF
  <2>1. ASSUME t[1] = CR, t[2] = LF PROVE t = c
    <3>1. \A j \in 1 .. Len(t) : t[j] = c[j]
      <4> SUFFICES ASSUME NEW j \in 1 .. Len(t) PROVE t[j] = c[j]
        OBVIOUS
      <4>1. j = 1 \/ j = 2
        BY <1>6
      <4> QED BY <1>7, <2>1, <4>1
    <3> QED BY <1>6, <1>7, <3>1, SeqEqual
  <2> QED BY <1>7, <2>1
<1> QED BY <1>3, <1>5, <1>6, <1>7, <1>8

\* The digits at the beginning of a text, once their number is known.
LEMMA LeadingDigitsAre ==
  ASSUME NEW v \in Seq(Char), NEW d \in Nat, d <= Len(v), Digits(v, 0, d),
         d = Len(v) \/ v[d + 1] \notin Digit
  PROVE  Cardinality(LeadingDigits(v)) = d /\ SizeOf(v) = NumberAt(v, 0, d)
<1>1. Len(v) \in Nat /\ DOMAIN v = 1 .. Len(v)
  BY LenProperties
<1>2. LeadingDigits(v) = 1 .. d
  <2>1. ASSUME NEW i \in 1 .. d PROVE i \in LeadingDigits(v)
    <3>1. i \in DOMAIN v
      <4>1. PICK n \in Nat : n = Len(v)
        BY <1>1
      <4>2. i \in 1 .. n
        BY <4>1
      <4> QED BY <1>1, <4>1, <4>2
    <3>2. ASSUME NEW k \in 1 .. i PROVE v[k] \in Digit
      <4>1. k \in 0 + 1 .. d
        OBVIOUS
      <4> QED BY <4>1 DEF Digits
    <3> QED BY <3>1, <3>2 DEF LeadingDigits
  <2>2. ASSUME NEW i \in LeadingDigits(v) PROVE i \in 1 .. d
    <3>1. i \in 1 .. Len(v) /\ \A k \in 1 .. i : v[k] \in Digit
      BY <1>1 DEF LeadingDigits
    <3>2. ASSUME i > d PROVE FALSE
      <4>1. d + 1 \in 1 .. i /\ d # Len(v)
        BY <3>1, <3>2
      <4> QED BY <3>1, <4>1
    <3> QED BY <3>1, <3>2
  <2> QED BY <2>1, <2>2
<1>3. Cardinality(1 .. d) = d
  <2>1. 1 \in Int /\ d \in Int
    OBVIOUS
  <2>2. Cardinality(1 .. d) = IF 1 > d THEN 0 ELSE d - 1 + 1
    BY <2>1, FS_Interval
  <2> QED BY <2>2
<1>4. SizeOf(v) = Number(SubSeq(v, 1, d))
  BY <1>2, <1>3 DEF SizeOf
<1>5. 0 + 1 = 1
  OBVIOUS
<1> QED BY <1>2, <1>3, <1>4, <1>5 DEF NumberAt

\* There is a number of them.
LEMMA LeadingDigitsEnd ==
  ASSUME NEW v \in Seq(Char)
  PROVE  \E d \in Nat : d <= Len(v) /\ Digits(v, 0, d) /\ (d = Len(v) \/ v[d + 1] \notin Digit)
<1>1. Len(v) \in Nat
  BY LenProperties
<1> DEFINE T == {d \in Nat : d = Len(v) \/ (d < Len(v) /\ v[d + 1] \notin Digit)}
<1>2. PICK d \in T : \A y \in T : d <= y
  <2>1. T \subseteq Nat /\ Len(v) \in T
    BY <1>1
  <2>2. T # {}
    BY <2>1
  <2> HIDE DEF T
  <2> QED BY <2>1, <2>2, LeastOf
<1>3. d <= Len(v) /\ d \in Nat
  BY <1>1
<1>4. ASSUME NEW j \in 0 + 1 .. d PROVE v[j] \in Digit
  <2>1. j - 1 \in Nat /\ j - 1 < d /\ j - 1 < Len(v) /\ (j - 1) + 1 = j
    BY <1>1, <1>3
  <2>2. j - 1 \notin T
    <3> HIDE DEF T
    <3> QED BY <1>2, <1>3, <2>1
  <2> QED BY <2>1, <2>2
<1> QED BY <1>3, <1>4 DEF Digits

\* The line before a chunk takes the characters after place i up to place e: the digits
\* up to place k, perhaps an extension, and CRLF.
LineUpTo(s, i, k, e) ==
  /\ i < k /\ k + 2 <= e /\ e <= Len(s)
  /\ Digits(s, i, k)
  /\ k + 2 = e \/ s[k + 1] = Separator
  /\ \A j \in k + 1 .. e - 2 : s[j] # CR
  /\ s[e - 1] = CR /\ s[e] = LF

\* The extension, by its places.
LEMMA ExtensionIs ==
  ASSUME NEW w \in Seq(Char), NEW k \in Nat, k + 2 <= Len(w),
         NEW x, x = SubSeq(WithoutCRLF(w), k + 1, Len(w) - 2)
  PROVE  (x # <<>> => x[1] = Separator /\ ~Contains(x, CR))
           <=> /\ k + 2 = Len(w) \/ w[k + 1] = Separator
               /\ \A j \in k + 1 .. Len(w) - 2 : w[j] # CR
<1>10. Len(w) \in Nat
  BY LenProperties
<1>11. PICK l \in Nat : l = Len(w)
  BY <1>10
<1>12. l - 2 \in Nat /\ l - 2 <= l /\ k <= l - 2
  BY <1>11
<1>1. PICK n \in Nat : n = Len(w) - 2 /\ n <= Len(w) /\ k <= n
  BY <1>11, <1>12
<1>2. /\ SubSeq(w, 1, n) \in Seq(Char) /\ Len(SubSeq(w, 1, n)) = n
      /\ \A j \in 1 .. n : SubSeq(w, 1, n)[j] = w[j]
  BY <1>1, Beginning
<1>3. PICK r \in Seq(Char) : r = SubSeq(w, 1, n)
  BY <1>2
<1>4. r = WithoutCRLF(w) /\ Len(r) = n /\ \A j \in 1 .. n : r[j] = w[j]
  BY <1>1, <1>2, <1>3 DEF WithoutCRLF
<1>5. /\ SubSeq(r, k + 1, n) \in Seq(Char) /\ Len(SubSeq(r, k + 1, n)) = n - k
      /\ \A j \in 1 .. n - k : SubSeq(r, k + 1, n)[j] = r[k + j]
  <2>1. n <= Len(r)
    BY <1>1, <1>4
  <2> QED BY <1>1, <2>1, Between
<1>6. x = SubSeq(r, k + 1, n)
  BY <1>1, <1>4
<1>7. x \in Seq(Char) /\ Len(x) = n - k /\ \A j \in 1 .. n - k : x[j] = w[k + j]
  <2>1. x \in Seq(Char) /\ Len(x) = n - k
    BY <1>5, <1>6
  <2>2. ASSUME NEW j \in 1 .. n - k PROVE x[j] = w[k + j]
    <3>1. k + j \in 1 .. n
      BY <1>1
    <3>2. x[j] = r[k + j]
      BY <1>5, <1>6
    <3> QED BY <1>4, <3>1, <3>2
  <2> QED BY <2>1, <2>2
<1>8. CASE n = k
  <2>1. x = <<>>
    <3>1. Len(x) = 0
      BY <1>1, <1>7, <1>8
    <3> QED BY <1>7, <3>1, EmptySeq
  <2>2. k + 2 = Len(w) /\ \A j \in k + 1 .. Len(w) - 2 : FALSE
    BY <1>1, <1>8, LenProperties
  <2> QED BY <2>1, <2>2
<1>9. CASE n # k
  <2>1. x # <<>> /\ 1 \in 1 .. n - k
    <3>1. Len(x) # 0 /\ 1 \in 1 .. n - k
      BY <1>1, <1>7, <1>9
    <3> QED BY <3>1, EmptySeq
  <2>2. k + 2 # Len(w)
    BY <1>1, <1>9, LenProperties
  <2>3. x[1] = w[k + 1]
    BY <1>7, <2>1
  <2>4. Contains(x, CR) <=> \E j \in k + 1 .. Len(w) - 2 : w[j] = CR
    <3>1. ASSUME NEW j \in 1 .. n - k, x[j] = CR PROVE \E h \in k + 1 .. n : w[h] = CR
      <4>1. k + j \in k + 1 .. n /\ w[k + j] = CR
        BY <1>1, <1>7, <3>1
      <4> QED BY <4>1
    <3>2. ASSUME NEW h \in k + 1 .. n, w[h] = CR PROVE \E j \in 1 .. n - k : x[j] = CR
      <4>1. h - k \in 1 .. n - k /\ k + (h - k) = h
        BY <1>1
      <4>2. x[h - k] = w[k + (h - k)]
        BY <1>7, <4>1
      <4> QED BY <3>2, <4>1, <4>2
    <3>3. Contains(x, CR) <=> \E j \in 1 .. n - k : x[j] = CR
      BY <1>7 DEF Contains
    <3> QED BY <1>1, <3>1, <3>2, <3>3
  <2> QED BY <2>1, <2>2, <2>3, <2>4
<1> QED BY <1>8, <1>9

\* A size line, by its places.
LEMMA SizeLineIs ==
  ASSUME NEW w \in Seq(Char), NEW n
  PROVE  IsSizeLine(w, n) <=> \E k \in Nat : LineUpTo(w, 0, k, Len(w)) /\ NumberAt(w, 0, k) = n
<1>1. Len(w) \in Nat
  BY LenProperties
<1>2. ASSUME IsSizeLine(w, n)
      PROVE  \E k \in Nat : LineUpTo(w, 0, k, Len(w)) /\ NumberAt(w, 0, k) = n
  <2>1. PICK k \in Nat : k <= Len(w) /\ Digits(w, 0, k) /\ (k = Len(w) \/ w[k + 1] \notin Digit)
    BY LeadingDigitsEnd
  <2>2. Cardinality(LeadingDigits(w)) = k /\ SizeOf(w) = NumberAt(w, 0, k)
    BY <2>1, LeadingDigitsAre
  <2>3. PICK x : x = SubSeq(WithoutCRLF(w), k + 1, Len(w) - 2)
    OBVIOUS
  <2>4. EndsWithCRLF(w) /\ k > 0 /\ SizeOf(w) = n
        /\ (x # <<>> => x[1] = Separator /\ ~Contains(x, CR))
    BY <1>2, <2>2, <2>3 DEF IsSizeLine
  <2>5. Len(w) >= 2 /\ w[Len(w) - 1] = CR /\ w[Len(w)] = LF
    BY <2>4, EndsIs
  <2>6. k + 2 <= Len(w)
    <3> SUFFICES ASSUME k >= Len(w) - 1 PROVE FALSE
      BY <1>1
    <3>1. Len(w) - 1 \in 0 + 1 .. k
      BY <1>1, <2>5
    <3> QED BY <2>1, <2>5, <3>1, Characters DEF Digits
  <2>7. /\ k + 2 = Len(w) \/ w[k + 1] = Separator
        /\ \A j \in k + 1 .. Len(w) - 2 : w[j] # CR
    BY <2>3, <2>4, <2>6, ExtensionIs
  <2>8. LineUpTo(w, 0, k, Len(w))
    BY <1>1, <2>1, <2>4, <2>5, <2>6, <2>7 DEF LineUpTo
  <2> QED BY <2>2, <2>4, <2>8
<1>3. ASSUME NEW k \in Nat, LineUpTo(w, 0, k, Len(w)), NumberAt(w, 0, k) = n
      PROVE  IsSizeLine(w, n)
  <2>1. /\ 0 < k /\ k + 2 <= Len(w) /\ Digits(w, 0, k) /\ k <= Len(w)
        /\ k + 2 = Len(w) \/ w[k + 1] = Separator
        /\ \A j \in k + 1 .. Len(w) - 2 : w[j] # CR
        /\ w[Len(w) - 1] = CR /\ w[Len(w)] = LF
    BY <1>1, <1>3 DEF LineUpTo
  <2>2. w[k + 1] \notin Digit
    <3>1. k + 2 = Len(w) => k + 1 = Len(w) - 1
      BY <1>1
    <3> QED BY <2>1, <3>1, Characters
  <2>3. Cardinality(LeadingDigits(w)) = k /\ SizeOf(w) = NumberAt(w, 0, k)
    BY <2>1, <2>2, LeadingDigitsAre
  <2>4. PICK x : x = SubSeq(WithoutCRLF(w), k + 1, Len(w) - 2)
    OBVIOUS
  <2>5. x # <<>> => x[1] = Separator /\ ~Contains(x, CR)
    BY <2>1, <2>4, ExtensionIs
  <2>6. Len(w) >= 2
    BY <1>1, <2>1
  <2>7. EndsWithCRLF(w)
    BY <2>1, <2>6, EndsIs
  <2> QED BY <1>3, <2>1, <2>3, <2>4, <2>5, <2>7 DEF IsSizeLine
<1> QED BY <1>2, <1>3

----------------------------------------------------------------------------
(* A piece of a body is a chunk, or the last chunk.                        *)

\* The piece of n bytes after place i, whose line has its digits up to place k and its end
\* at place e.
PieceAt(s, i, k, e, n) ==
  /\ LineUpTo(s, i, k, e)
  /\ n = NumberAt(s, i, k)
  /\ e + n + 2 <= Len(s)
  /\ s[e + n + 1] = CR /\ s[e + n + 2] = LF

\* A piece of n bytes takes the characters after place i up to place m.
EndsAt(s, i, m, n) == \E k, e \in Nat : PieceAt(s, i, k, e, n) /\ m = e + n + 2

\* A line is the same line in a text that goes on.
LEMMA LineGoesOn ==
  ASSUME NEW s \in Seq(Char), NEW t \in Seq(Char), GoesOn(s, t),
         NEW i \in Nat, NEW k \in Nat, NEW e \in Nat, e <= Len(s)
  PROVE  LineUpTo(s, i, k, e) <=> LineUpTo(t, i, k, e)
<1>1. PICK l \in Nat, m \in Nat : l = Len(s) /\ m = Len(t)
  BY LenProperties
<1>2. e <= l /\ l <= m /\ \A j \in 1 .. l : t[j] = s[j]
  BY <1>1 DEF GoesOn
<1>3. LineUpTo(s, i, k, e) <=>
        /\ i < k /\ k + 2 <= e
        /\ \A j \in i + 1 .. k : s[j] \in Digit
        /\ k + 2 = e \/ s[k + 1] = Separator
        /\ \A j \in k + 1 .. e - 2 : s[j] # CR
        /\ s[e - 1] = CR /\ s[e] = LF
  BY <1>1, <1>2 DEF LineUpTo, Digits
<1>4. LineUpTo(t, i, k, e) <=>
        /\ i < k /\ k + 2 <= e
        /\ \A j \in i + 1 .. k : t[j] \in Digit
        /\ k + 2 = e \/ t[k + 1] = Separator
        /\ \A j \in k + 1 .. e - 2 : t[j] # CR
        /\ t[e - 1] = CR /\ t[e] = LF
  BY <1>1, <1>2 DEF LineUpTo, Digits
<1>5. CASE i < k /\ k + 2 <= e
  <2>1. \A j \in i + 1 .. k : t[j] = s[j]
    BY <1>2, <1>5
  <2>2. \A j \in k + 1 .. e - 2 : t[j] = s[j]
    BY <1>2, <1>5
  <2>3. t[k + 1] = s[k + 1] /\ t[e - 1] = s[e - 1] /\ t[e] = s[e]
    BY <1>2, <1>5
  <2> QED BY <1>3, <1>4, <2>1, <2>2, <2>3
<1> QED BY <1>3, <1>4, <1>5

\* And its number is the same.
LEMMA NumberGoesOn ==
  ASSUME NEW s \in Seq(Char), NEW t \in Seq(Char), GoesOn(s, t),
         NEW i \in Nat, NEW k \in Nat, i <= k, k <= Len(s)
  PROVE  NumberAt(s, i, k) = NumberAt(t, i, k)
BY SameNumber DEF NumberAt

\* A piece is the same piece in a text that goes on.
LEMMA PieceGoesOn ==
  ASSUME NEW s \in Seq(Char), NEW t \in Seq(Char), GoesOn(s, t),
         NEW i \in Nat, NEW m \in Nat, NEW n \in Nat, EndsAt(s, i, m, n)
  PROVE  EndsAt(t, i, m, n)
<1>1. PICK k \in Nat, e \in Nat : PieceAt(s, i, k, e, n) /\ m = e + n + 2
  BY DEF EndsAt
<1>2. PICK l \in Nat, h \in Nat : l = Len(s) /\ h = Len(t)
  BY LenProperties
<1>3. e + n + 2 <= l /\ l <= h /\ \A j \in 1 .. l : t[j] = s[j]
  BY <1>1, <1>2 DEF GoesOn, PieceAt
<1>4. LineUpTo(s, i, k, e) /\ n = NumberAt(s, i, k) /\ s[e + n + 1] = CR /\ s[e + n + 2] = LF
  BY <1>1 DEF PieceAt
<1>5. i <= k /\ k <= Len(s) /\ e <= Len(s)
  BY <1>2, <1>3, <1>4 DEF LineUpTo
<1>6. LineUpTo(t, i, k, e) /\ n = NumberAt(t, i, k)
  BY <1>4, <1>5, LineGoesOn, NumberGoesOn
<1>7. t[e + n + 1] = CR /\ t[e + n + 2] = LF /\ e + n + 2 <= Len(t)
  BY <1>2, <1>3, <1>4
<1>8. PieceAt(t, i, k, e, n)
  BY <1>6, <1>7 DEF PieceAt
<1> QED BY <1>1, <1>8 DEF EndsAt

\* A line has one end, and so have its digits.
LEMMA OneLine ==
  ASSUME NEW s \in Seq(Char), NEW i \in Nat,
         NEW k \in Nat, NEW e \in Nat, LineUpTo(s, i, k, e),
         NEW l \in Nat, NEW f \in Nat, LineUpTo(s, i, l, f)
  PROVE  k = l /\ e = f
<1>1. ASSUME NEW p \in Nat, NEW c \in Nat, LineUpTo(s, i, p, c),
             NEW q \in Nat, NEW d \in Nat, LineUpTo(s, i, q, d)
      PROVE  ~ (p < q) /\ (p = q => ~ (c < d))
  <2>1. /\ i < p /\ p + 2 <= c /\ i < q /\ q + 2 <= d
        /\ \A j \in i + 1 .. q : s[j] \in Digit
        /\ p + 2 = c \/ s[p + 1] = Separator
        /\ s[c - 1] = CR
        /\ \A j \in q + 1 .. d - 2 : s[j] # CR
    BY <1>1 DEF LineUpTo, Digits
  <2>2. ASSUME p < q PROVE FALSE
    <3>1. p + 1 \in i + 1 .. q /\ (p + 2 = c => p + 1 = c - 1)
      BY <2>1, <2>2
    <3> QED BY <2>1, <3>1, Characters
  <2>3. ASSUME p = q, c < d PROVE FALSE
    <3>1. c - 1 \in q + 1 .. d - 2
      BY <2>1, <2>3
    <3> QED BY <2>1, <3>1
  <2> QED BY <2>2, <2>3
<1>2. ~ (k < l) /\ ~ (l < k) /\ (k = l => ~ (e < f) /\ ~ (f < e))
  BY <1>1
<1> QED BY <1>2

\* A piece ends in one place only, and has one size.
LEMMA OneEnd ==
  ASSUME NEW s \in Seq(Char), NEW i \in Nat, NEW m \in Nat, NEW n \in Nat, EndsAt(s, i, m, n),
         NEW h \in Nat, NEW o \in Nat, EndsAt(s, i, h, o)
  PROVE  m = h /\ n = o
<1>2. PICK k \in Nat, e \in Nat : PieceAt(s, i, k, e, n) /\ m = e + n + 2
  BY DEF EndsAt
<1>3. PICK l \in Nat, f \in Nat : PieceAt(s, i, l, f, o) /\ h = f + o + 2
  BY DEF EndsAt
<1>4. LineUpTo(s, i, k, e) /\ LineUpTo(s, i, l, f) /\ n = NumberAt(s, i, k) /\ o = NumberAt(s, i, l)
  BY <1>2, <1>3 DEF PieceAt
<1>5. k = l /\ e = f
  BY <1>4, OneLine
<1> QED BY <1>2, <1>3, <1>4, <1>5

\* What is a piece, by its places: a size line for n bytes, and CRLF behind them.
LEMMA PieceIs ==
  ASSUME NEW v \in Seq(Char), NEW n \in Nat, NEW line \in Nat, line + n + 2 = Len(v)
  PROVE  EndsWithCRLF(v) /\ IsSizeLine(SubSeq(v, 1, line), n) <=> EndsAt(v, 0, Len(v), n)
<1>1. PICK l \in Nat : l = Len(v) /\ l = line + n + 2 /\ l >= 2 /\ line <= l
  <2>1. line + n + 2 \in Nat
    OBVIOUS
  <2> QED BY <2>1
<1>2. /\ SubSeq(v, 1, line) \in Seq(Char) /\ Len(SubSeq(v, 1, line)) = line
      /\ \A j \in 1 .. line : SubSeq(v, 1, line)[j] = v[j]
  BY <1>1, Beginning
<1>3. PICK w \in Seq(Char) : w = SubSeq(v, 1, line)
  BY <1>2
<1>4. Len(w) = line /\ GoesOn(w, v)
  BY <1>1, <1>2, <1>3 DEF GoesOn
<1>5. EndsWithCRLF(v) <=> v[line + n + 1] = CR /\ v[line + n + 2] = LF
  <2>1. l - 1 = line + n + 1
    BY <1>1
  <2> QED BY <1>1, <2>1, EndsIs
<1>6. IsSizeLine(w, n) <=> \E k \in Nat : LineUpTo(w, 0, k, line) /\ NumberAt(w, 0, k) = n
  BY <1>4, SizeLineIs
<1>7. ASSUME NEW k \in Nat
      PROVE  LineUpTo(w, 0, k, line) /\ NumberAt(w, 0, k) = n
               <=> LineUpTo(v, 0, k, line) /\ NumberAt(v, 0, k) = n
  <2>1. LineUpTo(w, 0, k, line) <=> LineUpTo(v, 0, k, line)
    <3>1. 0 \in Nat /\ line <= Len(w)
      BY <1>4
    <3> QED BY <1>4, <3>1, LineGoesOn
  <2>2. k <= line => NumberAt(w, 0, k) = NumberAt(v, 0, k)
    <3>1. 0 \in Nat /\ 0 <= k
      OBVIOUS
    <3> QED BY <1>4, <3>1, NumberGoesOn
  <2>3. LineUpTo(v, 0, k, line) => k <= line
    BY DEF LineUpTo
  <2> QED BY <2>1, <2>2, <2>3
<1>8. ASSUME EndsWithCRLF(v), IsSizeLine(w, n) PROVE EndsAt(v, 0, Len(v), n)
  <2>1. PICK k \in Nat : LineUpTo(v, 0, k, line) /\ NumberAt(v, 0, k) = n
    BY <1>6, <1>7, <1>8
  <2>2. line + n + 2 <= Len(v)
    BY <1>1
  <2>3. PieceAt(v, 0, k, line, n)
    BY <1>5, <1>8, <2>1, <2>2 DEF PieceAt
  <2> QED BY <2>3 DEF EndsAt
<1>9. ASSUME EndsAt(v, 0, Len(v), n) PROVE EndsWithCRLF(v) /\ IsSizeLine(w, n)
  <2>1. PICK k \in Nat, e \in Nat : PieceAt(v, 0, k, e, n) /\ Len(v) = e + n + 2
    BY <1>9 DEF EndsAt
  <2>4. l = e + n + 2
    BY <1>1, <2>1
  <2>2. e = line
    BY <1>1, <2>4
  <2>3. /\ LineUpTo(v, 0, k, line) /\ n = NumberAt(v, 0, k)
        /\ v[line + n + 1] = CR /\ v[line + n + 2] = LF
    BY <2>1, <2>2 DEF PieceAt
  <2> QED BY <1>5, <1>6, <1>7, <2>3
<1> QED BY <1>3, <1>8, <1>9

\* The size of a piece is what its digits say.
LEMMA SizeOfPiece ==
  ASSUME NEW v \in Seq(Char), NEW m \in Nat, NEW n \in Nat, EndsAt(v, 0, m, n)
  PROVE  SizeOf(v) = n
<1>1. PICK k \in Nat, e \in Nat : PieceAt(v, 0, k, e, n)
  BY DEF EndsAt
<1>2. /\ k + 2 <= e /\ e <= Len(v) /\ Digits(v, 0, k)
      /\ k + 2 = e \/ v[k + 1] = Separator
      /\ v[e - 1] = CR /\ n = NumberAt(v, 0, k)
  BY <1>1 DEF PieceAt, LineUpTo
<1>3. PICK l \in Nat : l = Len(v)
  BY LenProperties
<1>4. v[k + 1] \notin Digit
  <2>1. k + 2 = e => k + 1 = e - 1
    OBVIOUS
  <2> QED BY <1>2, <2>1, Characters
<1>5. k <= Len(v)
  BY <1>2, <1>3
<1> QED BY <1>2, <1>4, <1>5, LeadingDigitsAre

\* A size is a natural number.
LEMMA SizeIsNat ==
  ASSUME NEW v \in Seq(Char)
  PROVE  SizeOf(v) \in Nat
<1>1. PICK d \in Nat : d <= Len(v) /\ Digits(v, 0, d) /\ (d = Len(v) \/ v[d + 1] \notin Digit)
  BY LeadingDigitsEnd
<1>2. SizeOf(v) = NumberAt(v, 0, d)
  BY <1>1, LeadingDigitsAre
<1>3. 0 \in Nat /\ 0 <= d
  OBVIOUS
<1> QED BY <1>1, <1>2, <1>3, NumberAtIsNat

\* A chunk and the last chunk, by their places.
LEMMA WholeIs ==
  ASSUME NEW v \in Seq(Char)
  PROVE  /\ IsChunk(v) <=> \E n \in Nat \ {0} : EndsAt(v, 0, Len(v), n)
         /\ IsLastChunk(v) <=> EndsAt(v, 0, Len(v), 0)
<1>1. PICK l \in Nat : l = Len(v)
  BY LenProperties
<1>2. ASSUME NEW n \in Nat, EndsAt(v, 0, Len(v), n)
      PROVE  \E line \in Nat : line + n + 2 = Len(v) /\ line > 0
  <2>1. PICK k \in Nat, e \in Nat : PieceAt(v, 0, k, e, n) /\ Len(v) = e + n + 2
    BY <1>2 DEF EndsAt
  <2>2. k + 2 <= e
    BY <2>1 DEF PieceAt, LineUpTo
  <2> QED BY <2>1, <2>2
<1>3. ASSUME IsChunk(v) PROVE \E n \in Nat \ {0} : EndsAt(v, 0, Len(v), n)
  <2>1. PICK n \in Nat : n = SizeOf(v)
    BY SizeIsNat
  <2>2. PICK line : line = l - n - 2
    OBVIOUS
  <2>3. n > 0 /\ line > 0 /\ EndsWithCRLF(v) /\ IsSizeLine(SubSeq(v, 1, line), n)
    BY <1>1, <1>3, <2>1, <2>2 DEF IsChunk
  <2>4. line \in Nat /\ line + n + 2 = Len(v) /\ n \in Nat \ {0}
    BY <1>1, <2>2, <2>3
  <2>5. EndsAt(v, 0, Len(v), n)
    BY <2>3, <2>4, PieceIs
  <2> QED BY <2>4, <2>5
<1>4. ASSUME NEW n \in Nat \ {0}, EndsAt(v, 0, Len(v), n) PROVE IsChunk(v)
  <2>1. PICK line \in Nat : line + n + 2 = Len(v) /\ line > 0
    BY <1>2, <1>4
  <2>2. EndsWithCRLF(v) /\ IsSizeLine(SubSeq(v, 1, line), n)
    BY <1>4, <2>1, PieceIs
  <2>3. SizeOf(v) = n
    BY <1>1, <1>4, SizeOfPiece
  <2>4. Len(v) - n - 2 = line
    BY <1>1, <2>1
  <2> QED BY <2>1, <2>2, <2>3, <2>4 DEF IsChunk
<1>5. ASSUME IsLastChunk(v) PROVE EndsAt(v, 0, Len(v), 0)
  <2>1. EndsWithCRLF(v) /\ IsSizeLine(SubSeq(v, 1, l - 2), 0)
    BY <1>1, <1>5 DEF IsLastChunk, WithoutCRLF
  <2>2. l - 2 \in Nat /\ (l - 2) + 0 + 2 = Len(v)
    BY <1>1, <2>1 DEF EndsWithCRLF
  <2> QED BY <2>1, <2>2, PieceIs
<1>6. ASSUME EndsAt(v, 0, Len(v), 0) PROVE IsLastChunk(v)
  <2>1. PICK line \in Nat : line + 0 + 2 = Len(v) /\ line > 0
    BY <1>2, <1>6
  <2>2. EndsWithCRLF(v) /\ IsSizeLine(SubSeq(v, 1, line), 0)
    BY <1>6, <2>1, PieceIs
  <2>3. Len(v) - 2 = line
    BY <1>1, <2>1
  <2> QED BY <2>2, <2>3 DEF IsLastChunk, WithoutCRLF
<1> QED BY <1>3, <1>4, <1>5, <1>6

\* The number at the beginning of what is between two places.
LEMMA NumberBetween ==
  ASSUME NEW s \in Seq(Char), NEW i \in Nat, NEW m \in Nat, i <= m, m <= Len(s),
         NEW k \in Nat, k <= m - i
  PROVE  NumberAt(SubSeq(s, i + 1, m), 0, k) = NumberAt(s, i, i + k)
<1>1. /\ SubSeq(s, i + 1, m) \in Seq(Char) /\ Len(SubSeq(s, i + 1, m)) = m - i
      /\ \A j \in 1 .. m - i : SubSeq(s, i + 1, m)[j] = s[i + j]
  BY Between
<1>2. PICK v \in Seq(Char) : v = SubSeq(s, i + 1, m)
  BY <1>1
<1>3. Len(v) = m - i /\ \A j \in 1 .. m - i : v[j] = s[i + j]
  BY <1>1, <1>2
<1>4. PICK l \in Nat : l = Len(s) /\ m <= l
  BY LenProperties
<1>5. /\ SubSeq(v, 1, k) \in Seq(Char) /\ Len(SubSeq(v, 1, k)) = k
      /\ \A j \in 1 .. k : SubSeq(v, 1, k)[j] = v[j]
  <2>1. k <= Len(v)
    BY <1>3
  <2> QED BY <2>1, Beginning
<1>6. /\ SubSeq(s, i + 1, i + k) \in Seq(Char) /\ Len(SubSeq(s, i + 1, i + k)) = (i + k) - i
      /\ \A j \in 1 .. (i + k) - i : SubSeq(s, i + 1, i + k)[j] = s[i + j]
  <2>1. i + k \in Nat /\ i <= i + k /\ i + k <= Len(s)
    BY <1>4
  <2> QED BY <2>1, Between
<1>7. (i + k) - i = k /\ \A j \in 1 .. k : v[j] = s[i + j]
  BY <1>3
<1>8. SubSeq(v, 1, k) = SubSeq(s, i + 1, i + k)
  <2>1. PICK a \in Seq(Char) : a = SubSeq(v, 1, k)
    BY <1>5
  <2>2. PICK b \in Seq(Char) : b = SubSeq(s, i + 1, i + k)
    BY <1>6
  <2>3. Len(a) = Len(b) /\ \A j \in 1 .. Len(a) : a[j] = b[j]
    BY <1>5, <1>6, <1>7, <2>1, <2>2
  <2>4. a = b
    BY <2>3, SeqEqual
  <2> QED BY <2>1, <2>2, <2>4
<1>9. 0 + 1 = 1
  OBVIOUS
<1> QED BY <1>8, <1>9, <1>2 DEF NumberAt

\* A piece of what is between two places is a piece of the text.
LEMMA Shifted ==
  ASSUME NEW s \in Seq(Char), NEW i \in Nat, NEW m \in Nat, i <= m, m <= Len(s), NEW n \in Nat
  PROVE  EndsAt(SubSeq(s, i + 1, m), 0, Len(SubSeq(s, i + 1, m)), n) <=> EndsAt(s, i, m, n)
<1>1. /\ SubSeq(s, i + 1, m) \in Seq(Char) /\ Len(SubSeq(s, i + 1, m)) = m - i
      /\ \A j \in 1 .. m - i : SubSeq(s, i + 1, m)[j] = s[i + j]
  BY Between
<1>2. PICK v \in Seq(Char) : v = SubSeq(s, i + 1, m)
  BY <1>1
<1>3. Len(v) = m - i /\ \A j \in 1 .. m - i : v[j] = s[i + j]
  BY <1>1, <1>2
<1>4. PICK l \in Nat : l = Len(s) /\ m <= l
  BY LenProperties
<1>5. ASSUME NEW k \in Nat, k <= m - i
      PROVE  NumberAt(v, 0, k) = NumberAt(s, i, i + k)
  BY <1>2, <1>5, NumberBetween
<1>6. ASSUME NEW k \in Nat, NEW e \in Nat, e + n + 2 = m - i
      PROVE  PieceAt(v, 0, k, e, n) <=> PieceAt(s, i, i + k, i + e, n)
  <2> SUFFICES ASSUME 0 < k, k + 2 <= e
               PROVE  PieceAt(v, 0, k, e, n) <=> PieceAt(s, i, i + k, i + e, n)
    BY DEF PieceAt, LineUpTo
  <2>1. NumberAt(v, 0, k) = NumberAt(s, i, i + k)
    <3>1. k <= m - i
      BY <1>6
    <3> QED BY <1>5, <3>1
  <2>2. Digits(v, 0, k) <=> Digits(s, i, i + k)
    <3>1. ASSUME NEW j \in 0 + 1 .. k PROVE i + j \in i + 1 .. i + k /\ v[j] = s[i + j]
      <4>1. j \in 1 .. m - i
        BY <1>6
      <4> QED BY <1>3, <4>1
    <3>2. ASSUME NEW j \in i + 1 .. i + k PROVE j - i \in 0 + 1 .. k /\ v[j - i] = s[j]
      <4>1. j - i \in 1 .. m - i /\ i + (j - i) = j
        BY <1>6
      <4> QED BY <1>3, <4>1
    <3> QED BY <3>1, <3>2 DEF Digits
  <2>3. (\A j \in k + 1 .. e - 2 : v[j] # CR) <=> (\A j \in (i + k) + 1 .. (i + e) - 2 : s[j] # CR)
    <3>1. ASSUME NEW j \in k + 1 .. e - 2
          PROVE  i + j \in (i + k) + 1 .. (i + e) - 2 /\ v[j] = s[i + j]
      <4>1. j \in 1 .. m - i
        BY <1>6
      <4> QED BY <1>3, <4>1
    <3>2. ASSUME NEW j \in (i + k) + 1 .. (i + e) - 2
          PROVE  j - i \in k + 1 .. e - 2 /\ v[j - i] = s[j]
      <4>1. j - i \in 1 .. m - i /\ i + (j - i) = j
        BY <1>6
      <4> QED BY <1>3, <4>1
    <3> QED BY <3>1, <3>2
  <2>4. /\ v[k + 1] = s[(i + k) + 1] /\ v[e - 1] = s[(i + e) - 1] /\ v[e] = s[i + e]
        /\ v[e + n + 1] = s[(i + e) + n + 1] /\ v[e + n + 2] = s[(i + e) + n + 2]
    <3>1. k + 1 \in 1 .. m - i /\ e - 1 \in 1 .. m - i /\ e \in 1 .. m - i
          /\ e + n + 1 \in 1 .. m - i /\ e + n + 2 \in 1 .. m - i
      BY <1>6
    <3>2. i + (k + 1) = (i + k) + 1 /\ i + (e - 1) = (i + e) - 1
          /\ i + (e + n + 1) = (i + e) + n + 1 /\ i + (e + n + 2) = (i + e) + n + 2
      OBVIOUS
    <3>3. /\ v[k + 1] = s[i + (k + 1)] /\ v[e - 1] = s[i + (e - 1)] /\ v[e] = s[i + e]
          /\ v[e + n + 1] = s[i + (e + n + 1)] /\ v[e + n + 2] = s[i + (e + n + 2)]
      BY <1>3, <3>1
    <3> QED BY <3>2, <3>3
  <2>5. /\ 0 < k /\ k + 2 <= e /\ e <= Len(v) /\ e + n + 2 <= Len(v)
        /\ i < i + k /\ (i + k) + 2 <= i + e /\ i + e <= Len(s) /\ (i + e) + n + 2 <= Len(s)
        /\ (k + 2 = e <=> (i + k) + 2 = i + e)
    <3>1. PICK p \in Nat : p = m - i
      OBVIOUS
    <3>2. Len(v) = p /\ e + n + 2 = p /\ m = i + p /\ m <= l /\ Len(s) = l
      BY <1>3, <1>4, <1>6, <3>1
    <3>3. e <= p /\ e + n + 2 <= p /\ i + e <= l /\ (i + e) + n + 2 <= l
      BY <3>2
    <3>4. i < i + k /\ (i + k) + 2 <= i + e /\ (k + 2 = e <=> (i + k) + 2 = i + e)
      OBVIOUS
    <3> QED BY <3>2, <3>3, <3>4
  <2>6. LineUpTo(v, 0, k, e) <=> LineUpTo(s, i, i + k, i + e)
    BY <2>2, <2>3, <2>4, <2>5 DEF LineUpTo
  <2> QED BY <2>1, <2>4, <2>5, <2>6 DEF PieceAt
<1>7. ASSUME EndsAt(v, 0, m - i, n) PROVE EndsAt(s, i, m, n)
  <2>1. PICK k \in Nat, e \in Nat : PieceAt(v, 0, k, e, n) /\ m - i = e + n + 2
    BY <1>7 DEF EndsAt
  <2>2. PieceAt(s, i, i + k, i + e, n)
    BY <1>6, <2>1
  <2>3. i + k \in Nat /\ i + e \in Nat /\ m = (i + e) + n + 2
    BY <2>1
  <2> QED BY <2>2, <2>3 DEF EndsAt
<1>8. ASSUME EndsAt(s, i, m, n) PROVE EndsAt(v, 0, m - i, n)
  <2>1. PICK k \in Nat, e \in Nat : PieceAt(s, i, k, e, n) /\ m = e + n + 2
    BY <1>8 DEF EndsAt
  <2>2. i < k /\ k + 2 <= e
    BY <2>1 DEF PieceAt, LineUpTo
  <2>3. PICK h \in Nat, f \in Nat : k = i + h /\ e = i + f
    <3>1. k - i \in Nat /\ e - i \in Nat /\ k = i + (k - i) /\ e = i + (e - i)
      BY <2>2
    <3> QED BY <3>1
  <2>4. m - i = f + n + 2
    BY <2>1, <2>3
  <2>5. PieceAt(v, 0, h, f, n)
    BY <1>6, <2>1, <2>3, <2>4
  <2> QED BY <2>4, <2>5 DEF EndsAt
<1> QED BY <1>2, <1>3, <1>7, <1>8

\* A chunk and the last chunk between two places of a text.
LEMMA BetweenIs ==
  ASSUME NEW s \in Seq(Char), NEW i \in Nat, NEW m \in Nat, i <= m, m <= Len(s)
  PROVE  /\ IsChunk(SubSeq(s, i + 1, m)) <=> \E n \in Nat \ {0} : EndsAt(s, i, m, n)
         /\ IsLastChunk(SubSeq(s, i + 1, m)) <=> EndsAt(s, i, m, 0)
<1>1. SubSeq(s, i + 1, m) \in Seq(Char)
  BY Between
<1>2. PICK v \in Seq(Char) : v = SubSeq(s, i + 1, m)
  BY <1>1
<1>3. \A n \in Nat : EndsAt(v, 0, Len(v), n) <=> EndsAt(s, i, m, n)
  BY <1>2, Shifted
<1>4. IsChunk(v) <=> \E n \in Nat \ {0} : EndsAt(v, 0, Len(v), n)
  BY WholeIs
<1>5. IsLastChunk(v) <=> EndsAt(v, 0, Len(v), 0)
  BY WholeIs
<1> QED BY <1>2, <1>3, <1>4, <1>5

----------------------------------------------------------------------------
(* Where the chunks of a text begin.                                       *)

\* A chunk that ends at i makes of it a place where one begins.
With(s, starts, i) ==
  IF \E j \in starts : IsChunk(SubSeq(s, j + 1, i)) THEN starts \cup {i} ELSE starts

\* The places that are found in turn, those of places in t.
StartsOn(domain, s, places, found) ==
  found = [t \in domain |->
             IF t = {} THEN {0}
             ELSE With(s, found[Rest(t)], places[Max(t)])]

\* There is such a function.
LEMMA StartsExist ==
  ASSUME NEW s, NEW places, NEW n \in Nat
  PROVE  \E found : StartsOn(SUBSET (1 .. n), s, places, found)
<1> DEFINE none == {0}
           has == {k \in Nat : \E found : StartsOn(SUBSET (1 .. k), s, places, found)}
<1>1. 0 \in has
  <2>1. PICK found : found = [t \in SUBSET (1 .. 0) |-> none]
    OBVIOUS
  <2>2. \A t \in SUBSET (1 .. 0) : t = {}
    OBVIOUS
  <2>3. StartsOn(SUBSET (1 .. 0), s, places, found)
    BY <2>1, <2>2 DEF StartsOn
  <2> QED BY <2>3
<1>2. ASSUME NEW k \in Nat, k \in has PROVE k + 1 \in has
  <2>1. PICK found : StartsOn(SUBSET (1 .. k), s, places, found)
    BY <1>2
  <2>2. \A t \in SUBSET (1 .. k) :
          found[t] = IF t = {} THEN none ELSE With(s, found[Rest(t)], places[Max(t)])
    BY <2>1 DEF StartsOn
  <2>3. PICK more : more = [t \in SUBSET (1 .. k + 1) |->
                              IF t = {} THEN none
                              ELSE With(s, found[Rest(t)], places[Max(t)])]
    OBVIOUS
  <2>4. \A t \in SUBSET (1 .. k) : t \in SUBSET (1 .. k + 1) /\ more[t] = found[t]
    <3> SUFFICES ASSUME NEW t \in SUBSET (1 .. k)
                 PROVE  t \in SUBSET (1 .. k + 1) /\ more[t] = found[t]
      OBVIOUS
    <3>1. t \in SUBSET (1 .. k + 1)
      OBVIOUS
    <3> QED BY <2>2, <2>3, <3>1
  <2>5. ASSUME NEW t \in SUBSET (1 .. k + 1)
        PROVE  more[t] = IF t = {} THEN none ELSE With(s, more[Rest(t)], places[Max(t)])
    <3>1. t # {} => Rest(t) \in SUBSET (1 .. k)
      <4> SUFFICES ASSUME t # {} PROVE Rest(t) \in SUBSET (1 .. k)
        OBVIOUS
      <4>1. Max(t) \in t /\ \A i \in t : i <= Max(t)
        <5>1. k + 1 \in Nat /\ t # {}
          OBVIOUS
        <5> HIDE DEF has
        <5> QED BY <5>1, GreatestOf
      <4>2. ASSUME NEW i \in t, i # Max(t) PROVE i \in 1 .. k
        <5>1. i \in 1 .. k + 1 /\ Max(t) \in 1 .. k + 1 /\ i <= Max(t)
          BY <4>1
        <5> QED BY <4>2, <5>1
      <4> QED BY <4>2 DEF Rest
    <3> QED BY <2>3, <2>4, <3>1
  <2>6. StartsOn(SUBSET (1 .. k + 1), s, places, more)
    BY <2>3, <2>5 DEF StartsOn
  <2> QED BY <2>6
<1>3. n \in has
  <2> HIDE DEF has
  <2> QED BY <1>1, <1>2, AllNaturals
<1> QED BY <1>3

\* Place by place, from the left.
StartByStart(s, n, f) ==
  /\ f[0] = {0}
  /\ \A k \in 0 .. n - 1 : f[k + 1] = With(s, f[k], k + 1)

\* ChunkStarts are what is found so.
LEMMA ChunkStartsAre ==
  ASSUME NEW S, NEW s \in Seq(S)
  PROVE  \E f : StartByStart(s, Len(s), f) /\ ChunkStarts(s) = f[Len(s)]
<1>1. PICK n \in Nat : n = Len(s)
  BY LenProperties
<1>2. PICK places : places = [i \in 1 .. Len(s) |-> i]
  OBVIOUS
<1>3. DOMAIN places = 1 .. n /\ \A i \in 1 .. n : places[i] = i
  BY <1>1, <1>2
<1>4. PICK found : found = CHOOSE r : StartsOn(SUBSET (1 .. n), s, places, r)
  OBVIOUS
<1>5. StartsOn(SUBSET (1 .. n), s, places, found)
  BY <1>4, StartsExist
<1>6. ChunkStarts(s) =
        (CHOOSE r : StartsOn(SUBSET (DOMAIN places), s, places, r))[DOMAIN places]
  BY <1>2 DEF ChunkStarts, FoldLeft, MapThenFoldSet, StartsOn, Rest, With
<1>7. ChunkStarts(s) = found[1 .. n]
  BY <1>3, <1>4, <1>6
<1>8. \A t \in SUBSET (1 .. n) :
        found[t] = IF t = {} THEN {0} ELSE With(s, found[Rest(t)], places[Max(t)])
  BY <1>5 DEF StartsOn
<1>9. 1 .. 0 = {} /\ 1 .. 0 \in SUBSET (1 .. n)
  OBVIOUS
<1>10. ASSUME NEW k \in 0 .. n - 1
       PROVE  found[1 .. k + 1] = With(s, found[1 .. k], k + 1)
  <2>1. PICK t : t = 1 .. k + 1
    OBVIOUS
  <2>7. k + 1 \in Nat /\ k + 1 \in 1 .. n
    OBVIOUS
  <2>8. \A i \in 1 .. k + 1 : i \in 1 .. n
    OBVIOUS
  <2>2. t \in SUBSET (1 .. n) /\ t # {} /\ k + 1 \in Nat /\ k + 1 \in 1 .. n
    <3>1. k + 1 \in t
      BY <2>1
    <3>2. t \subseteq 1 .. n
      BY <2>1, <2>8
    <3> QED BY <2>7, <3>1, <3>2
  <2>3. Max(t) \in t /\ \A i \in t : i <= Max(t)
    <3>1. t \in SUBSET (1 .. k + 1)
      BY <2>1
    <3> QED BY <2>2, <3>1, GreatestOf
  <2>4. Max(t) = k + 1
    <3>1. PICK m \in 1 .. k + 1 : m = Max(t)
      BY <2>1, <2>3
    <3>2. k + 1 \in t
      BY <2>1
    <3>3. k + 1 <= m
      BY <2>3, <3>1, <3>2
    <3> QED BY <3>1, <3>3
  <2>5. Rest(t) = 1 .. k
    <3>1. (1 .. k + 1) \ {k + 1} = 1 .. k
      OBVIOUS
    <3> QED BY <2>1, <2>4, <3>1 DEF Rest
  <2>6. found[t] = With(s, found[Rest(t)], places[Max(t)])
    BY <1>8, <2>2
  <2> QED BY <1>3, <2>1, <2>2, <2>4, <2>5, <2>6
<1>11. PICK f : f = [k \in 0 .. n |-> found[1 .. k]]
  OBVIOUS
<1>12. \A k \in 0 .. n : f[k] = found[1 .. k]
  BY <1>11
<1>13. f[0] = {0}
  <2>1. 0 \in 0 .. n
    OBVIOUS
  <2> QED BY <1>8, <1>9, <1>12, <2>1
<1>14. ASSUME NEW k \in 0 .. n - 1 PROVE f[k + 1] = With(s, f[k], k + 1)
  <2>1. k \in 0 .. n /\ k + 1 \in 0 .. n
    OBVIOUS
  <2> QED BY <1>10, <1>12, <2>1
<1>15. StartByStart(s, Len(s), f)
  BY <1>1, <1>13, <1>14 DEF StartByStart
<1>16. ChunkStarts(s) = f[Len(s)]
  <2>1. n \in 0 .. n
    OBVIOUS
  <2> QED BY <1>1, <1>7, <1>12, <2>1
<1> QED BY <1>15, <1>16

\* A character more begins a chunk after it, or does not.
LEMMA StartsExtended ==
  ASSUME NEW s \in Seq(Char), NEW ch \in Char, NEW t, t = Append(s, ch)
  PROVE  /\ ChunkStarts(s) \subseteq 0 .. Len(s)
         /\ ChunkStarts(t) = With(t, ChunkStarts(s), Len(s) + 1)
<1>1. t \in Seq(Char) /\ Len(t) = Len(s) + 1 /\ GoesOn(s, t)
  <2>1. /\ Append(s, ch) \in Seq(Char) /\ Len(Append(s, ch)) = Len(s) + 1
        /\ \A j \in 1 .. Len(s) : Append(s, ch)[j] = s[j]
    BY AppendProperties
  <2>2. Len(s) \in Nat
    BY LenProperties
  <2> QED BY <2>1, <2>2 DEF GoesOn
<1>2. PICK n \in Nat : n = Len(s)
  BY LenProperties
<1>3. PICK f : StartByStart(s, Len(s), f) /\ ChunkStarts(s) = f[Len(s)]
  BY ChunkStartsAre
<1>4. PICK g : StartByStart(t, Len(t), g) /\ ChunkStarts(t) = g[Len(t)]
  BY <1>1, ChunkStartsAre
<1>5. f[0] = {0} /\ \A k \in 0 .. n - 1 : f[k + 1] = With(s, f[k], k + 1)
  BY <1>2, <1>3 DEF StartByStart
<1>6. g[0] = {0} /\ \A k \in 0 .. (n + 1) - 1 : g[k + 1] = With(t, g[k], k + 1)
  BY <1>1, <1>2, <1>4 DEF StartByStart
<1> DEFINE same == {k \in Nat : k <= n => f[k] = g[k] /\ f[k] \subseteq 0 .. k}
<1>7. 0 \in same
  <2>1. {0} \subseteq 0 .. 0 /\ 0 \in Nat
    OBVIOUS
  <2>2. f[0] = g[0] /\ f[0] \subseteq 0 .. 0
    BY <1>5, <1>6, <2>1
  <2> QED BY <2>1, <2>2
<1>8. ASSUME NEW k \in Nat, k \in same PROVE k + 1 \in same
  <2> SUFFICES ASSUME k + 1 <= n PROVE f[k + 1] = g[k + 1] /\ f[k + 1] \subseteq 0 .. k + 1
    OBVIOUS
  <2>1. k \in 0 .. n - 1 /\ k \in 0 .. (n + 1) - 1 /\ k <= n
    OBVIOUS
  <2>2. f[k] = g[k] /\ f[k] \subseteq 0 .. k
    BY <1>8, <2>1
  <2>3. f[k + 1] = With(s, f[k], k + 1) /\ g[k + 1] = With(t, f[k], k + 1)
    BY <1>5, <1>6, <2>1, <2>2
  <2>4. ASSUME NEW j \in f[k] PROVE SubSeq(s, j + 1, k + 1) = SubSeq(t, j + 1, k + 1)
    <3>1. j \in Nat /\ k + 1 \in Nat /\ j <= k + 1 /\ k + 1 <= Len(s)
      BY <1>2, <2>2
    <3> QED BY <1>1, <3>1, SameNumber
  <2>5. With(s, f[k], k + 1) = With(t, f[k], k + 1)
    BY <2>4 DEF With
  <2>6. With(s, f[k], k + 1) \subseteq f[k] \cup {k + 1}
    BY DEF With
  <2>7. \A j \in f[k] \cup {k + 1} : j \in 0 .. k + 1
    BY <2>2
  <2> QED BY <2>3, <2>5, <2>6, <2>7
<1>9. \A k \in Nat : k \in same
  <2> HIDE DEF same
  <2> QED BY <1>7, <1>8, AllNaturals
<1>10. f[n] = g[n] /\ f[n] \subseteq 0 .. n
  <2>1. n <= n
    OBVIOUS
  <2> QED BY <1>9, <2>1
<1>11. g[n + 1] = With(t, g[n], n + 1)
  <2>1. n \in 0 .. (n + 1) - 1
    OBVIOUS
  <2> QED BY <1>6, <2>1
<1> QED BY <1>1, <1>2, <1>3, <1>4, <1>10, <1>11

\* An empty text is a place where a chunk begins.
LEMMA NoStarts == ChunkStarts(<<>>) = {0}
<1>1. <<>> \in Seq(Char) /\ Len(<<>>) = 0
  BY EmptySeq
<1>2. PICK f : StartByStart(<<>>, Len(<<>>), f) /\ ChunkStarts(<<>>) = f[Len(<<>>)]
  BY <1>1, ChunkStartsAre
<1> QED BY <1>1, <1>2 DEF StartByStart

\* Which places the character more adds.
LEMMA NewStarts ==
  ASSUME NEW s \in Seq(Char), NEW ch \in Char, NEW t, t = Append(s, ch)
  PROVE  ChunkStarts(t) =
           IF \E i \in ChunkStarts(s), n \in Nat \ {0} : EndsAt(t, i, Len(t), n)
           THEN ChunkStarts(s) \cup {Len(t)} ELSE ChunkStarts(s)
<1>1. t \in Seq(Char) /\ Len(t) = Len(s) + 1
  BY AppendProperties
<1>2. PICK n \in Nat : n = Len(s)
  BY LenProperties
<1>3. ChunkStarts(s) \subseteq 0 .. Len(s) /\ ChunkStarts(t) = With(t, ChunkStarts(s), Len(s) + 1)
  BY StartsExtended
<1>4. ASSUME NEW i \in ChunkStarts(s)
      PROVE  IsChunk(SubSeq(t, i + 1, Len(t))) <=> \E o \in Nat \ {0} : EndsAt(t, i, Len(t), o)
  <2>1. i \in Nat /\ Len(t) \in Nat /\ i <= Len(t) /\ Len(t) <= Len(t)
    BY <1>1, <1>2, <1>3
  <2> QED BY <1>1, <2>1, BetweenIs
<1> QED BY <1>1, <1>3, <1>4 DEF With

----------------------------------------------------------------------------
(* What no text that goes on makes a piece of.                             *)

\* Nothing that goes on from s has a piece after b up to its end.
Dead(s, b) ==
  \A t \in Seq(Char) : GoesOn(s, t) => \A n \in Nat : ~EndsAt(t, b, Len(t), n)

\* t is s and the character ch.
Grown(s, t, ch) ==
  /\ s \in Seq(Char) /\ t \in Seq(Char) /\ ch \in Char
  /\ GoesOn(s, t)
  /\ Len(t) = Len(s) + 1
  /\ t[Len(s) + 1] = ch

\* A character more makes a text grow.
LEMMA AppendGrows ==
  ASSUME NEW s \in Seq(Char), NEW ch \in Char
  PROVE  Grown(s, Append(s, ch), ch)
<1>1. /\ Append(s, ch) \in Seq(Char) /\ Len(Append(s, ch)) = Len(s) + 1
      /\ \A j \in 1 .. Len(s) : Append(s, ch)[j] = s[j]
      /\ Append(s, ch)[Len(s) + 1] = ch
  BY AppendProperties
<1>2. Len(s) \in Nat
  BY LenProperties
<1> QED BY <1>1, <1>2 DEF Grown, GoesOn

\* What goes on from a text that goes on goes on.
LEMMA GoesOnFurther ==
  ASSUME NEW s \in Seq(Char), NEW t \in Seq(Char), NEW u \in Seq(Char),
         GoesOn(s, t), GoesOn(t, u)
  PROVE  GoesOn(s, u)
<1>1. PICK l \in Nat, m \in Nat, n \in Nat : l = Len(s) /\ m = Len(t) /\ n = Len(u)
  BY LenProperties
<1>2. /\ l <= m /\ m <= n /\ \A j \in 1 .. l : t[j] = s[j]
      /\ \A j \in 1 .. m : u[j] = t[j]
  BY <1>1 DEF GoesOn
<1>3. \A j \in 1 .. l : u[j] = s[j]
  BY <1>2
<1> QED BY <1>1, <1>2, <1>3 DEF GoesOn

\* What a piece of a text that goes on from t has in the places of t.
LEMMA PieceOfLonger ==
  ASSUME NEW t \in Seq(Char), NEW u \in Seq(Char), GoesOn(t, u),
         NEW b \in Nat, NEW n \in Nat, EndsAt(u, b, Len(u), n)
  PROVE  \E k \in Nat, e \in Nat :
           /\ PieceAt(u, b, k, e, n)
           /\ Len(t) <= e + n + 2
           /\ \A j \in 1 .. Len(t) : u[j] = t[j]
<1>1. PICK k \in Nat, e \in Nat : PieceAt(u, b, k, e, n) /\ Len(u) = e + n + 2
  BY DEF EndsAt
<1>2. Len(t) <= e + n + 2 /\ \A j \in 1 .. Len(t) : u[j] = t[j]
  BY <1>1 DEF GoesOn
<1> QED BY <1>1, <1>2

\* A size begins with a digit.
LEMMA DeadWithoutDigit ==
  ASSUME NEW t \in Seq(Char), NEW b \in Nat, Len(t) = b + 1, t[b + 1] \notin Digit
  PROVE  Dead(t, b)
<1> SUFFICES ASSUME NEW u \in Seq(Char), GoesOn(t, u), NEW n \in Nat, EndsAt(u, b, Len(u), n)
             PROVE  FALSE
  BY DEF Dead
<1>1. PICK k \in Nat, e \in Nat :
        PieceAt(u, b, k, e, n) /\ \A j \in 1 .. Len(t) : u[j] = t[j]
  BY PieceOfLonger
<1>2. b < k /\ \A j \in b + 1 .. k : u[j] \in Digit
  BY <1>1 DEF PieceAt, LineUpTo, Digits
<1>3. b + 1 \in b + 1 .. k
  BY <1>2
<1>4. u[b + 1] = t[b + 1]
  <2>1. b + 1 \in 1 .. b + 1
    OBVIOUS
  <2> QED BY <1>1, <2>1
<1> QED BY <1>2, <1>3, <1>4

\* Behind the digits there is an extension or CR.
LEMMA DeadAfterDigits ==
  ASSUME NEW t \in Seq(Char), NEW b \in Nat, NEW k \in Nat, b < k, Len(t) = k + 1,
         Digits(t, b, k), t[k + 1] \notin Digit, t[k + 1] # Separator, t[k + 1] # CR
  PROVE  Dead(t, b)
<1> SUFFICES ASSUME NEW u \in Seq(Char), GoesOn(t, u), NEW n \in Nat, EndsAt(u, b, Len(u), n)
             PROVE  FALSE
  BY DEF Dead
<1>1. PICK h \in Nat, e \in Nat :
        PieceAt(u, b, h, e, n) /\ \A j \in 1 .. Len(t) : u[j] = t[j]
  BY PieceOfLonger
<1>2. /\ b < h /\ \A j \in b + 1 .. h : u[j] \in Digit
      /\ h + 2 <= e /\ (h + 2 = e \/ u[h + 1] = Separator) /\ u[e - 1] = CR
  BY <1>1 DEF PieceAt, LineUpTo, Digits
<1>3. \A j \in 1 .. k + 1 : u[j] = t[j]
  BY <1>1
<1>4. u[h + 1] = Separator \/ u[h + 1] = CR
  <2>1. h + 2 = e => e - 1 = h + 1
    OBVIOUS
  <2> QED BY <1>2, <2>1
<1>5. u[k + 1] = t[k + 1]
  <2>1. k + 1 \in 1 .. k + 1
    OBVIOUS
  <2> QED BY <1>3, <2>1
<1>6. CASE h > k
  <2>1. k + 1 \in b + 1 .. h
    BY <1>6
  <2> QED BY <1>2, <1>5, <2>1
<1>7. CASE h < k
  <2>1. h + 1 \in b + 1 .. k /\ h + 1 \in 1 .. k + 1
    BY <1>2, <1>7
  <2>2. u[h + 1] \in Digit
    BY <1>3, <2>1 DEF Digits
  <2> QED BY <1>4, <2>2, Characters
<1>8. CASE h = k
  BY <1>4, <1>5, <1>8
<1> QED BY <1>6, <1>7, <1>8

\* Behind the CR of a line there is LF.
LEMMA DeadAfterCR ==
  ASSUME NEW t \in Seq(Char), NEW b \in Nat, NEW k \in Nat, NEW l \in Nat, b < k, k < l,
         Len(t) = l + 1, Digits(t, b, k), k + 1 = l \/ t[k + 1] = Separator,
         \A j \in k + 1 .. l - 1 : t[j] # CR, t[l] = CR, t[l + 1] # LF
  PROVE  Dead(t, b)
<1> SUFFICES ASSUME NEW u \in Seq(Char), GoesOn(t, u), NEW n \in Nat, EndsAt(u, b, Len(u), n)
             PROVE  FALSE
  BY DEF Dead
<1>1. PICK h \in Nat, e \in Nat :
        PieceAt(u, b, h, e, n) /\ \A j \in 1 .. Len(t) : u[j] = t[j]
  BY PieceOfLonger
<1>2. /\ b < h /\ \A j \in b + 1 .. h : u[j] \in Digit
      /\ h + 2 <= e /\ (h + 2 = e \/ u[h + 1] = Separator)
      /\ \A j \in h + 1 .. e - 2 : u[j] # CR
      /\ u[e - 1] = CR /\ u[e] = LF
  BY <1>1 DEF PieceAt, LineUpTo, Digits
<1>3. \A j \in 1 .. l + 1 : u[j] = t[j]
  BY <1>1
<1>4. u[l] = CR /\ u[l + 1] # LF
  <2>1. l \in 1 .. l + 1 /\ l + 1 \in 1 .. l + 1
    OBVIOUS
  <2> QED BY <1>3, <2>1
<1>5. \A j \in b + 1 .. k : u[j] \in Digit
  <2> SUFFICES ASSUME NEW j \in b + 1 .. k PROVE u[j] \in Digit
    OBVIOUS
  <2>1. j \in 1 .. l + 1
    OBVIOUS
  <2> QED BY <1>3, <2>1 DEF Digits
<1>6. h < l
  <2> SUFFICES ASSUME h >= l PROVE FALSE
    OBVIOUS
  <2>1. l \in b + 1 .. h
    OBVIOUS
  <2> QED BY <1>2, <1>4, <2>1, Characters
<1>7. e - 1 <= l
  <2> SUFFICES ASSUME e - 1 > l PROVE FALSE
    OBVIOUS
  <2>1. l \in h + 1 .. e - 2
    BY <1>6
  <2> QED BY <1>2, <1>4, <2>1
<1>8. e - 1 # l
  <2> SUFFICES ASSUME e - 1 = l PROVE FALSE
    OBVIOUS
  <2>1. e = l + 1
    OBVIOUS
  <2> QED BY <1>2, <1>4, <2>1
<1>9. e - 1 \in k + 1 .. l - 1
  <2>1. e - 1 > k
    <3> SUFFICES ASSUME e - 1 <= k PROVE FALSE
      OBVIOUS
    <3>1. e - 1 \in b + 1 .. k
      BY <1>2
    <3> QED BY <1>2, <1>5, <3>1, Characters
  <2> QED BY <1>7, <1>8, <2>1
<1>10. u[e - 1] = t[e - 1]
  <2>1. e - 1 \in 1 .. l + 1
    BY <1>9
  <2> QED BY <1>3, <2>1
<1> QED BY <1>2, <1>9, <1>10

\* A line of a text that goes on is the line of its piece.
LEMMA PieceOfLine ==
  ASSUME NEW t \in Seq(Char), NEW u \in Seq(Char), GoesOn(t, u),
         NEW b \in Nat, NEW k \in Nat, NEW e \in Nat, LineUpTo(t, b, k, e),
         NEW n \in Nat, EndsAt(u, b, Len(u), n)
  PROVE  PieceAt(u, b, k, e, n) /\ n = NumberAt(t, b, k) /\ Len(u) = e + n + 2
<1>1. PICK h \in Nat, f \in Nat : PieceAt(u, b, h, f, n) /\ Len(u) = f + n + 2
  BY DEF EndsAt
<1>2. LineUpTo(u, b, h, f) /\ n = NumberAt(u, b, h)
  BY <1>1 DEF PieceAt
<1>3. b < k /\ k + 2 <= e /\ e <= Len(t)
  BY DEF LineUpTo
<1>4. PICK l \in Nat : l = Len(t)
  BY LenProperties
<1>5. b <= k /\ k <= Len(t) /\ e <= Len(t)
  BY <1>3, <1>4
<1>6. LineUpTo(u, b, k, e)
  BY <1>5, LineGoesOn
<1>7. h = k /\ f = e
  BY <1>2, <1>6, OneLine
<1>8. NumberAt(t, b, k) = NumberAt(u, b, k)
  BY <1>5, NumberGoesOn
<1> QED BY <1>1, <1>2, <1>7, <1>8

\* Behind the bytes of a piece there is CR.
LEMMA DeadAfterData ==
  ASSUME NEW t \in Seq(Char), NEW b \in Nat, NEW k \in Nat, NEW e \in Nat, LineUpTo(t, b, k, e),
         NEW n \in Nat, n = NumberAt(t, b, k), Len(t) = e + n + 1, t[e + n + 1] # CR
  PROVE  Dead(t, b)
<1> SUFFICES ASSUME NEW u \in Seq(Char), GoesOn(t, u), NEW o \in Nat, EndsAt(u, b, Len(u), o)
             PROVE  FALSE
  BY DEF Dead
<1>1. PieceAt(u, b, k, e, o) /\ o = n
  BY PieceOfLine
<1>2. u[e + n + 1] = CR
  BY <1>1 DEF PieceAt
<1>3. e + n + 1 \in 1 .. e + n + 1
  OBVIOUS
<1>4. u[e + n + 1] = t[e + n + 1]
  BY <1>3 DEF GoesOn
<1> QED BY <1>2, <1>4

\* And LF behind that.
LEMMA DeadAfterDataCR ==
  ASSUME NEW t \in Seq(Char), NEW b \in Nat, NEW k \in Nat, NEW e \in Nat, LineUpTo(t, b, k, e),
         NEW n \in Nat, n = NumberAt(t, b, k), Len(t) = e + n + 2, t[e + n + 2] # LF
  PROVE  Dead(t, b)
<1> SUFFICES ASSUME NEW u \in Seq(Char), GoesOn(t, u), NEW o \in Nat, EndsAt(u, b, Len(u), o)
             PROVE  FALSE
  BY DEF Dead
<1>1. PieceAt(u, b, k, e, o) /\ o = n
  BY PieceOfLine
<1>2. u[e + n + 2] = LF
  BY <1>1 DEF PieceAt
<1>3. e + n + 2 \in 1 .. e + n + 2
  OBVIOUS
<1>4. u[e + n + 2] = t[e + n + 2]
  BY <1>3 DEF GoesOn
<1> QED BY <1>2, <1>4

\* Behind a piece there is nothing of it.
LEMMA DeadAfterPiece ==
  ASSUME NEW s \in Seq(Char), NEW t \in Seq(Char), GoesOn(s, t), Len(t) = Len(s) + 1,
         NEW b \in Nat, NEW n \in Nat, EndsAt(s, b, Len(s), n)
  PROVE  Dead(t, b)
<1> SUFFICES ASSUME NEW u \in Seq(Char), GoesOn(t, u), NEW o \in Nat, EndsAt(u, b, Len(u), o)
             PROVE  FALSE
  BY DEF Dead
<1>1. GoesOn(s, u)
  BY GoesOnFurther
<1>2. PICK l \in Nat, m \in Nat : l = Len(s) /\ m = Len(u)
  BY LenProperties
<1>3. EndsAt(u, b, l, n)
  BY <1>1, <1>2, PieceGoesOn
<1>4. EndsAt(u, b, m, o)
  BY <1>2
<1>5. m = l
  BY <1>3, <1>4, OneEnd
<1>6. l + 1 <= m
  BY <1>2 DEF GoesOn
<1> QED BY <1>5, <1>6

----------------------------------------------------------------------------
(* What the state of the checker says of the piece that begins after b.    *)

Where(c, s, b) ==
  /\ c.state = "chunk_size_start" => b = Len(s)
  /\ c.state = "chunk_size" =>
       /\ b < Len(s) /\ Digits(s, b, Len(s))
       /\ c.current_chunk_size = NumberAt(s, b, Len(s))
       /\ c.current_chunk_size_has_read = 0
  /\ c.state = "chunk_ext" => \E k \in Nat :
       /\ b < k /\ k < Len(s) /\ Digits(s, b, k) /\ s[k + 1] = Separator
       /\ \A j \in k + 1 .. Len(s) : s[j] # CR
       /\ c.current_chunk_size = NumberAt(s, b, k)
       /\ c.current_chunk_size_has_read = 0
  /\ c.state = "chunk_size_cr" => \E k \in Nat :
       /\ b < k /\ k < Len(s) /\ Digits(s, b, k)
       /\ k + 1 = Len(s) \/ s[k + 1] = Separator
       /\ \A j \in k + 1 .. Len(s) - 1 : s[j] # CR
       /\ s[Len(s)] = CR
       /\ c.current_chunk_size = NumberAt(s, b, k)
       /\ c.current_chunk_size_has_read = 0
  /\ c.state = "chunk_data" => \E k, e \in Nat :
       /\ LineUpTo(s, b, k, e)
       /\ c.current_chunk_size = NumberAt(s, b, k) /\ c.current_chunk_size # 0
       /\ Len(s) = e + c.current_chunk_size_has_read
  /\ c.state = "chunk_data_cr" => \E k, e \in Nat :
       /\ LineUpTo(s, b, k, e)
       /\ c.current_chunk_size = NumberAt(s, b, k) /\ c.current_chunk_size # 0
       /\ Len(s) = e + c.current_chunk_size + 1
       /\ s[Len(s)] = CR
  /\ c.state = "chunk_last" => \E k \in Nat : LineUpTo(s, b, k, Len(s)) /\ NumberAt(s, b, k) = 0
  /\ c.state = "chunk_last_cr" => \E k, e \in Nat :
       /\ LineUpTo(s, b, k, e) /\ NumberAt(s, b, k) = 0
       /\ Len(s) = e + 1 /\ s[Len(s)] = CR
  /\ c.state = "chunk_complete" => EndsAt(s, b, Len(s), 0)
  /\ c.state = "chunk_check_failed" => b < Len(s) /\ Dead(s, b)

\* Of a failed checker.
LEMMA FailedThere ==
  ASSUME NEW c, NEW d, c \in Checker, d = [c EXCEPT !.state = "chunk_check_failed"],
         NEW t, NEW b, b < Len(t), Dead(t, b)
  PROVE  Where(d, t, b)
<1>1. d.state = "chunk_check_failed"
  BY DEF Checker
<1> QED BY <1>1 DEF Where

\* The digits before the end of a text make a size that does not wrap.
Fits(t, b) == Digits(t, b, Len(t)) => NumberAt(t, b, Len(t)) < Modulus

\* What a character may lead to: a place of the same piece, or the end of a chunk.
Outcome(d, t, b) ==
  \/ d.state # "chunk_size_start" /\ Where(d, t, b)
  \/ d.state = "chunk_size_start" /\ \E n \in Nat \ {0} : EndsAt(t, b, Len(t), n)

\* A size that is less than the modulus is its residue.
LEMMA SmallResidue == \A n \in Nat : n < Modulus => n % Modulus = n
BY ChunkAssumption

\* The places of a text that grows.
LEMMA GrownPlaces ==
  ASSUME NEW s, NEW t, NEW ch, Grown(s, t, ch)
  PROVE  /\ Len(s) \in Nat /\ Len(t) = Len(s) + 1 /\ t[Len(s) + 1] = ch
         /\ \A j \in 1 .. Len(s) : t[j] = s[j]
         /\ s \in Seq(Char) /\ t \in Seq(Char) /\ ch \in Char /\ GoesOn(s, t)
BY LenProperties DEF Grown, GoesOn

\* From the beginning of a size: its first digit, or an error.
LEMMA StepFromStart ==
  ASSUME NEW s, NEW t, NEW ch, Grown(s, t, ch), NEW b \in Nat, NEW c \in Checker,
         c.state = "chunk_size_start", Where(c, s, b), Fits(t, b)
  PROVE  Outcome(Step(c, ch), t, b)
<1>1. PICK l \in Nat : l = Len(s)
  BY GrownPlaces
<1>2. Len(t) = l + 1 /\ t[l + 1] = ch /\ t \in Seq(Char) /\ b = l
  BY <1>1, GrownPlaces DEF Where
<1>3. CASE ch \in Digit
  <2>1. PICK d : d = Step(c, ch)
    OBVIOUS
  <2>2. d = SizeBegins(c, ch)
    BY <1>3, <2>1 DEF Step
  <2>3. Digits(t, b, b + 1) /\ Digits(t, b, Len(t))
    BY <1>2, <1>3 DEF Digits
  <2>4. NumberAt(t, b, b + 1) = NumberAt(t, b, b) * Base + t[b + 1]
    <3>1. b <= b /\ b + 1 <= Len(t)
      BY <1>2
    <3> QED BY <1>2, <2>3, <3>1, NumberAtExtended
  <2>5. NumberAt(t, b, b) = 0
    BY <1>2, NumberAtStart
  <2>6. NumberAt(t, b, Len(t)) = ch /\ ch \in Nat /\ ch < Modulus
    <3>1. ch \in Nat
      BY <1>3 DEF Digit
    <3>2. NumberAt(t, b, Len(t)) = ch
      BY <1>2, <2>4, <2>5, <3>1, ChunkAssumption
    <3> QED BY <2>3, <3>1, <3>2 DEF Fits
  <2>7. ch % Modulus = ch
    BY <2>6, SmallResidue
  <2>8. /\ d.state = "chunk_size" /\ d.current_chunk_size = ch
        /\ d.current_chunk_size_has_read = 0
    BY <2>2, <2>7 DEF SizeBegins
  <2>9. b < Len(t)
    BY <1>2
  <2>10. Where(d, t, b)
    BY <2>3, <2>6, <2>8, <2>9 DEF Where
  <2> QED BY <2>1, <2>8, <2>10 DEF Outcome
<1>4. CASE ch \notin Digit
  <2>1. PICK d : d = Step(c, ch)
    OBVIOUS
  <2>2. d = [c EXCEPT !.state = "chunk_check_failed"]
    BY <1>4, <2>1 DEF Step
  <2>3. Dead(t, b)
    BY <1>2, <1>4, DeadWithoutDigit
  <2>4. b < Len(t) /\ d.state = "chunk_check_failed"
    BY <1>2, <2>2 DEF Checker
  <2>5. Where(d, t, b)
    BY <2>2, <2>3, <2>4, FailedThere
  <2> QED BY <2>1, <2>4, <2>5 DEF Outcome
<1> QED BY <1>3, <1>4

\* From the digits: one more, an extension, CR, or an error.
LEMMA StepFromSize ==
  ASSUME NEW s, NEW t, NEW ch, Grown(s, t, ch), NEW b \in Nat, NEW c \in Checker,
         c.state = "chunk_size", Where(c, s, b), Fits(t, b)
  PROVE  Outcome(Step(c, ch), t, b)
<1>1. PICK l \in Nat : l = Len(s)
  BY GrownPlaces
<1>2. /\ Len(t) = l + 1 /\ t[l + 1] = ch /\ t \in Seq(Char) /\ s \in Seq(Char) /\ GoesOn(s, t)
      /\ \A j \in 1 .. l : t[j] = s[j]
  BY <1>1, GrownPlaces
<1>3. /\ b < l /\ Digits(s, b, l) /\ c.current_chunk_size = NumberAt(s, b, l)
      /\ c.current_chunk_size_has_read = 0
  BY <1>1 DEF Where
<1>4. NumberAt(t, b, l) = NumberAt(s, b, l) /\ NumberAt(s, b, l) \in Nat
  <2>1. b <= l /\ l <= Len(s)
    BY <1>1, <1>3
  <2> QED BY <1>2, <1>3, <2>1, NumberGoesOn, NumberAtIsNat
<1>5. Digits(t, b, l)
  <2> SUFFICES ASSUME NEW j \in b + 1 .. l PROVE t[j] \in Digit
    BY DEF Digits
  <2>1. j \in 1 .. l
    OBVIOUS
  <2> QED BY <1>2, <1>3, <2>1 DEF Digits
<1>6. PICK d : d = Step(c, ch)
  OBVIOUS
<1>7. b < Len(t) /\ l < Len(t) /\ l + 1 = Len(t)
  BY <1>2, <1>3
<1>8. CASE ch \in Digit
  <2>1. d = SizeGoesOn(c, ch)
    BY <1>6, <1>8 DEF Step
  <2>2. Digits(t, b, l + 1) /\ Digits(t, b, Len(t))
    <3>1. ASSUME NEW j \in b + 1 .. l + 1 PROVE t[j] \in Digit
      <4>1. j = l + 1 \/ j \in b + 1 .. l
        OBVIOUS
      <4> QED BY <1>2, <1>5, <1>8, <4>1 DEF Digits
    <3> QED BY <1>2, <3>1 DEF Digits
  <2>3. NumberAt(t, b, l + 1) = NumberAt(t, b, l) * Base + ch
    <3>1. b <= l /\ l + 1 <= Len(t)
      BY <1>3, <1>7
    <3> QED BY <1>2, <2>2, <3>1, NumberAtExtended
  <2>4. PICK n \in Nat : n = NumberAt(t, b, l + 1)
    <3>1. b <= l + 1 /\ l + 1 <= Len(t) /\ l + 1 \in Nat
      BY <1>3, <1>7
    <3> QED BY <1>2, <2>2, <3>1, NumberAtIsNat
  <2>5. n < Modulus
    BY <1>2, <2>2, <2>4 DEF Fits
  <2>6. d.current_chunk_size = (c.current_chunk_size * Base + ch) % Modulus
        /\ d.state = "chunk_size" /\ d.current_chunk_size_has_read = 0
    BY <1>3, <2>1 DEF SizeGoesOn, Checker
  <2>7. c.current_chunk_size * Base + ch = n
    BY <1>3, <1>4, <2>3, <2>4
  <2>8. d.current_chunk_size = n
    BY <2>5, <2>6, <2>7, SmallResidue
  <2>9. Where(d, t, b)
    BY <1>2, <1>7, <2>2, <2>4, <2>6, <2>8 DEF Where
  <2> QED BY <1>6, <2>6, <2>9 DEF Outcome
<1>9. CASE ch = Separator
  <2>1. d = [c EXCEPT !.state = "chunk_ext"]
    BY <1>6, <1>9, Characters DEF Step
  <2>2. /\ d.state = "chunk_ext" /\ d.current_chunk_size = NumberAt(t, b, l)
        /\ d.current_chunk_size_has_read = 0
    BY <1>3, <1>4, <2>1 DEF Checker
  <2>3. \A j \in l + 1 .. Len(t) : t[j] # CR
    <3>1. \A j \in l + 1 .. l + 1 : j = l + 1
      OBVIOUS
    <3> QED BY <1>2, <1>9, <3>1, Characters
  <2>4. Where(d, t, b)
    BY <1>2, <1>3, <1>5, <1>7, <1>9, <2>2, <2>3 DEF Where
  <2> QED BY <1>6, <2>2, <2>4 DEF Outcome
<1>10. CASE ch = CR
  <2>1. d = [c EXCEPT !.state = "chunk_size_cr"]
    BY <1>6, <1>10, Characters DEF Step
  <2>2. /\ d.state = "chunk_size_cr" /\ d.current_chunk_size = NumberAt(t, b, l)
        /\ d.current_chunk_size_has_read = 0
    BY <1>3, <1>4, <2>1 DEF Checker
  <2>3. \A j \in l + 1 .. Len(t) - 1 : t[j] # CR
    BY <1>2
  <2>4. Where(d, t, b)
    BY <1>2, <1>3, <1>5, <1>7, <1>10, <2>2, <2>3 DEF Where
  <2> QED BY <1>6, <2>2, <2>4 DEF Outcome
<1>11. CASE ch \notin Digit /\ ch # Separator /\ ch # CR
  <2>1. d = [c EXCEPT !.state = "chunk_check_failed"]
    BY <1>6, <1>11 DEF Step
  <2>2. Dead(t, b)
    BY <1>2, <1>3, <1>5, <1>11, DeadAfterDigits
  <2>3. d.state = "chunk_check_failed"
    BY <2>1 DEF Checker
  <2>4. Where(d, t, b)
    BY <1>7, <2>1, <2>2, FailedThere
  <2> QED BY <1>6, <2>3, <2>4 DEF Outcome
<1> QED BY <1>8, <1>9, <1>10, <1>11

\* Digits stay where they are, and so does their number.
LEMMA DigitsGoOn ==
  ASSUME NEW s \in Seq(Char), NEW t \in Seq(Char), GoesOn(s, t),
         NEW b \in Nat, NEW k \in Nat, b <= k, k <= Len(s), Digits(s, b, k)
  PROVE  Digits(t, b, k) /\ NumberAt(t, b, k) = NumberAt(s, b, k) /\ NumberAt(s, b, k) \in Nat
<1>1. PICK l \in Nat : l = Len(s)
  BY LenProperties
<1>2. \A j \in 1 .. l : t[j] = s[j]
  BY <1>1 DEF GoesOn
<1>3. Digits(t, b, k)
  <2> SUFFICES ASSUME NEW j \in b + 1 .. k PROVE t[j] \in Digit
    BY DEF Digits
  <2>1. j \in 1 .. l
    BY <1>1
  <2> QED BY <1>2, <2>1 DEF Digits
<1> QED BY <1>3, NumberGoesOn, NumberAtIsNat

\* From an extension: more of it, or CR.
LEMMA StepFromExt ==
  ASSUME NEW s, NEW t, NEW ch, Grown(s, t, ch), NEW b \in Nat, NEW c \in Checker,
         c.state = "chunk_ext", Where(c, s, b)
  PROVE  Outcome(Step(c, ch), t, b)
<1>1. PICK l \in Nat : l = Len(s)
  BY GrownPlaces
<1>2. /\ Len(t) = l + 1 /\ t[l + 1] = ch /\ t \in Seq(Char) /\ s \in Seq(Char) /\ GoesOn(s, t)
      /\ \A j \in 1 .. l : t[j] = s[j]
  BY <1>1, GrownPlaces
<1>3. PICK k \in Nat :
        /\ b < k /\ k < l /\ Digits(s, b, k) /\ s[k + 1] = Separator
        /\ \A j \in k + 1 .. l : s[j] # CR
        /\ c.current_chunk_size = NumberAt(s, b, k)
        /\ c.current_chunk_size_has_read = 0
  BY <1>1 DEF Where
<1>4. Digits(t, b, k) /\ NumberAt(t, b, k) = NumberAt(s, b, k)
  <2>1. b <= k /\ k <= Len(s)
    BY <1>1, <1>3
  <2> QED BY <1>2, <1>3, <2>1, DigitsGoOn
<1>5. t[k + 1] = Separator
  <2>1. k + 1 \in 1 .. l
    BY <1>3
  <2> QED BY <1>2, <1>3, <2>1
<1>6. \A j \in k + 1 .. l : t[j] # CR
  <2> SUFFICES ASSUME NEW j \in k + 1 .. l PROVE t[j] # CR
    OBVIOUS
  <2>1. j \in 1 .. l
    OBVIOUS
  <2> QED BY <1>2, <1>3, <2>1
<1>7. PICK d : d = Step(c, ch)
  OBVIOUS
<1>8. k < Len(t) /\ Len(t) - 1 = l
  BY <1>2, <1>3
<1>9. CASE ch = CR
  <2>1. d = [c EXCEPT !.state = "chunk_size_cr"]
    BY <1>7, <1>9 DEF Step
  <2>2. /\ d.state = "chunk_size_cr" /\ d.current_chunk_size = NumberAt(t, b, k)
        /\ d.current_chunk_size_has_read = 0
    BY <1>3, <1>4, <2>1 DEF Checker
  <2>3. t[Len(t)] = CR
    BY <1>2, <1>9
  <2>4. Where(d, t, b)
    BY <1>3, <1>4, <1>5, <1>6, <1>8, <2>2, <2>3 DEF Where
  <2> QED BY <1>7, <2>2, <2>4 DEF Outcome
<1>10. CASE ch # CR
  <2>1. d = c
    BY <1>7, <1>10 DEF Step
  <2>2. /\ d.state = "chunk_ext" /\ d.current_chunk_size = NumberAt(t, b, k)
        /\ d.current_chunk_size_has_read = 0
    BY <1>3, <1>4, <2>1
  <2>3. \A j \in k + 1 .. Len(t) : t[j] # CR
    <3>1. ASSUME NEW j \in k + 1 .. l + 1 PROVE t[j] # CR
      <4>1. j = l + 1 \/ j \in k + 1 .. l
        OBVIOUS
      <4> QED BY <1>2, <1>6, <1>10, <4>1
    <3> QED BY <1>2, <3>1
  <2>4. Where(d, t, b)
    BY <1>3, <1>4, <1>5, <1>8, <2>2, <2>3 DEF Where
  <2> QED BY <1>7, <2>2, <2>4 DEF Outcome
<1> QED BY <1>9, <1>10

\* From the CR of the line: its LF, or an error.
LEMMA StepFromSizeCR ==
  ASSUME NEW s, NEW t, NEW ch, Grown(s, t, ch), NEW b \in Nat, NEW c \in Checker,
         c.state = "chunk_size_cr", Where(c, s, b)
  PROVE  Outcome(Step(c, ch), t, b)
<1>1. PICK l \in Nat : l = Len(s)
  BY GrownPlaces
<1>2. /\ Len(t) = l + 1 /\ t[l + 1] = ch /\ t \in Seq(Char) /\ s \in Seq(Char) /\ GoesOn(s, t)
      /\ \A j \in 1 .. l : t[j] = s[j]
  BY <1>1, GrownPlaces
<1>3. PICK k \in Nat :
        /\ b < k /\ k < l /\ Digits(s, b, k)
        /\ k + 1 = l \/ s[k + 1] = Separator
        /\ \A j \in k + 1 .. l - 1 : s[j] # CR
        /\ s[l] = CR
        /\ c.current_chunk_size = NumberAt(s, b, k)
        /\ c.current_chunk_size_has_read = 0
  BY <1>1 DEF Where
<1>4. Digits(t, b, k) /\ NumberAt(t, b, k) = NumberAt(s, b, k)
  <2>1. b <= k /\ k <= Len(s)
    BY <1>1, <1>3
  <2> QED BY <1>2, <1>3, <2>1, DigitsGoOn
<1>5. (k + 1 = l \/ t[k + 1] = Separator) /\ t[l] = CR
  <2>1. k + 1 \in 1 .. l /\ l \in 1 .. l
    BY <1>3
  <2> QED BY <1>2, <1>3, <2>1
<1>6. \A j \in k + 1 .. l - 1 : t[j] # CR
  <2> SUFFICES ASSUME NEW j \in k + 1 .. l - 1 PROVE t[j] # CR
    OBVIOUS
  <2>1. j \in 1 .. l
    OBVIOUS
  <2> QED BY <1>2, <1>3, <2>1
<1>7. PICK d : d = Step(c, ch)
  OBVIOUS
<1>8. b < Len(t)
  BY <1>2, <1>3
<1>9. CASE ch = LF
  <2>1. d = [c EXCEPT !.state = AfterSizeLine(c)]
    BY <1>7, <1>9 DEF Step
  <2>2. /\ d.state = AfterSizeLine(c) /\ d.current_chunk_size = NumberAt(t, b, k)
        /\ d.current_chunk_size_has_read = 0
    BY <1>3, <1>4, <2>1 DEF Checker
  <2>3. LineUpTo(t, b, k, l + 1)
    <3>1. /\ b < k /\ k + 2 <= l + 1 /\ l + 1 <= Len(t) /\ (k + 2 = l + 1 <=> k + 1 = l)
          /\ (l + 1) - 2 = l - 1 /\ (l + 1) - 1 = l
      BY <1>2, <1>3
    <3> QED BY <1>2, <1>4, <1>5, <1>6, <1>9, <3>1 DEF LineUpTo
  <2>4. CASE c.current_chunk_size = 0
    <3>1. d.state = "chunk_last" /\ NumberAt(t, b, k) = 0
      BY <1>3, <1>4, <2>2, <2>4 DEF AfterSizeLine
    <3>2. Where(d, t, b)
      BY <1>2, <2>3, <3>1 DEF Where
    <3> QED BY <1>7, <3>1, <3>2 DEF Outcome
  <2>5. CASE c.current_chunk_size # 0
    <3>1. d.state = "chunk_data" /\ d.current_chunk_size # 0
      BY <1>3, <1>4, <2>2, <2>5 DEF AfterSizeLine
    <3>2. Len(t) = (l + 1) + d.current_chunk_size_has_read /\ l + 1 \in Nat
      BY <1>2, <2>2
    <3>3. Where(d, t, b)
      BY <2>2, <2>3, <3>1, <3>2 DEF Where
    <3> QED BY <1>7, <3>1, <3>3 DEF Outcome
  <2> QED BY <2>4, <2>5
<1>10. CASE ch # LF
  <2>1. d = [c EXCEPT !.state = "chunk_check_failed"]
    BY <1>7, <1>10 DEF Step
  <2>2. Dead(t, b)
    BY <1>2, <1>3, <1>4, <1>5, <1>6, <1>10, DeadAfterCR
  <2>3. d.state = "chunk_check_failed"
    BY <2>1 DEF Checker
  <2>4. Where(d, t, b)
    BY <1>8, <2>1, <2>2, FailedThere
  <2> QED BY <1>7, <2>3, <2>4 DEF Outcome
<1> QED BY <1>9, <1>10

\* A line stays where it is, and so does its number.
LEMMA LineStays ==
  ASSUME NEW s \in Seq(Char), NEW t \in Seq(Char), GoesOn(s, t),
         NEW b \in Nat, NEW k \in Nat, NEW e \in Nat, LineUpTo(s, b, k, e)
  PROVE  /\ LineUpTo(t, b, k, e) /\ NumberAt(t, b, k) = NumberAt(s, b, k)
         /\ NumberAt(s, b, k) \in Nat /\ b < e /\ e <= Len(s)
<1>1. b < k /\ k + 2 <= e /\ e <= Len(s) /\ Digits(s, b, k)
  BY DEF LineUpTo
<1>2. PICK l \in Nat : l = Len(s)
  BY LenProperties
<1>3. b <= k /\ k <= Len(s) /\ b < e
  BY <1>1, <1>2
<1>4. LineUpTo(t, b, k, e)
  BY <1>1, LineGoesOn
<1> QED BY <1>1, <1>3, <1>4, DigitsGoOn

\* From the bytes of a chunk: one more, CR behind the last, or an error.
LEMMA StepFromData ==
  ASSUME NEW s, NEW t, NEW ch, Grown(s, t, ch), NEW b \in Nat, NEW c \in Checker,
         c.state = "chunk_data", Where(c, s, b),
         c.current_chunk_size_has_read <= c.current_chunk_size
  PROVE  Outcome(Step(c, ch), t, b)
<1>1. PICK l \in Nat : l = Len(s)
  BY GrownPlaces
<1>2. /\ Len(t) = l + 1 /\ t[l + 1] = ch /\ t \in Seq(Char) /\ s \in Seq(Char) /\ GoesOn(s, t)
  BY <1>1, GrownPlaces
<1>3. PICK k \in Nat, e \in Nat :
        /\ LineUpTo(s, b, k, e)
        /\ c.current_chunk_size = NumberAt(s, b, k) /\ c.current_chunk_size # 0
        /\ l = e + c.current_chunk_size_has_read
  BY <1>1 DEF Where
<1>4. PICK n \in Nat, r \in Nat :
        n = c.current_chunk_size /\ r = c.current_chunk_size_has_read /\ r <= n
  BY ChunkAssumption DEF Checker
<1>5. LineUpTo(t, b, k, e) /\ NumberAt(t, b, k) = n /\ b < e
  BY <1>2, <1>3, <1>4, LineStays
<1>6. PICK d : d = Step(c, ch)
  OBVIOUS
<1>7. b < Len(t) /\ Len(t) = e + r + 1
  BY <1>2, <1>3, <1>4, <1>5
<1>8. DataRemains(c) <=> r < n
  BY <1>4 DEF DataRemains
<1>9. CASE r < n
  <2>1. d = [c EXCEPT !.current_chunk_size_has_read = @ + 1]
    BY <1>6, <1>8, <1>9 DEF Step
  <2>2. d.state = "chunk_data" /\ d.current_chunk_size = n /\ d.current_chunk_size_has_read = r + 1
    BY <1>4, <2>1 DEF Checker
  <2>3. Len(t) = e + d.current_chunk_size_has_read
    BY <1>7, <2>2
  <2>4. Where(d, t, b)
    BY <1>3, <1>4, <1>5, <2>2, <2>3 DEF Where
  <2> QED BY <1>6, <2>2, <2>4 DEF Outcome
<1>10. CASE r = n /\ ch = CR
  <2>1. d = [c EXCEPT !.state = "chunk_data_cr"]
    BY <1>6, <1>8, <1>10 DEF Step
  <2>2. d.state = "chunk_data_cr" /\ d.current_chunk_size = n
    BY <1>4, <2>1 DEF Checker
  <2>3. Len(t) = e + d.current_chunk_size + 1 /\ t[Len(t)] = CR
    BY <1>2, <1>7, <1>10, <2>2
  <2>4. Where(d, t, b)
    BY <1>3, <1>4, <1>5, <2>2, <2>3 DEF Where
  <2> QED BY <1>6, <2>2, <2>4 DEF Outcome
<1>11. CASE r = n /\ ch # CR
  <2>1. d = [c EXCEPT !.state = "chunk_check_failed"]
    BY <1>6, <1>8, <1>11 DEF Step
  <2>2. Dead(t, b)
    <3>1. Len(t) = e + n + 1 /\ e + n + 1 = l + 1
      BY <1>2, <1>7, <1>11
    <3>2. t[e + n + 1] # CR
      BY <1>2, <1>11, <3>1
    <3> QED BY <1>2, <1>5, <3>1, <3>2, DeadAfterData
  <2>3. d.state = "chunk_check_failed"
    BY <2>1 DEF Checker
  <2>4. Where(d, t, b)
    BY <1>7, <2>1, <2>2, FailedThere
  <2> QED BY <1>6, <2>3, <2>4 DEF Outcome
<1> QED BY <1>4, <1>9, <1>10, <1>11

\* From the CR behind the bytes: the end of the chunk, or an error.
LEMMA StepFromDataCR ==
  ASSUME NEW s, NEW t, NEW ch, Grown(s, t, ch), NEW b \in Nat, NEW c \in Checker,
         c.state = "chunk_data_cr", Where(c, s, b)
  PROVE  Outcome(Step(c, ch), t, b)
<1>1. PICK l \in Nat : l = Len(s)
  BY GrownPlaces
<1>2. /\ Len(t) = l + 1 /\ t[l + 1] = ch /\ t \in Seq(Char) /\ s \in Seq(Char) /\ GoesOn(s, t)
      /\ \A j \in 1 .. l : t[j] = s[j]
  BY <1>1, GrownPlaces
<1>3. PICK k \in Nat, e \in Nat :
        /\ LineUpTo(s, b, k, e)
        /\ c.current_chunk_size = NumberAt(s, b, k) /\ c.current_chunk_size # 0
        /\ l = e + c.current_chunk_size + 1
        /\ s[l] = CR
  BY <1>1 DEF Where
<1>4. PICK n \in Nat : n = c.current_chunk_size
  BY ChunkAssumption DEF Checker
<1>5. LineUpTo(t, b, k, e) /\ NumberAt(t, b, k) = n /\ b < e
  BY <1>2, <1>3, <1>4, LineStays
<1>6. PICK d : d = Step(c, ch)
  OBVIOUS
<1>7. b < Len(t) /\ Len(t) = e + n + 2 /\ l = e + n + 1 /\ l + 1 = e + n + 2 /\ n \in Nat \ {0}
  BY <1>2, <1>3, <1>4, <1>5
<1>8. t[e + n + 1] = CR
  <2>1. l \in 1 .. l
    BY <1>7
  <2>2. t[l] = CR
    BY <1>2, <1>3, <2>1
  <2> QED BY <1>7, <2>2
<1>9. CASE ch = LF
  <2>1. d = [c EXCEPT !.state = "chunk_size_start"]
    BY <1>6, <1>9 DEF Step
  <2>2. d.state = "chunk_size_start"
    BY <2>1 DEF Checker
  <2>3. t[e + n + 2] = LF /\ e + n + 2 <= Len(t)
    BY <1>2, <1>7, <1>9
  <2>4. PieceAt(t, b, k, e, n)
    BY <1>5, <1>8, <2>3 DEF PieceAt
  <2>5. EndsAt(t, b, Len(t), n)
    BY <1>7, <2>4 DEF EndsAt
  <2> QED BY <1>6, <1>7, <2>2, <2>5 DEF Outcome
<1>10. CASE ch # LF
  <2>1. d = [c EXCEPT !.state = "chunk_check_failed"]
    BY <1>6, <1>10 DEF Step
  <2>2. t[e + n + 2] # LF
    BY <1>2, <1>7, <1>10
  <2>3. Dead(t, b)
    BY <1>2, <1>5, <1>7, <2>2, DeadAfterDataCR
  <2>4. d.state = "chunk_check_failed"
    BY <2>1 DEF Checker
  <2>5. Where(d, t, b)
    BY <1>7, <2>1, <2>3, FailedThere
  <2> QED BY <1>6, <2>4, <2>5 DEF Outcome
<1> QED BY <1>9, <1>10

\* From the line of the last chunk: CR, or an error.
LEMMA StepFromLast ==
  ASSUME NEW s, NEW t, NEW ch, Grown(s, t, ch), NEW b \in Nat, NEW c \in Checker,
         c.state = "chunk_last", Where(c, s, b)
  PROVE  Outcome(Step(c, ch), t, b)
<1>1. PICK l \in Nat : l = Len(s)
  BY GrownPlaces
<1>2. /\ Len(t) = l + 1 /\ t[l + 1] = ch /\ t \in Seq(Char) /\ s \in Seq(Char) /\ GoesOn(s, t)
  BY <1>1, GrownPlaces
<1>3. PICK k \in Nat : LineUpTo(s, b, k, l) /\ NumberAt(s, b, k) = 0
  BY <1>1 DEF Where
<1>4. LineUpTo(t, b, k, l) /\ NumberAt(t, b, k) = 0 /\ b < l
  BY <1>2, <1>3, LineStays
<1>5. PICK d : d = Step(c, ch)
  OBVIOUS
<1>6. b < Len(t) /\ Len(t) = l + 0 + 1 /\ l + 0 + 1 = l + 1
  BY <1>2, <1>4
<1>7. CASE ch = CR
  <2>1. d = [c EXCEPT !.state = "chunk_last_cr"]
    BY <1>5, <1>7 DEF Step
  <2>2. d.state = "chunk_last_cr"
    BY <2>1 DEF Checker
  <2>3. t[Len(t)] = CR
    BY <1>2, <1>7
  <2>4. Where(d, t, b)
    BY <1>2, <1>4, <2>2, <2>3 DEF Where
  <2> QED BY <1>5, <2>2, <2>4 DEF Outcome
<1>8. CASE ch # CR
  <2>1. d = [c EXCEPT !.state = "chunk_check_failed"]
    BY <1>5, <1>8 DEF Step
  <2>2. t[l + 0 + 1] # CR
    BY <1>2, <1>6, <1>8
  <2>3. Dead(t, b)
    BY <1>2, <1>4, <1>6, <2>2, DeadAfterData
  <2>4. d.state = "chunk_check_failed"
    BY <2>1 DEF Checker
  <2>5. Where(d, t, b)
    BY <1>6, <2>1, <2>3, FailedThere
  <2> QED BY <1>5, <2>4, <2>5 DEF Outcome
<1> QED BY <1>7, <1>8

\* From the CR of the last chunk: its end, or an error.
LEMMA StepFromLastCR ==
  ASSUME NEW s, NEW t, NEW ch, Grown(s, t, ch), NEW b \in Nat, NEW c \in Checker,
         c.state = "chunk_last_cr", Where(c, s, b)
  PROVE  Outcome(Step(c, ch), t, b)
<1>1. PICK l \in Nat : l = Len(s)
  BY GrownPlaces
<1>2. /\ Len(t) = l + 1 /\ t[l + 1] = ch /\ t \in Seq(Char) /\ s \in Seq(Char) /\ GoesOn(s, t)
      /\ \A j \in 1 .. l : t[j] = s[j]
  BY <1>1, GrownPlaces
<1>3. PICK k \in Nat, e \in Nat :
        LineUpTo(s, b, k, e) /\ NumberAt(s, b, k) = 0 /\ l = e + 1 /\ s[l] = CR
  BY <1>1 DEF Where
<1>4. LineUpTo(t, b, k, e) /\ NumberAt(t, b, k) = 0 /\ b < e
  BY <1>2, <1>3, LineStays
<1>5. PICK d : d = Step(c, ch)
  OBVIOUS
<1>6. b < Len(t) /\ Len(t) = e + 0 + 2 /\ l + 1 = e + 0 + 2 /\ l = e + 0 + 1
  BY <1>2, <1>3, <1>4
<1>7. t[e + 0 + 1] = CR
  <2>1. l \in 1 .. l
    BY <1>3
  <2>2. t[l] = CR
    BY <1>2, <1>3, <2>1
  <2> QED BY <1>6, <2>2
<1>8. CASE ch = LF
  <2>1. d = [c EXCEPT !.state = "chunk_complete"]
    BY <1>5, <1>8 DEF Step
  <2>2. d.state = "chunk_complete"
    BY <2>1 DEF Checker
  <2>3. t[e + 0 + 2] = LF /\ e + 0 + 2 <= Len(t)
    BY <1>2, <1>6, <1>8
  <2>4. PieceAt(t, b, k, e, 0)
    BY <1>4, <1>7, <2>3 DEF PieceAt
  <2>5. EndsAt(t, b, Len(t), 0)
    BY <1>6, <2>4 DEF EndsAt
  <2>6. Where(d, t, b)
    BY <2>2, <2>5 DEF Where
  <2> QED BY <1>5, <2>2, <2>6 DEF Outcome
<1>9. CASE ch # LF
  <2>1. d = [c EXCEPT !.state = "chunk_check_failed"]
    BY <1>5, <1>9 DEF Step
  <2>2. t[e + 0 + 2] # LF
    BY <1>2, <1>6, <1>9
  <2>3. Dead(t, b)
    BY <1>2, <1>4, <1>6, <2>2, DeadAfterDataCR
  <2>4. d.state = "chunk_check_failed"
    BY <2>1 DEF Checker
  <2>5. Where(d, t, b)
    BY <1>6, <2>1, <2>3, FailedThere
  <2> QED BY <1>5, <2>4, <2>5 DEF Outcome
<1> QED BY <1>8, <1>9

\* From the end of a body everything is an error.
LEMMA StepFromComplete ==
  ASSUME NEW s, NEW t, NEW ch, Grown(s, t, ch), NEW b \in Nat, NEW c \in Checker,
         c.state = "chunk_complete", Where(c, s, b), b <= Len(s)
  PROVE  Outcome(Step(c, ch), t, b)
<1>1. /\ Len(s) \in Nat /\ Len(t) = Len(s) + 1
      /\ t \in Seq(Char) /\ s \in Seq(Char) /\ GoesOn(s, t)
  BY GrownPlaces
<1>2. PICK d : d = Step(c, ch)
  OBVIOUS
<1>3. d = [c EXCEPT !.state = "chunk_check_failed"]
  BY <1>2 DEF Step
<1>4. Dead(t, b)
  <2>1. EndsAt(s, b, Len(s), 0) /\ 0 \in Nat
    BY DEF Where
  <2> QED BY <1>1, <2>1, DeadAfterPiece
<1>5. d.state = "chunk_check_failed" /\ b < Len(t)
  BY <1>1, <1>3 DEF Checker
<1>6. Where(d, t, b)
  BY <1>3, <1>4, <1>5, FailedThere
<1> QED BY <1>2, <1>5, <1>6 DEF Outcome

\* From every state that has not failed.
LEMMA StepLeads ==
  ASSUME NEW s, NEW t, NEW ch, Grown(s, t, ch), NEW b \in Nat, b <= Len(s), NEW c \in Checker,
         Where(c, s, b), Fits(t, b), ~IsFail(c),
         c.current_chunk_size_has_read <= c.current_chunk_size
  PROVE  Outcome(Step(c, ch), t, b)
<1>1. c.state \in State \ {"chunk_check_failed"}
  BY DEF Checker, IsFail
<1>2. CASE c.state = "chunk_size_start"
  BY <1>2, StepFromStart
<1>3. CASE c.state = "chunk_size"
  BY <1>3, StepFromSize
<1>4. CASE c.state = "chunk_ext"
  BY <1>4, StepFromExt
<1>5. CASE c.state = "chunk_size_cr"
  BY <1>5, StepFromSizeCR
<1>6. CASE c.state = "chunk_data"
  BY <1>6, StepFromData
<1>7. CASE c.state = "chunk_data_cr"
  BY <1>7, StepFromDataCR
<1>8. CASE c.state = "chunk_last"
  BY <1>8, StepFromLast
<1>9. CASE c.state = "chunk_last_cr"
  BY <1>9, StepFromLastCR
<1>10. CASE c.state = "chunk_complete"
  BY <1>10, StepFromComplete
<1> QED BY <1>1, <1>2, <1>3, <1>4, <1>5, <1>6, <1>7, <1>8, <1>9, <1>10 DEF State

----------------------------------------------------------------------------
(* A piece that has not failed can be gone on with.                        *)

\* One of the ends makes a piece of what is after b.
CanGoOn(s, b) ==
  \E x \in Ends, n \in Nat :
    /\ x \in Seq(Char) /\ Len(x) > 0
    /\ EndsAt(s \o x, b, Len(s \o x), n)

\* n bytes and CRLF, as Ends has them.
Filled(n) == [i \in 1 .. n |-> OtherChar] \o <<CR, LF>>

\* What is behind a text.
LEMMA Behind ==
  ASSUME NEW s \in Seq(Char), NEW x \in Seq(Char)
  PROVE  /\ s \o x \in Seq(Char) /\ GoesOn(s, s \o x) /\ Len(s \o x) = Len(s) + Len(x)
         /\ \A j \in 1 .. Len(x) : (s \o x)[Len(s) + j] = x[j]
<1>1. PICK l \in Nat, m \in Nat : l = Len(s) /\ m = Len(x)
  BY LenProperties
<1>2. /\ s \o x \in Seq(Char) /\ Len(s \o x) = Len(s) + Len(x)
      /\ \A i \in 1 .. Len(s) + Len(x) :
           (s \o x)[i] = IF i <= Len(s) THEN s[i] ELSE x[i - Len(s)]
  BY ConcatProperties
<1>3. PICK t : t = s \o x
  OBVIOUS
<1>4. t \in Seq(Char) /\ Len(t) = l + m /\ \A i \in 1 .. l + m : t[i] = IF i <= l THEN s[i] ELSE x[i - l]
  BY <1>1, <1>2, <1>3
<1>5. \A j \in 1 .. l : t[j] = s[j]
  <2> SUFFICES ASSUME NEW j \in 1 .. l PROVE t[j] = s[j]
    OBVIOUS
  <2>1. j \in 1 .. l + m /\ j <= l
    OBVIOUS
  <2> QED BY <1>4, <2>1
<1>6. \A j \in 1 .. m : t[l + j] = x[j]
  <2> SUFFICES ASSUME NEW j \in 1 .. m PROVE t[l + j] = x[j]
    OBVIOUS
  <2>1. l + j \in 1 .. l + m /\ ~ (l + j <= l) /\ (l + j) - l = j
    OBVIOUS
  <2> QED BY <1>4, <2>1
<1>7. l <= l + m
  OBVIOUS
<1> QED BY <1>1, <1>3, <1>4, <1>5, <1>6, <1>7 DEF GoesOn

\* Bytes and CRLF behind them.
LEMMA FilledIs ==
  ASSUME NEW n \in Nat
  PROVE  /\ Filled(n) \in Seq(Char) /\ Len(Filled(n)) = n + 2
         /\ Filled(n)[n + 1] = CR /\ Filled(n)[n + 2] = LF
<1>1. OtherChar \in Char /\ CR \in Char /\ LF \in Char
  BY Characters
<1>2. PICK d : d = [i \in 1 .. n |-> OtherChar]
  OBVIOUS
<1>3. d \in Seq(Char) /\ Len(d) = n
  BY <1>1, <1>2
<1>4. PICK c \in Seq(Char) : c = <<CR, LF>>
  <2>1. <<CR, LF>> \in Seq(Char)
    BY <1>1
  <2> QED BY <2>1
<1>5. Len(c) = 2 /\ c[1] = CR /\ c[2] = LF
  BY <1>4
<1>6. /\ d \o c \in Seq(Char) /\ Len(d \o c) = Len(d) + Len(c)
      /\ \A j \in 1 .. Len(c) : (d \o c)[Len(d) + j] = c[j]
  BY <1>3, Behind
<1>7. d \o c = Filled(n)
  BY <1>2, <1>4 DEF Filled
<1>8. 1 \in 1 .. Len(c) /\ 2 \in 1 .. Len(c)
  BY <1>5
<1> QED BY <1>3, <1>5, <1>6, <1>7, <1>8

\* The ends that are used below.
LEMMA EndsHave ==
  /\ <<>> \in Ends /\ <<LF>> \in Ends
  /\ \A n \in 0 .. Modulus - 1 :
       Filled(n) \in Ends /\ <<CR, LF>> \o Filled(n) \in Ends /\ <<LF>> \o Filled(n) \in Ends
BY DEF Ends, Filled

\* The same behind what is left of a line.
LEMMA FilledBehind ==
  ASSUME NEW n \in Nat, NEW p \in Seq(Char), NEW m \in Nat, m = Len(p)
  PROVE  /\ p \o Filled(n) \in Seq(Char) /\ Len(p \o Filled(n)) = m + n + 2
         /\ \A j \in 1 .. m : (p \o Filled(n))[j] = p[j]
         /\ (p \o Filled(n))[m + n + 1] = CR /\ (p \o Filled(n))[m + n + 2] = LF
<1>1. PICK f \in Seq(Char) : f = Filled(n)
  BY FilledIs
<1>2. Len(f) = n + 2 /\ f[n + 1] = CR /\ f[n + 2] = LF
  BY <1>1, FilledIs
<1>3. PICK t : t = p \o f
  OBVIOUS
<1>4. /\ t \in Seq(Char) /\ GoesOn(p, t) /\ Len(t) = m + Len(f)
      /\ \A j \in 1 .. Len(f) : t[m + j] = f[j]
  BY <1>3, Behind
<1>5. n + 1 \in 1 .. Len(f) /\ n + 2 \in 1 .. Len(f) /\ m + (n + 1) = m + n + 1
      /\ m + (n + 2) = m + n + 2
  BY <1>2
<1>6. Len(t) = m + n + 2
  BY <1>2, <1>4
<1>7. t[m + n + 1] = CR /\ t[m + n + 2] = LF
  <2>1. t[m + (n + 1)] = f[n + 1] /\ t[m + (n + 2)] = f[n + 2]
    BY <1>4, <1>5
  <2> QED BY <1>2, <1>5, <2>1
<1>8. \A j \in 1 .. m : t[j] = p[j]
  BY <1>4 DEF GoesOn
<1> QED BY <1>1, <1>3, <1>4, <1>6, <1>7, <1>8

\* In the line, before its CR.
LEMMA GoOnInLine ==
  ASSUME NEW s \in Seq(Char), NEW b \in Nat, NEW k \in Nat, b < k, k <= Len(s), Digits(s, b, k),
         k = Len(s) \/ s[k + 1] = Separator, \A j \in k + 1 .. Len(s) : s[j] # CR,
         NumberAt(s, b, k) < Modulus
  PROVE  CanGoOn(s, b)
<1>1. PICK l \in Nat : l = Len(s)
  BY LenProperties
<1>2. PICK n \in Nat : n = NumberAt(s, b, k)
  BY NumberAtIsNat
<1>3. PICK p \in Seq(Char) : p = <<CR, LF>> /\ Len(p) = 2 /\ p[1] = CR /\ p[2] = LF
  <2>1. CR \in Char /\ LF \in Char
    BY Characters
  <2>2. <<CR, LF>> \in Seq(Char) /\ Len(<<CR, LF>>) = 2
    BY <2>1
  <2> QED BY <2>2
<1>4. PICK x : x = p \o Filled(n)
  OBVIOUS
<1>5. /\ x \in Seq(Char) /\ Len(x) = 2 + n + 2
      /\ x[2 + n + 1] = CR /\ x[2 + n + 2] = LF
      /\ \A j \in 1 .. 2 : x[j] = p[j]
  <2>1. PICK m \in Nat : m = Len(p) /\ m = 2
    BY <1>3
  <2>2. /\ p \o Filled(n) \in Seq(Char) /\ Len(p \o Filled(n)) = m + n + 2
        /\ \A j \in 1 .. m : (p \o Filled(n))[j] = p[j]
        /\ (p \o Filled(n))[m + n + 1] = CR /\ (p \o Filled(n))[m + n + 2] = LF
    BY <2>1, FilledBehind
  <2> QED BY <1>4, <2>1, <2>2
<1>6. x \in Ends
  <2>1. n \in 0 .. Modulus - 1
    BY <1>2, ChunkAssumption
  <2> QED BY <1>3, <1>4, <2>1, EndsHave
<1>7. x[1] = CR /\ x[2] = LF
  <2>1. 1 \in 1 .. 2 /\ 2 \in 1 .. 2
    OBVIOUS
  <2> QED BY <1>3, <1>5, <2>1
<1>8. PICK t : t = s \o x
  OBVIOUS
<1>9. /\ t \in Seq(Char) /\ GoesOn(s, t) /\ Len(t) = l + Len(x)
      /\ \A j \in 1 .. Len(x) : t[l + j] = x[j]
  BY <1>1, <1>5, <1>8, Behind
<1>10. Len(t) = (l + 2) + n + 2 /\ Len(x) > 0
  BY <1>5, <1>9
<1>11. /\ t[l + 1] = CR /\ t[l + 2] = LF
       /\ t[(l + 2) + n + 1] = CR /\ t[(l + 2) + n + 2] = LF
  <2>1. /\ 1 \in 1 .. Len(x) /\ 2 \in 1 .. Len(x)
        /\ 2 + n + 1 \in 1 .. Len(x) /\ 2 + n + 2 \in 1 .. Len(x)
    BY <1>5
  <2>2. l + (2 + n + 1) = (l + 2) + n + 1 /\ l + (2 + n + 2) = (l + 2) + n + 2
    OBVIOUS
  <2>3. /\ t[l + 1] = x[1] /\ t[l + 2] = x[2] /\ t[l + (2 + n + 1)] = x[2 + n + 1]
        /\ t[l + (2 + n + 2)] = x[2 + n + 2]
    BY <1>9, <2>1
  <2> QED BY <1>5, <1>7, <2>2, <2>3
<1>12. Digits(t, b, k) /\ NumberAt(t, b, k) = n
  <2>1. b <= k
    OBVIOUS
  <2> QED BY <1>2, <1>9, <2>1, DigitsGoOn
<1>13. \A j \in 1 .. l : t[j] = s[j]
  BY <1>1, <1>9 DEF GoesOn
<1>14. k + 2 = l + 2 \/ t[k + 1] = Separator
  <2>1. k # l => k + 1 \in 1 .. l
    BY <1>1
  <2> QED BY <1>1, <1>13, <2>1
<1>15. ASSUME NEW j \in k + 1 .. (l + 2) - 2 PROVE t[j] # CR
  <2>1. j \in 1 .. l /\ j \in k + 1 .. l
    BY <1>1
  <2> QED BY <1>1, <1>13, <2>1
<1>16. LineUpTo(t, b, k, l + 2)
  <2>1. k + 2 <= l + 2 /\ l + 2 <= Len(t) /\ (l + 2) - 1 = l + 1
    BY <1>1, <1>10
  <2> QED BY <1>11, <1>12, <1>14, <1>15, <2>1 DEF LineUpTo
<1>17. PieceAt(t, b, k, l + 2, n)
  <2>1. (l + 2) + n + 2 <= Len(t)
    BY <1>10
  <2> QED BY <1>11, <1>12, <1>16, <2>1 DEF PieceAt
<1>18. EndsAt(t, b, Len(t), n)
  <2>1. l + 2 \in Nat
    OBVIOUS
  <2> QED BY <1>10, <1>17, <2>1 DEF EndsAt
<1> QED BY <1>5, <1>6, <1>8, <1>10, <1>18 DEF CanGoOn

\* Between the CR and the LF of the line.
LEMMA GoOnAfterCR ==
  ASSUME NEW s \in Seq(Char), NEW b \in Nat, NEW k \in Nat, b < k, k < Len(s), Digits(s, b, k),
         k + 1 = Len(s) \/ s[k + 1] = Separator, \A j \in k + 1 .. Len(s) - 1 : s[j] # CR,
         s[Len(s)] = CR, NumberAt(s, b, k) < Modulus
  PROVE  CanGoOn(s, b)
<1>1. PICK l \in Nat : l = Len(s)
  BY LenProperties
<1>2. PICK n \in Nat : n = NumberAt(s, b, k)
  <2>1. b <= k /\ k <= Len(s)
    BY <1>1
  <2> QED BY <2>1, NumberAtIsNat
<1>3. PICK p \in Seq(Char) : p = <<LF>> /\ Len(p) = 1 /\ p[1] = LF
  <2>1. LF \in Char
    BY Characters
  <2>2. <<LF>> \in Seq(Char) /\ Len(<<LF>>) = 1
    BY <2>1
  <2> QED BY <2>2
<1>4. PICK x : x = p \o Filled(n)
  OBVIOUS
<1>5. /\ x \in Seq(Char) /\ Len(x) = 1 + n + 2
      /\ x[1 + n + 1] = CR /\ x[1 + n + 2] = LF
      /\ \A j \in 1 .. 1 : x[j] = p[j]
  <2>1. PICK m \in Nat : m = Len(p) /\ m = 1
    BY <1>3
  <2>2. /\ p \o Filled(n) \in Seq(Char) /\ Len(p \o Filled(n)) = m + n + 2
        /\ \A j \in 1 .. m : (p \o Filled(n))[j] = p[j]
        /\ (p \o Filled(n))[m + n + 1] = CR /\ (p \o Filled(n))[m + n + 2] = LF
    BY <2>1, FilledBehind
  <2> QED BY <1>4, <2>1, <2>2
<1>6. x \in Ends
  <2>1. n \in 0 .. Modulus - 1
    BY <1>2, ChunkAssumption
  <2> QED BY <1>3, <1>4, <2>1, EndsHave
<1>7. x[1] = LF
  <2>1. 1 \in 1 .. 1
    OBVIOUS
  <2> QED BY <1>3, <1>5, <2>1
<1>8. PICK t : t = s \o x
  OBVIOUS
<1>9. /\ t \in Seq(Char) /\ GoesOn(s, t) /\ Len(t) = l + Len(x)
      /\ \A j \in 1 .. Len(x) : t[l + j] = x[j]
  BY <1>1, <1>5, <1>8, Behind
<1>10. Len(t) = (l + 1) + n + 2 /\ Len(x) > 0
  BY <1>5, <1>9
<1>11. t[l + 1] = LF /\ t[(l + 1) + n + 1] = CR /\ t[(l + 1) + n + 2] = LF
  <2>1. 1 \in 1 .. Len(x) /\ 1 + n + 1 \in 1 .. Len(x) /\ 1 + n + 2 \in 1 .. Len(x)
    BY <1>5
  <2>2. l + (1 + n + 1) = (l + 1) + n + 1 /\ l + (1 + n + 2) = (l + 1) + n + 2
    OBVIOUS
  <2>3. /\ t[l + 1] = x[1] /\ t[l + (1 + n + 1)] = x[1 + n + 1]
        /\ t[l + (1 + n + 2)] = x[1 + n + 2]
    BY <1>9, <2>1
  <2> QED BY <1>5, <1>7, <2>2, <2>3
<1>12. Digits(t, b, k) /\ NumberAt(t, b, k) = n
  <2>1. b <= k /\ k <= Len(s)
    BY <1>1
  <2> QED BY <1>2, <1>9, <2>1, DigitsGoOn
<1>13. \A j \in 1 .. l : t[j] = s[j]
  BY <1>1, <1>9 DEF GoesOn
<1>14. (k + 2 = l + 1 \/ t[k + 1] = Separator) /\ t[l] = CR
  <2>3. k < l
    BY <1>1
  <2>1. k + 1 \in 1 .. l /\ l \in 1 .. l /\ (k + 1 = l => k + 2 = l + 1)
    BY <2>3
  <2>2. t[k + 1] = s[k + 1] /\ t[l] = s[l]
    BY <1>13, <2>1
  <2> QED BY <1>1, <2>1, <2>2
<1>15. ASSUME NEW j \in k + 1 .. (l + 1) - 2 PROVE t[j] # CR
  <2>1. j \in 1 .. l /\ j \in k + 1 .. l - 1
    BY <1>1
  <2> QED BY <1>1, <1>13, <2>1
<1>16. LineUpTo(t, b, k, l + 1)
  <2>1. k + 2 <= l + 1 /\ l + 1 <= Len(t) /\ (l + 1) - 1 = l
    BY <1>1, <1>10
  <2> QED BY <1>11, <1>12, <1>14, <1>15, <2>1 DEF LineUpTo
<1>17. PieceAt(t, b, k, l + 1, n)
  <2>1. (l + 1) + n + 2 <= Len(t)
    BY <1>10
  <2> QED BY <1>11, <1>12, <1>16, <2>1 DEF PieceAt
<1>18. EndsAt(t, b, Len(t), n)
  <2>1. l + 1 \in Nat
    OBVIOUS
  <2> QED BY <1>10, <1>17, <2>1 DEF EndsAt
<1> QED BY <1>5, <1>6, <1>8, <1>10, <1>18 DEF CanGoOn

\* In the bytes of the piece, or behind them.
LEMMA GoOnInData ==
  ASSUME NEW s \in Seq(Char), NEW b \in Nat, NEW k \in Nat, NEW e \in Nat, LineUpTo(s, b, k, e),
         NEW n \in 0 .. Modulus - 1, n = NumberAt(s, b, k), NEW r \in 0 .. n, Len(s) = e + r
  PROVE  CanGoOn(s, b)
<1>1. PICK l \in Nat : l = Len(s) /\ l = e + r
  BY LenProperties
<1>2. PICK o \in Nat : o = n - r
  OBVIOUS
<1>3. o \in 0 .. Modulus - 1 /\ n \in Nat
  BY <1>2, ChunkAssumption
<1>4. PICK x : x = Filled(o)
  OBVIOUS
<1>5. x \in Seq(Char) /\ Len(x) = o + 2 /\ x[o + 1] = CR /\ x[o + 2] = LF /\ x \in Ends
  BY <1>3, <1>4, FilledIs, EndsHave
<1>6. PICK t : t = s \o x
  OBVIOUS
<1>7. /\ t \in Seq(Char) /\ GoesOn(s, t) /\ Len(t) = l + Len(x)
      /\ \A j \in 1 .. Len(x) : t[l + j] = x[j]
  <2>1. PICK h \in Nat : h = Len(s) /\ h = l
    BY <1>1
  <2>2. /\ s \o x \in Seq(Char) /\ GoesOn(s, s \o x) /\ Len(s \o x) = Len(s) + Len(x)
        /\ \A j \in 1 .. Len(x) : (s \o x)[Len(s) + j] = x[j]
    BY <1>5, Behind
  <2>3. /\ s \o x \in Seq(Char) /\ GoesOn(s, s \o x) /\ Len(s \o x) = h + Len(x)
        /\ \A j \in 1 .. Len(x) : (s \o x)[h + j] = x[j]
    BY <2>1, <2>2
  <2> QED BY <1>6, <2>1, <2>3
<1>8. Len(t) = e + n + 2 /\ Len(x) > 0
  <2>1. l + (o + 2) = e + n + 2
    BY <1>1, <1>2
  <2> QED BY <1>5, <1>7, <2>1
<1>9. t[e + n + 1] = CR /\ t[e + n + 2] = LF
  <2>1. o + 1 \in 1 .. Len(x) /\ o + 2 \in 1 .. Len(x)
    BY <1>5
  <2>2. l + (o + 1) = e + n + 1 /\ l + (o + 2) = e + n + 2
    BY <1>1, <1>2
  <2>3. t[l + (o + 1)] = x[o + 1] /\ t[l + (o + 2)] = x[o + 2]
    BY <1>7, <2>1
  <2> QED BY <1>5, <2>2, <2>3
<1>10. LineUpTo(t, b, k, e) /\ NumberAt(t, b, k) = n
  BY <1>7, LineStays
<1>11. PieceAt(t, b, k, e, n)
  <2>1. e + n + 2 <= Len(t)
    BY <1>3, <1>8
  <2> QED BY <1>9, <1>10, <2>1 DEF PieceAt
<1>12. EndsAt(t, b, Len(t), n)
  BY <1>8, <1>11 DEF EndsAt
<1> QED BY <1>3, <1>5, <1>6, <1>8, <1>12 DEF CanGoOn

\* Between the CR and the LF behind them.
LEMMA GoOnAfterDataCR ==
  ASSUME NEW s \in Seq(Char), NEW b \in Nat, NEW k \in Nat, NEW e \in Nat, LineUpTo(s, b, k, e),
         NEW n \in Nat, n = NumberAt(s, b, k), Len(s) = e + n + 1, s[e + n + 1] = CR
  PROVE  CanGoOn(s, b)
<1>1. PICK l \in Nat : l = Len(s) /\ l = e + n + 1
  BY LenProperties
<1>2. PICK x \in Seq(Char) : x = <<LF>> /\ Len(x) = 1 /\ x[1] = LF
  <2>1. LF \in Char
    BY Characters
  <2>2. <<LF>> \in Seq(Char) /\ Len(<<LF>>) = 1
    BY <2>1
  <2> QED BY <2>2
<1>3. x \in Ends
  BY <1>2, EndsHave
<1>4. PICK t : t = s \o x
  OBVIOUS
<1>5. /\ t \in Seq(Char) /\ GoesOn(s, t) /\ Len(t) = l + Len(x)
      /\ \A j \in 1 .. Len(x) : t[l + j] = x[j]
  <2>1. PICK h \in Nat : h = Len(s) /\ h = l
    BY <1>1
  <2>2. /\ s \o x \in Seq(Char) /\ GoesOn(s, s \o x) /\ Len(s \o x) = Len(s) + Len(x)
        /\ \A j \in 1 .. Len(x) : (s \o x)[Len(s) + j] = x[j]
    BY <1>2, Behind
  <2>3. /\ s \o x \in Seq(Char) /\ GoesOn(s, s \o x) /\ Len(s \o x) = h + Len(x)
        /\ \A j \in 1 .. Len(x) : (s \o x)[h + j] = x[j]
    BY <2>1, <2>2
  <2> QED BY <1>4, <2>1, <2>3
<1>6. Len(t) = e + n + 2 /\ Len(x) > 0 /\ e + n + 2 <= Len(t)
  BY <1>1, <1>2, <1>5
<1>7. t[e + n + 1] = CR /\ t[e + n + 2] = LF
  <2>1. 1 \in 1 .. Len(x) /\ l \in 1 .. l /\ l + 1 = e + n + 2
    BY <1>1, <1>2
  <2>2. t[l + 1] = x[1]
    BY <1>5, <2>1
  <2>3. t[l] = s[l]
    BY <1>1, <1>5, <2>1 DEF GoesOn
  <2> QED BY <1>1, <1>2, <2>1, <2>2, <2>3
<1>8. LineUpTo(t, b, k, e) /\ NumberAt(t, b, k) = n
  BY <1>5, LineStays
<1>9. PieceAt(t, b, k, e, n)
  BY <1>6, <1>7, <1>8 DEF PieceAt
<1>10. EndsAt(t, b, Len(t), n)
  BY <1>6, <1>9 DEF EndsAt
<1> QED BY <1>2, <1>3, <1>4, <1>6, <1>10 DEF CanGoOn

----------------------------------------------------------------------------
(* Sizes that fit.                                                         *)

\* The size of what is after i is that of its digits.
LEMMA SizeAfterIs ==
  ASSUME NEW s \in Seq(Char), NEW i \in Nat, NEW k \in Nat, i <= k, k <= Len(s),
         Digits(s, i, k), k = Len(s) \/ s[k + 1] \notin Digit
  PROVE  SizeOf(After(s, i)) = NumberAt(s, i, k)
<1>1. PICK l \in Nat : l = Len(s) /\ k <= l
  BY LenProperties
<1>2. PICK d \in Nat : d = k - i /\ i + d = k
  <2>1. k - i \in Nat /\ i + (k - i) = k
    OBVIOUS
  <2> QED BY <2>1
<1>3. i <= l /\ l <= Len(s) /\ d <= l - i
  BY <1>1, <1>2
<1>4. /\ SubSeq(s, i + 1, l) \in Seq(Char) /\ Len(SubSeq(s, i + 1, l)) = l - i
      /\ \A j \in 1 .. l - i : SubSeq(s, i + 1, l)[j] = s[i + j]
  BY <1>3, Between
<1>5. PICK v \in Seq(Char) : v = SubSeq(s, i + 1, l)
  BY <1>4
<1>6. Len(v) = l - i /\ \A j \in 1 .. l - i : v[j] = s[i + j]
  BY <1>4, <1>5
<1>7. Digits(v, 0, d)
  <2> SUFFICES ASSUME NEW j \in 0 + 1 .. d PROVE v[j] \in Digit
    BY DEF Digits
  <2>1. j \in 1 .. l - i /\ i + j \in i + 1 .. k
    BY <1>2, <1>3
  <2>2. v[j] = s[i + j]
    BY <1>6, <2>1
  <2> QED BY <2>1, <2>2 DEF Digits
<1>8. d = Len(v) \/ v[d + 1] \notin Digit
  <2>1. CASE k = l
    BY <1>2, <1>6, <2>1
  <2>2. CASE k # l
    <3>1. d + 1 \in 1 .. l - i /\ i + (d + 1) = k + 1
      BY <1>1, <1>2, <2>2
    <3>2. v[d + 1] = s[k + 1]
      BY <1>6, <3>1
    <3> QED BY <1>1, <2>2, <3>2
  <2> QED BY <2>1, <2>2
<1>9. d <= Len(v)
  BY <1>3, <1>6
<1>10. SizeOf(v) = NumberAt(v, 0, d)
  BY <1>7, <1>8, <1>9, LeadingDigitsAre
<1>11. NumberAt(v, 0, d) = NumberAt(s, i, i + d)
  BY <1>3, <1>5, NumberBetween
<1> QED BY <1>1, <1>2, <1>5, <1>10, <1>11 DEF After

\* There are such digits.
LEMMA DigitsEnd ==
  ASSUME NEW s \in Seq(Char), NEW i \in Nat, i <= Len(s)
  PROVE  \E k \in Nat : /\ i <= k /\ k <= Len(s) /\ Digits(s, i, k)
                        /\ k = Len(s) \/ s[k + 1] \notin Digit
<1>1. PICK l \in Nat : l = Len(s) /\ i <= l
  BY LenProperties
<1> DEFINE T == {k \in Nat : i <= k /\ (k = l \/ (k < l /\ s[k + 1] \notin Digit))}
<1>2. PICK k \in T : \A y \in T : k <= y
  <2>1. T \subseteq Nat /\ l \in T
    BY <1>1
  <2>2. T # {}
    BY <2>1
  <2> HIDE DEF T
  <2> QED BY <2>1, <2>2, LeastOf
<1>3. k <= l /\ k \in Nat /\ i <= k
  BY <1>1
<1>4. ASSUME NEW j \in i + 1 .. k PROVE s[j] \in Digit
  <2>1. j - 1 \in Nat /\ i <= j - 1 /\ j - 1 < k /\ j - 1 < l /\ (j - 1) + 1 = j
    BY <1>3
  <2>2. j - 1 \notin T
    <3> HIDE DEF T
    <3> QED BY <1>2, <1>3, <2>1
  <2> QED BY <2>1, <2>2
<1>5. k = l \/ s[k + 1] \notin Digit
  OBVIOUS
<1> HIDE DEF T
<1> QED BY <1>1, <1>3, <1>4, <1>5 DEF Digits

\* What is given before fits if it fits with a character more.
LEMMA SizesFitBefore ==
  ASSUME NEW s \in Seq(Char), NEW ch \in Char, NEW t, t = Append(s, ch), SizesFit(t)
  PROVE  SizesFit(s)
<1>1. Grown(s, t, ch)
  BY AppendGrows
<1>2. PICK l \in Nat : l = Len(s)
  BY LenProperties
<1>3. /\ Len(t) = l + 1 /\ t[l + 1] = ch /\ t \in Seq(Char) /\ GoesOn(s, t)
      /\ \A j \in 1 .. l : t[j] = s[j]
  BY <1>1, <1>2, GrownPlaces
<1>4. ChunkStarts(s) \subseteq 0 .. l /\ ChunkStarts(s) \subseteq ChunkStarts(t)
  <2>1. ChunkStarts(s) \subseteq 0 .. Len(s)
    BY StartsExtended
  <2>2. ChunkStarts(s) \subseteq ChunkStarts(t)
    BY NewStarts
  <2> QED BY <1>2, <2>1, <2>2
<1>5. SUFFICES ASSUME NEW i \in ChunkStarts(s) PROVE SizeOf(After(s, i)) < Modulus
  BY DEF SizesFit
<1>6. i \in Nat /\ i <= Len(s) /\ i \in ChunkStarts(t)
  BY <1>2, <1>4
<1>7. SizeOf(After(t, i)) < Modulus
  BY <1>6 DEF SizesFit
<1>8. PICK k \in Nat : /\ i <= k /\ k <= Len(s) /\ Digits(s, i, k)
                       /\ k = Len(s) \/ s[k + 1] \notin Digit
  BY <1>6, DigitsEnd
<1>9. SizeOf(After(s, i)) = NumberAt(s, i, k)
  BY <1>6, <1>8, SizeAfterIs
<1>10. Digits(t, i, k) /\ NumberAt(t, i, k) = NumberAt(s, i, k) /\ NumberAt(s, i, k) \in Nat
  BY <1>3, <1>6, <1>8, DigitsGoOn
<1>11. k <= Len(t) /\ k \in 0 .. l
  BY <1>2, <1>3, <1>8
<1>12. CASE t[k + 1] \notin Digit
  <2>1. SizeOf(After(t, i)) = NumberAt(t, i, k)
    BY <1>3, <1>6, <1>8, <1>10, <1>11, <1>12, SizeAfterIs
  <2> QED BY <1>7, <1>9, <1>10, <2>1
<1>13. CASE t[k + 1] \in Digit
  <2>1. k = l
    <3> SUFFICES ASSUME k # l PROVE FALSE
      OBVIOUS
    <3>1. k + 1 \in 1 .. l
      BY <1>11
    <3> QED BY <1>2, <1>3, <1>8, <1>13, <3>1
  <2>2. Digits(t, i, k + 1)
    <3> SUFFICES ASSUME NEW j \in i + 1 .. k + 1 PROVE t[j] \in Digit
      BY DEF Digits
    <3>1. j = k + 1 \/ j \in i + 1 .. k
      OBVIOUS
    <3> QED BY <1>10, <1>13, <3>1 DEF Digits
  <2>3. i <= k + 1 /\ k + 1 <= Len(t) /\ k + 1 = Len(t) /\ k + 1 \in Nat
    <3>1. PICK m \in Nat : m = Len(t) /\ m = l + 1
      BY <1>3
    <3>2. i <= k + 1 /\ k + 1 <= m /\ k + 1 = m /\ k + 1 \in Nat
      BY <1>6, <1>8, <2>1, <3>1
    <3> QED BY <3>1, <3>2
  <2>4. SizeOf(After(t, i)) = NumberAt(t, i, k + 1)
    BY <1>3, <1>6, <2>2, <2>3, SizeAfterIs
  <2>5. NumberAt(t, i, k + 1) = NumberAt(t, i, k) * Base + t[k + 1]
    BY <1>3, <1>6, <1>8, <2>2, <2>3, NumberAtExtended
  <2>6. PICK n \in Nat, x \in Nat : n = NumberAt(s, i, k) /\ x = t[k + 1]
    <3>1. \A y \in Digit : y \in Nat
      BY DEF Digit
    <3>2. t[k + 1] \in Nat
      BY <1>13, <3>1
    <3> QED BY <1>10, <3>2
  <2>7. n * Base >= n /\ n * Base \in Nat
    <3>1. PICK m \in Nat : Base = m + 1
      <4>1. Base - 1 \in Nat /\ Base = (Base - 1) + 1
        BY ChunkAssumption
      <4> QED BY <4>1
    <3>2. n * (m + 1) = n * m + n /\ n * m \in Nat
      OBVIOUS
    <3> QED BY <3>1, <3>2
  <2>8. n * Base + x < Modulus
    BY <1>7, <1>10, <2>4, <2>5, <2>6
  <2>9. n < Modulus
    <3>1. PICK y \in Nat : y = n * Base
      BY <2>7
    <3>2. PICK w \in Nat : w = Modulus
      BY ChunkAssumption
    <3>3. y >= n /\ y + x < w
      BY <2>7, <2>8, <3>1, <3>2
    <3>4. n < w
      BY <3>3
    <3> QED BY <3>2, <3>4
  <2> QED BY <1>9, <2>6, <2>9
<1> QED BY <1>12, <1>13

\* If the sizes fit, the digits at the end do.
LEMMA FitsThere ==
  ASSUME NEW t \in Seq(Char), SizesFit(t), NEW b \in Nat, b <= Len(t), b \in ChunkStarts(t)
  PROVE  Fits(t, b)
<1> SUFFICES ASSUME Digits(t, b, Len(t)) PROVE NumberAt(t, b, Len(t)) < Modulus
  BY DEF Fits
<1>1. PICK l \in Nat : l = Len(t) /\ l <= Len(t) /\ b <= l
  <2>1. Len(t) \in Nat /\ Len(t) <= Len(t)
    BY LenProperties
  <2> QED BY <2>1
<1>2. SizeOf(After(t, b)) = NumberAt(t, b, l)
  BY <1>1, SizeAfterIs
<1> QED BY <1>1, <1>2 DEF SizesFit

----------------------------------------------------------------------------
(* The place of the checker.                                               *)

\* Before it is complete or has failed, and in a piece, the piece can be gone on with.
LEMMA WhereGoesOn ==
  ASSUME NEW s \in Seq(Char), NEW b \in Nat, NEW c \in Checker, Where(c, s, b),
         c.current_chunk_size_has_read <= c.current_chunk_size,
         c.state \notin {"chunk_size_start", "chunk_complete", "chunk_check_failed"}
  PROVE  CanGoOn(s, b)
<1>1. PICK l \in Nat : l = Len(s)
  BY LenProperties
<1>2. PICK n \in Nat, r \in Nat :
        n = c.current_chunk_size /\ r = c.current_chunk_size_has_read /\ r <= n /\ n < Modulus
  BY ChunkAssumption DEF Checker
<1>3. n \in 0 .. Modulus - 1 /\ 0 \in 0 .. Modulus - 1
  BY <1>2, ChunkAssumption
<1>4. c.state \in State
  BY DEF Checker
<1>5. CASE c.state = "chunk_size"
  <2>1. b < l /\ Digits(s, b, l) /\ n = NumberAt(s, b, l)
    BY <1>1, <1>2, <1>5 DEF Where
  <2>2. l <= Len(s) /\ \A j \in l + 1 .. Len(s) : s[j] # CR
    BY <1>1
  <2> QED BY <1>1, <1>2, <2>1, <2>2, GoOnInLine
<1>6. CASE c.state = "chunk_ext"
  <2>1. PICK k \in Nat :
          /\ b < k /\ k < Len(s) /\ Digits(s, b, k) /\ s[k + 1] = Separator
          /\ \A j \in k + 1 .. Len(s) : s[j] # CR
          /\ n = NumberAt(s, b, k)
    BY <1>2, <1>6 DEF Where
  <2>2. k <= Len(s)
    BY <1>1, <2>1
  <2> QED BY <1>2, <2>1, <2>2, GoOnInLine
<1>7. CASE c.state = "chunk_size_cr"
  <2>1. PICK k \in Nat :
          /\ b < k /\ k < Len(s) /\ Digits(s, b, k)
          /\ k + 1 = Len(s) \/ s[k + 1] = Separator
          /\ \A j \in k + 1 .. Len(s) - 1 : s[j] # CR
          /\ s[Len(s)] = CR
          /\ n = NumberAt(s, b, k)
    BY <1>2, <1>7 DEF Where
  <2> QED BY <1>2, <2>1, GoOnAfterCR
<1>8. CASE c.state = "chunk_data"
  <2>1. PICK k \in Nat, e \in Nat :
          LineUpTo(s, b, k, e) /\ n = NumberAt(s, b, k) /\ Len(s) = e + r
    BY <1>2, <1>8 DEF Where
  <2>2. r \in 0 .. n
    BY <1>2
  <2> QED BY <1>3, <2>1, <2>2, GoOnInData
<1>9. CASE c.state = "chunk_data_cr"
  <2>1. PICK k \in Nat, e \in Nat :
          /\ LineUpTo(s, b, k, e) /\ n = NumberAt(s, b, k)
          /\ Len(s) = e + n + 1 /\ s[Len(s)] = CR
    BY <1>2, <1>9 DEF Where
  <2>2. s[e + n + 1] = CR
    BY <2>1
  <2> QED BY <2>1, <2>2, GoOnAfterDataCR
<1>10. CASE c.state = "chunk_last"
  <2>1. PICK k \in Nat : LineUpTo(s, b, k, l) /\ NumberAt(s, b, k) = 0
    BY <1>1, <1>10 DEF Where
  <2>2. PICK o \in 0 .. Modulus - 1 : o = 0
    BY <1>3
  <2>3. o = NumberAt(s, b, k) /\ o \in 0 .. o /\ Len(s) = l + o
    BY <1>1, <2>1, <2>2
  <2> QED BY <2>1, <2>3, GoOnInData
<1>11. CASE c.state = "chunk_last_cr"
  <2>1. PICK k \in Nat, e \in Nat :
          LineUpTo(s, b, k, e) /\ NumberAt(s, b, k) = 0 /\ Len(s) = e + 1 /\ s[Len(s)] = CR
    BY <1>11 DEF Where
  <2>2. PICK o \in Nat : o = 0
    OBVIOUS
  <2>3. e + o + 1 = e + 1
    BY <2>2
  <2>4. o = NumberAt(s, b, k) /\ Len(s) = e + o + 1 /\ s[e + o + 1] = CR
    BY <2>1, <2>2, <2>3
  <2> QED BY <2>1, <2>4, GoOnAfterDataCR
<1> QED BY <1>4, <1>5, <1>6, <1>7, <1>8, <1>9, <1>10, <1>11 DEF State

\* A text goes on from itself.
LEMMA GoesOnItself ==
  ASSUME NEW s \in Seq(Char)
  PROVE  GoesOn(s, s)
<1>1. Len(s) \in Nat
  BY LenProperties
<1> QED BY <1>1 DEF GoesOn

\* What can be gone on with has not ended.
LEMMA NotEndedYet ==
  ASSUME NEW s \in Seq(Char), NEW b \in Nat, CanGoOn(s, b), NEW n \in Nat
  PROVE  ~EndsAt(s, b, Len(s), n)
<1> SUFFICES ASSUME EndsAt(s, b, Len(s), n) PROVE FALSE
  OBVIOUS
<1>1. PICK x \in Ends, o \in Nat :
        x \in Seq(Char) /\ Len(x) > 0 /\ EndsAt(s \o x, b, Len(s \o x), o)
  BY DEF CanGoOn
<1>2. PICK t : t = s \o x
  OBVIOUS
<1>3. t \in Seq(Char) /\ GoesOn(s, t) /\ Len(t) = Len(s) + Len(x)
  BY <1>1, <1>2, Behind
<1>4. PICK l \in Nat, m \in Nat, k \in Nat : l = Len(s) /\ m = Len(t) /\ k = Len(x)
  BY <1>1, <1>3, LenProperties
<1>5. EndsAt(t, b, l, n) /\ EndsAt(t, b, m, o)
  BY <1>1, <1>2, <1>3, <1>4, PieceGoesOn
<1>6. l = m
  BY <1>3, <1>5, OneEnd
<1> QED BY <1>1, <1>3, <1>4, <1>6

\* No chunk has ended where the checker is in a piece.
LEMMA NoChunkThere ==
  ASSUME NEW s \in Seq(Char), NEW b \in Nat, NEW c \in Checker, Where(c, s, b),
         c.current_chunk_size_has_read <= c.current_chunk_size,
         c.state # "chunk_size_start", NEW n \in Nat \ {0}
  PROVE  ~EndsAt(s, b, Len(s), n)
<1> SUFFICES ASSUME EndsAt(s, b, Len(s), n) PROVE FALSE
  OBVIOUS
<1>1. PICK l \in Nat : l = Len(s)
  BY LenProperties
<1>2. CASE c.state = "chunk_complete"
  <2>1. EndsAt(s, b, l, 0) /\ EndsAt(s, b, l, n) /\ 0 \in Nat /\ n \in Nat
    BY <1>1, <1>2 DEF Where
  <2>2. n = 0
    BY <2>1, OneEnd
  <2> QED BY <2>2
<1>3. CASE c.state = "chunk_check_failed"
  <2>1. Dead(s, b)
    BY <1>3 DEF Where
  <2> QED BY <2>1, GoesOnItself DEF Dead
<1>4. CASE c.state \notin {"chunk_complete", "chunk_check_failed"}
  <2>1. CanGoOn(s, b)
    BY <1>4, WhereGoesOn
  <2> QED BY <2>1, NotEndedYet
<1> QED BY <1>2, <1>3, <1>4

\* The checker is in the piece that begins after b, and before b there are whole chunks.
Place(c, s, b) ==
  /\ b \in ChunkStarts(s) /\ b <= Len(s)
  /\ Where(c, s, b)
  /\ \A i \in ChunkStarts(s) \ {b} :
       \E m \in Nat, n \in Nat \ {0} : m <= b /\ EndsAt(s, i, m, n)

\* The places are natural numbers.
LEMMA StartsAreNat ==
  ASSUME NEW s \in Seq(Char), NEW i \in ChunkStarts(s)
  PROVE  i \in Nat /\ i <= Len(s)
<1>1. CR \in Char
  BY Characters
<1>2. ChunkStarts(s) \subseteq 0 .. Len(s)
  BY <1>1, StartsExtended
<1> QED BY <1>2, LenProperties

\* It keeps a place.
LEMMA PlaceKept ==
  ASSUME NEW s \in Seq(Char), NEW ch \in Char, NEW t, t = Append(s, ch),
         NEW b \in Nat, NEW c \in Checker, Place(c, s, b), ~IsFail(c), SizesFit(t),
         c.current_chunk_size_has_read <= c.current_chunk_size,
         NEW d \in Checker, d = Step(c, ch),
         d.current_chunk_size_has_read <= d.current_chunk_size
  PROVE  \E p \in Nat : Place(d, t, p)
<1>1. Grown(s, t, ch)
  BY AppendGrows
<1>2. PICK l \in Nat, m \in Nat : l = Len(s) /\ m = Len(t) /\ m = l + 1
  BY <1>1, GrownPlaces
<1>3. t \in Seq(Char) /\ GoesOn(s, t)
  BY <1>1, GrownPlaces
<1>4. /\ b \in ChunkStarts(s) /\ b <= Len(s) /\ b <= l /\ Where(c, s, b)
      /\ \A i \in ChunkStarts(s) \ {b} :
           \E h \in Nat, n \in Nat \ {0} : h <= b /\ EndsAt(s, i, h, n)
  BY <1>2 DEF Place
<1>5. ChunkStarts(t) =
        IF \E i \in ChunkStarts(s), n \in Nat \ {0} : EndsAt(t, i, Len(t), n)
        THEN ChunkStarts(s) \cup {Len(t)} ELSE ChunkStarts(s)
  BY NewStarts
<1>6. Fits(t, b)
  <2>1. b \in ChunkStarts(t) /\ b <= Len(t)
    BY <1>2, <1>4, <1>5
  <2> QED BY <1>3, <2>1, FitsThere
<1>7. Outcome(d, t, b)
  BY <1>1, <1>4, <1>6, StepLeads
<1>8. ASSUME NEW i \in ChunkStarts(s) \ {b}
      PROVE  \E h \in Nat, n \in Nat \ {0} : h <= b /\ EndsAt(t, i, h, n)
  <2>1. PICK h \in Nat, n \in Nat \ {0} : h <= b /\ EndsAt(s, i, h, n)
    BY <1>4
  <2>2. i \in Nat
    BY StartsAreNat
  <2>3. EndsAt(t, i, h, n)
    BY <1>3, <2>1, <2>2, PieceGoesOn
  <2> QED BY <2>1, <2>3
<1>9. CASE d.state # "chunk_size_start" /\ Where(d, t, b)
  <2>1. ASSUME NEW i \in ChunkStarts(s), NEW n \in Nat \ {0}, EndsAt(t, i, m, n) PROVE FALSE
    <3>1. i \in Nat
      BY StartsAreNat
    <3>2. CASE i = b
      BY <1>2, <1>3, <1>9, <2>1, <3>2, NoChunkThere
    <3>3. CASE i # b
      <4>1. PICK h \in Nat, o \in Nat \ {0} : h <= b /\ EndsAt(t, i, h, o)
        BY <1>8, <3>3
      <4>2. h = m
        BY <1>3, <2>1, <3>1, <4>1, OneEnd
      <4> QED BY <1>2, <1>4, <4>1, <4>2
    <3> QED BY <3>2, <3>3
  <2>2. ChunkStarts(t) = ChunkStarts(s)
    BY <1>2, <1>5, <2>1
  <2>3. b <= Len(t)
    BY <1>2, <1>4
  <2>4. Place(d, t, b)
    BY <1>4, <1>8, <1>9, <2>2, <2>3 DEF Place
  <2> QED BY <2>4
<1>10. CASE d.state = "chunk_size_start" /\ \E n \in Nat \ {0} : EndsAt(t, b, m, n)
  <2>1. PICK n \in Nat \ {0} : EndsAt(t, b, m, n)
    BY <1>10
  <2>2. ChunkStarts(t) = ChunkStarts(s) \cup {m}
    BY <1>2, <1>4, <1>5, <2>1
  <2>3. Where(d, t, m)
    BY <1>2, <1>10 DEF Where
  <2>4. ASSUME NEW i \in ChunkStarts(t) \ {m}
        PROVE  \E h \in Nat, o \in Nat \ {0} : h <= m /\ EndsAt(t, i, h, o)
    <3>1. CASE i = b
      <4>1. m <= m
        BY <1>2
      <4> QED BY <2>1, <3>1, <4>1
    <3>2. CASE i # b
      <4>1. PICK h \in Nat, o \in Nat \ {0} : h <= b /\ EndsAt(t, i, h, o)
        BY <1>8, <2>2, <3>2
      <4>2. h <= m
        BY <1>2, <1>4, <4>1
      <4> QED BY <4>1, <4>2
    <3> QED BY <3>1, <3>2
  <2>5. m \in ChunkStarts(t) /\ m <= Len(t)
    BY <1>2, <2>2
  <2>6. Place(d, t, m)
    BY <2>3, <2>4, <2>5 DEF Place
  <2> QED BY <2>6
<1> QED BY <1>2, <1>7, <1>9, <1>10 DEF Outcome

\* What is after a place is a whole chunk, or the last chunk, with something behind it.
LEMMA AfterIs ==
  ASSUME NEW s \in Seq(Char), NEW i \in Nat, i <= Len(s), NEW x \in Seq(Char)
  PROVE  /\ IsChunk(After(s, i) \o x) <=> \E n \in Nat \ {0} : EndsAt(s \o x, i, Len(s \o x), n)
         /\ IsLastChunk(After(s, i) \o x) <=> EndsAt(s \o x, i, Len(s \o x), 0)
         /\ IsLastChunk(After(s, i)) <=> EndsAt(s, i, Len(s), 0)
<1>1. PICK l \in Nat, q \in Nat : l = Len(s) /\ q = Len(x) /\ i <= l
  BY LenProperties
<1>2. PICK t : t = s \o x
  OBVIOUS
<1>3. /\ t \in Seq(Char) /\ GoesOn(s, t) /\ Len(t) = l + q
      /\ \A j \in 1 .. q : t[l + j] = x[j]
  BY <1>1, <1>2, Behind
<1>4. PICK m \in Nat : m = Len(t) /\ m = l + q /\ i <= m /\ m <= Len(t) /\ l <= Len(s)
  <2>1. l + q \in Nat /\ i <= l + q /\ l + q <= l + q /\ l <= l
    BY <1>1
  <2> QED BY <1>1, <1>3, <2>1
<1>5. /\ SubSeq(s, i + 1, l) \in Seq(Char) /\ Len(SubSeq(s, i + 1, l)) = l - i
      /\ \A j \in 1 .. l - i : SubSeq(s, i + 1, l)[j] = s[i + j]
  BY <1>1, <1>4, Between
<1>6. PICK v \in Seq(Char) : v = SubSeq(s, i + 1, l)
  BY <1>5
<1>7. PICK p \in Nat : p = l - i /\ i + p = l
  <2>1. l - i \in Nat /\ i + (l - i) = l
    BY <1>1
  <2> QED BY <2>1
<1>8. Len(v) = p /\ \A j \in 1 .. p : v[j] = s[i + j]
  BY <1>5, <1>6, <1>7
<1>9. PICK w : w = v \o x
  OBVIOUS
<1>10. /\ w \in Seq(Char) /\ GoesOn(v, w) /\ Len(w) = p + q
       /\ \A j \in 1 .. q : w[p + j] = x[j]
  BY <1>1, <1>8, <1>9, Behind
<1>11. /\ SubSeq(t, i + 1, m) \in Seq(Char) /\ Len(SubSeq(t, i + 1, m)) = m - i
       /\ \A j \in 1 .. m - i : SubSeq(t, i + 1, m)[j] = t[i + j]
  BY <1>3, <1>4, Between
<1>12. PICK u \in Seq(Char) : u = SubSeq(t, i + 1, m)
  BY <1>11
<1>13. m - i = p + q
  BY <1>4, <1>7
<1>14. Len(u) = p + q /\ \A j \in 1 .. p + q : u[j] = t[i + j]
  BY <1>11, <1>12, <1>13
<1>15. ASSUME NEW j \in 1 .. p + q PROVE u[j] = w[j]
  <2>1. CASE j \in 1 .. p
    <3>1. i + j \in 1 .. l
      BY <1>7, <2>1
    <3>2. t[i + j] = s[i + j]
      BY <1>1, <1>3, <3>1 DEF GoesOn
    <3>3. w[j] = v[j]
      BY <1>8, <1>10, <2>1 DEF GoesOn
    <3> QED BY <1>8, <1>14, <2>1, <3>2, <3>3
  <2>2. CASE j \notin 1 .. p
    <3>1. j - p \in 1 .. q /\ l + (j - p) = i + j /\ p + (j - p) = j
      BY <1>7, <2>2
    <3>2. t[l + (j - p)] = x[j - p] /\ w[p + (j - p)] = x[j - p]
      BY <1>3, <1>10, <3>1
    <3> QED BY <1>14, <3>1, <3>2
  <2> QED BY <2>1, <2>2
<1>16. u = w
  BY <1>10, <1>14, <1>15, SeqEqual
<1>17. After(s, i) = v /\ After(s, i) \o x = u
  BY <1>1, <1>6, <1>9, <1>16 DEF After
<1>18. /\ IsChunk(u) <=> \E n \in Nat \ {0} : EndsAt(t, i, m, n)
       /\ IsLastChunk(u) <=> EndsAt(t, i, m, 0)
  BY <1>3, <1>4, <1>12, BetweenIs
<1>19. IsLastChunk(v) <=> EndsAt(s, i, l, 0)
  BY <1>1, <1>4, <1>6, BetweenIs
<1> QED BY <1>1, <1>2, <1>4, <1>17, <1>18, <1>19

\* Ends are texts.
LEMMA EndsAreTexts == Ends \subseteq Seq(Char)
<1>1. CR \in Char /\ LF \in Char
  BY Characters
<1>2. <<CR, LF>> \in Seq(Char) /\ <<LF>> \in Seq(Char) /\ <<>> \in Seq(Char)
  BY <1>1
<1> DEFINE rest == {Filled(n) : n \in 0 .. Modulus - 1} \cup {<<>>, <<LF>>}
<1>3. Ends = rest \cup {<<CR, LF>> \o r : r \in rest} \cup {<<LF>> \o r : r \in rest}
  BY DEF Ends, Filled
<1>4. \A r \in rest : r \in Seq(Char)
  <2>1. \A n \in 0 .. Modulus - 1 : n \in Nat
    OBVIOUS
  <2> QED BY <1>2, <2>1, FilledIs
<1> HIDE DEF rest
<1>5. \A r \in rest : <<CR, LF>> \o r \in Seq(Char) /\ <<LF>> \o r \in Seq(Char)
  BY <1>2, <1>4, Behind
<1> QED BY <1>3, <1>4, <1>5

\* A piece ends behind its place.
LEMMA EndsBehind ==
  ASSUME NEW s, NEW i \in Nat, NEW m, NEW n \in Nat, EndsAt(s, i, m, n)
  PROVE  i < m
<1>1. PICK k \in Nat, e \in Nat : PieceAt(s, i, k, e, n) /\ m = e + n + 2
  BY DEF EndsAt
<1>2. i < k /\ k + 2 <= e
  BY <1>1 DEF PieceAt, LineUpTo
<1> QED BY <1>1, <1>2

\* The verdict of a checker that is in its place.
LEMMA VerdictThere ==
  ASSUME NEW s \in Seq(Char), NEW c \in Checker,
         c.current_chunk_size_has_read <= c.current_chunk_size,
         NEW b \in Nat, Place(c, s, b)
  PROVE  /\ IsComplete(c) <=> IsBody(s)
         /\ IsFail(c) <=> ~CanBeABody(s)
<1>1. PICK l \in Nat : l = Len(s)
  BY LenProperties
<1>2. /\ b \in ChunkStarts(s) /\ b <= l /\ Where(c, s, b)
      /\ \A i \in ChunkStarts(s) \ {b} :
           \E m \in Nat, n \in Nat \ {0} : m <= b /\ EndsAt(s, i, m, n)
  BY <1>1 DEF Place
<1>3. <<>> \in Seq(Char)
  BY EmptySeq
<1>4. ASSUME IsComplete(c) PROVE IsBody(s)
  <2>1. EndsAt(s, b, Len(s), 0)
    BY <1>2, <1>4 DEF Where, IsComplete
  <2>2. IsLastChunk(After(s, b))
    BY <1>1, <1>2, <1>3, <2>1, AfterIs
  <2> QED BY <1>2, <2>2 DEF IsBody
<1>5. ASSUME IsBody(s) PROVE IsComplete(c)
  <2>1. PICK i \in ChunkStarts(s) : IsLastChunk(After(s, i))
    BY <1>5 DEF IsBody
  <2>2. i \in Nat /\ i <= Len(s)
    BY StartsAreNat
  <2>3. EndsAt(s, i, l, 0) /\ 0 \in Nat
    BY <1>1, <1>3, <2>1, <2>2, AfterIs
  <2>4. i = b
    <3> SUFFICES ASSUME i # b PROVE FALSE
      OBVIOUS
    <3>1. PICK m \in Nat, n \in Nat \ {0} : EndsAt(s, i, m, n)
      BY <1>2
    <3>2. n = 0
      BY <2>2, <2>3, <3>1, OneEnd
    <3> QED BY <3>2
  <2>5. CASE c.state = "chunk_size_start"
    <3>1. b = l
      BY <1>1, <1>2, <2>5 DEF Where
    <3>2. b < l
      BY <2>3, <2>4, EndsBehind
    <3> QED BY <3>1, <3>2
  <2>6. CASE c.state = "chunk_check_failed"
    <3>1. Dead(s, b)
      BY <1>2, <2>6 DEF Where
    <3> QED BY <1>1, <2>3, <2>4, <3>1, GoesOnItself DEF Dead
  <2>7. CASE c.state = "chunk_complete"
    BY <2>7 DEF IsComplete
  <2>8. CASE c.state \notin {"chunk_size_start", "chunk_complete", "chunk_check_failed"}
    <3>1. CanGoOn(s, b)
      BY <1>2, <2>8, WhereGoesOn
    <3> QED BY <1>1, <2>3, <2>4, <3>1, NotEndedYet
  <2> QED BY <2>5, <2>6, <2>7, <2>8
<1>6. ASSUME IsFail(c), CanBeABody(s) PROVE FALSE
  <2>1. b < l /\ Dead(s, b)
    BY <1>1, <1>2, <1>6 DEF Where, IsFail
  <2>2. PICK i \in ChunkStarts(s) :
          \/ i = Len(s)
          \/ \E e \in Ends : IsChunk(After(s, i) \o e) \/ IsLastChunk(After(s, i) \o e)
    BY <1>6 DEF CanBeABody
  <2>3. i \in Nat /\ i <= Len(s)
    BY StartsAreNat
  <2>4. i # b => \E m \in Nat, n \in Nat \ {0} : m <= b /\ EndsAt(s, i, m, n)
    BY <1>2
  <2>5. i # Len(s)
    <3>1. ASSUME NEW m \in Nat, NEW n \in Nat \ {0}, m <= b, EndsAt(s, i, m, n) PROVE i < l
      <4>1. i < m
        BY <2>3, <3>1, EndsBehind
      <4> QED BY <2>1, <2>3, <3>1, <4>1
    <3> QED BY <1>1, <2>1, <2>4, <3>1
  <2>6. PICK e \in Ends : IsChunk(After(s, i) \o e) \/ IsLastChunk(After(s, i) \o e)
    BY <2>2, <2>5
  <2>7. e \in Seq(Char)
    BY EndsAreTexts
  <2>8. PICK t : t = s \o e
    OBVIOUS
  <2>9. t \in Seq(Char) /\ GoesOn(s, t) /\ Len(t) = Len(s) + Len(e)
    BY <2>7, <2>8, Behind
  <2>10. PICK q \in Nat : q = Len(t) /\ l <= q
    <3>1. Len(t) \in Nat
      BY <2>9, LenProperties
    <3>2. l <= Len(t)
      BY <1>1, <2>9 DEF GoesOn
    <3> QED BY <3>1, <3>2
  <2>11. PICK o \in Nat : EndsAt(t, i, q, o)
    <3>1. \/ \E n \in Nat \ {0} : EndsAt(t, i, q, n)
          \/ EndsAt(t, i, q, 0)
      BY <2>3, <2>6, <2>7, <2>8, <2>10, AfterIs
    <3>2. 0 \in Nat
      OBVIOUS
    <3> QED BY <3>1, <3>2
  <2>12. CASE i = b
    BY <2>1, <2>9, <2>10, <2>11, <2>12 DEF Dead
  <2>13. CASE i # b
    <3>1. PICK m \in Nat, n \in Nat \ {0} : m <= b /\ EndsAt(s, i, m, n)
      BY <2>4, <2>13
    <3>2. EndsAt(t, i, m, n)
      BY <2>3, <2>9, <3>1, PieceGoesOn
    <3>3. m = q
      BY <2>3, <2>9, <2>11, <3>1, <3>2, OneEnd
    <3> QED BY <2>1, <2>10, <3>1, <3>3
  <2> QED BY <2>12, <2>13
<1>7. ASSUME ~IsFail(c) PROVE CanBeABody(s)
  <2>1. c.state # "chunk_check_failed"
    BY <1>7 DEF IsFail
  <2>2. CASE c.state = "chunk_size_start"
    <3>1. b = Len(s)
      BY <1>2, <2>2 DEF Where
    <3> QED BY <1>2, <3>1 DEF CanBeABody
  <2>3. CASE c.state = "chunk_complete"
    <3>1. EndsAt(s, b, Len(s), 0)
      BY <1>2, <2>3 DEF Where
    <3>2. PICK x \in Seq(Char) : x = <<>>
      BY <1>3
    <3>3. s \o x = s /\ x \in Ends
      BY <3>2, ConcatEmptySeq, EndsHave
    <3>4. IsLastChunk(After(s, b) \o x) <=> EndsAt(s \o x, b, Len(s \o x), 0)
      BY <1>1, <1>2, AfterIs
    <3>5. IsLastChunk(After(s, b) \o x)
      BY <3>1, <3>3, <3>4
    <3> QED BY <1>2, <3>3, <3>5 DEF CanBeABody
  <2>4. CASE c.state \notin {"chunk_size_start", "chunk_complete"}
    <3>1. CanGoOn(s, b)
      BY <1>2, <2>1, <2>4, WhereGoesOn
    <3>2. PICK x \in Ends, n \in Nat : x \in Seq(Char) /\ EndsAt(s \o x, b, Len(s \o x), n)
      BY <3>1 DEF CanGoOn
    <3>3. IsChunk(After(s, b) \o x) \/ IsLastChunk(After(s, b) \o x)
      <4>1. n = 0 \/ n \in Nat \ {0}
        OBVIOUS
      <4> QED BY <1>1, <1>2, <3>2, <4>1, AfterIs
    <3> QED BY <1>2, <3>2, <3>3 DEF CanBeABody
  <2> QED BY <2>2, <2>3, <2>4
<1> QED BY <1>4, <1>5, <1>6, <1>7

----------------------------------------------------------------------------

\* If the sizes fit, the checker is in its place.
Placed == SizesFit(given) => \E b \in Nat : Place(checker, given, b)

\* VerdictIsRight holds of the checker, for every base and width of the size: with sizes
\* that fit it is complete exactly when it was given a whole body, and has failed exactly
\* when nothing that could follow makes one, in check() of http_chunk_checker.
THEOREM VerdictIsRightHolds == Spec => []VerdictIsRight
<1>1. Init => Inv /\ Placed
  <2> SUFFICES ASSUME Init PROVE Inv /\ Placed
    OBVIOUS
  <2>1. Inv
    BY ChunkAssumption DEF Init, Inv, Sound, NewChecker, Checker, State
  <2>2. Len(given) = 0 /\ ChunkStarts(given) = {0} /\ checker.state = "chunk_size_start"
    BY NoStarts DEF Init, NewChecker
  <2>3. Where(checker, given, 0)
    BY <2>2 DEF Where
  <2>4. Place(checker, given, 0)
    BY <2>2, <2>3 DEF Place
  <2> QED BY <2>1, <2>4 DEF Placed
<1>2. Inv /\ Placed /\ [Next]_vars => (Inv /\ Placed)'
  <2> SUFFICES ASSUME Inv, Placed, [Next]_vars PROVE Inv' /\ Placed'
    OBVIOUS
  <2>1. ASSUME NEW ch \in Char, Check(ch) PROVE Inv' /\ Placed'
    <3>1. ~IsFail(checker) /\ checker' = Step(checker, ch) /\ given' = Append(given, ch)
      BY <2>1 DEF Check
    <3>2. Sound(checker) /\ Sound(checker') /\ given \in Seq(Char)
      BY <3>1, StepIsSound DEF Inv
    <3>3. given' \in Seq(Char)
      BY <3>1, <3>2, AppendProperties
    <3>4. ASSUME SizesFit(given') PROVE \E b \in Nat : Place(checker', given', b)
      <4>1. SizesFit(given)
        BY <3>1, <3>2, <3>4, SizesFitBefore
      <4>2. PICK b \in Nat : Place(checker, given, b)
        BY <4>1 DEF Placed
      <4>3. /\ checker \in Checker /\ checker' \in Checker
            /\ checker.current_chunk_size_has_read <= checker.current_chunk_size
            /\ checker'.current_chunk_size_has_read <= checker'.current_chunk_size
        BY <3>2 DEF Sound
      <4> QED BY <3>1, <3>2, <3>4, <4>2, <4>3, PlaceKept
    <3> QED BY <3>2, <3>3, <3>4 DEF Inv, Placed
  <2>2. CASE UNCHANGED vars
    BY <2>2 DEF Inv, Placed, vars
  <2> QED BY <2>1, <2>2 DEF Next
<1>3. Inv /\ Placed => VerdictIsRight
  <2> SUFFICES ASSUME Inv, Placed, SizesFit(given)
               PROVE  /\ IsComplete(checker) <=> IsBody(given)
                      /\ IsFail(checker) <=> ~CanBeABody(given)
    BY DEF VerdictIsRight
  <2>1. PICK b \in Nat : Place(checker, given, b)
    BY DEF Placed
  <2>2. /\ checker \in Checker /\ given \in Seq(Char)
        /\ checker.current_chunk_size_has_read <= checker.current_chunk_size
    BY DEF Inv, Sound
  <2> QED BY <2>1, <2>2, VerdictThere
<1> QED BY <1>1, <1>2, <1>3, PTL DEF Spec
===============================================================================
