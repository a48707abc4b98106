----------------------------- MODULE ChunkChecker -----------------------------
(***************************************************************************)
(* http_chunk_checker: the automaton that follows a chunked body as it     *)
(* arrives, to find its end.  read_response_content and                    *)
(* read_http_response_header call check() on each piece as it was read: a  *)
(* body is cut anywhere, and only the members go from piece to piece, as   *)
(* they go from character to character.                                    *)
(*                                                                         *)
(* A character is a number: below Base the hexadecimal digit of that       *)
(* value, from Base on one of the classes the automaton tells apart.  Base *)
(* is 16 and Modulus 2^32 in the code; a small instance scales both down.  *)
(***************************************************************************)
EXTENDS Integers, FiniteSets, SequencesExt

CONSTANTS
  Base,       \* what a digit multiplies the size by
  Modulus,    \* current_chunk_size is kept modulo this
  MaxLength,  \* bound: characters of a body
  MaxRepeat   \* bound: how often a character that is not CR or LF occurs in a body

Digit == 0 .. Base - 1
CR == Base
LF == Base + 1
Separator == Base + 2     \* ';' or ' ', which begin a chunk extension
OtherChar == Base + 3
Char == Digit \cup {CR, LF, Separator, OtherChar}

ASSUME ChunkAssumption ==
  /\ Base \in Nat \ {0}
  /\ Modulus \in Nat \ {0}
  /\ MaxLength \in Nat
  /\ MaxRepeat \in [Char \ {CR, LF} -> Nat]

VARIABLES
  checker,  \* the members of the object
  given     \* history: all characters given to check()

vars == <<checker, given>>

State == {"chunk_size_start", "chunk_size", "chunk_ext", "chunk_size_cr", "chunk_data",
          "chunk_data_cr", "chunk_last", "chunk_last_cr", "chunk_complete",
          "chunk_check_failed"}

Checker == [state : State, current_chunk_size : 0 .. Modulus - 1,
            current_chunk_size_has_read : 0 .. Modulus - 1]

NewChecker ==
  [state |-> "chunk_size_start", current_chunk_size |-> 0, current_chunk_size_has_read |-> 0]

IsComplete(c) == c.state = "chunk_complete"
IsFail(c) == c.state = "chunk_check_failed"

----------------------------------------------------------------------------
(* The turns of the loop in check().                                       *)

\* Mistaken: what was read of the chunk before is counted.
SizeBeginsMistaken(c, digit) ==
  [c EXCEPT !.state = "chunk_size", !.current_chunk_size = digit % Modulus]

SizeBegins(c, digit) ==
  [state |-> "chunk_size", current_chunk_size |-> digit % Modulus,
   current_chunk_size_has_read |-> 0]

SizeGoesOn(c, digit) == [c EXCEPT !.current_chunk_size = (@ * Base + digit) % Modulus]

\* Mistaken: a byte more than the size is taken.
DataRemainsMistaken(c) == c.current_chunk_size_has_read <= c.current_chunk_size

DataRemains(c) == c.current_chunk_size_has_read < c.current_chunk_size

AfterSizeLine(c) == IF c.current_chunk_size = 0 THEN "chunk_last" ELSE "chunk_data"

\* What the character ch does to the members.
Step(c, ch) ==
  LET to(s) == [c EXCEPT !.state = s]
      expect(x, s) == IF ch = x THEN to(s) ELSE to("chunk_check_failed")
  IN  CASE c.state = "chunk_size_start" /\ ch \in Digit -> SizeBegins(c, ch)
        [] c.state = "chunk_size" ->
             IF ch \in Digit THEN SizeGoesOn(c, ch)
             ELSE IF ch = Separator THEN to("chunk_ext") ELSE expect(CR, "chunk_size_cr")
        [] c.state = "chunk_ext" -> IF ch = CR THEN to("chunk_size_cr") ELSE c
        [] c.state = "chunk_size_cr" -> expect(LF, AfterSizeLine(c))
        [] c.state = "chunk_data" ->
             IF DataRemains(c) THEN [c EXCEPT !.current_chunk_size_has_read = @ + 1]
             ELSE expect(CR, "chunk_data_cr")
        [] c.state = "chunk_data_cr" -> expect(LF, "chunk_size_start")
        [] c.state = "chunk_last" -> expect(CR, "chunk_last_cr")
        [] c.state = "chunk_last_cr" -> expect(LF, "chunk_complete")
        [] OTHER -> to("chunk_check_failed")

Check(ch) ==
  /\ ~IsFail(checker)
  /\ checker' = Step(checker, ch)
  /\ given' = Append(given, ch)

Init ==
  /\ checker = NewChecker
  /\ given = <<>>

Bounded(s) ==
  /\ Len(s) <= MaxLength
  /\ \A ch \in DOMAIN MaxRepeat : Cardinality({i \in DOMAIN s : s[i] = ch}) <= MaxRepeat[ch]

Next == \E ch \in Char : Bounded(Append(given, ch)) /\ Check(ch)

Spec == Init /\ [][Next]_vars

----------------------------------------------------------------------------
(* What a chunked body is, with sizes that are numbers and not residues:   *)
(* chunks of their announced size, and a last chunk of size 0.  As in the  *)
(* code an extension is anything that does not contain CR, and there are   *)
(* no trailers.                                                            *)

Number(digits) == FoldLeft(LAMBDA n, d : n * Base + d, 0, digits)

LeadingDigits(s) == {i \in DOMAIN s : \A k \in 1 .. i : s[k] \in Digit}
SizeOf(s) == Number(SubSeq(s, 1, Cardinality(LeadingDigits(s))))

EndsWithCRLF(s) == Len(s) >= 2 /\ SubSeq(s, Len(s) - 1, Len(s)) = <<CR, LF>>
WithoutCRLF(s) == SubSeq(s, 1, Len(s) - 2)

\* s is the line before a chunk of n bytes.
IsSizeLine(s, n) ==
  LET k == Cardinality(LeadingDigits(s))
      extension == SubSeq(WithoutCRLF(s), k + 1, Len(s) - 2)
  IN  /\ EndsWithCRLF(s)
      /\ k > 0
      /\ SizeOf(s) = n
      /\ extension # <<>> => extension[1] = Separator /\ ~Contains(extension, CR)

IsChunk(s) ==
  LET n == SizeOf(s)
      line == Len(s) - n - 2
  IN  n > 0 /\ line > 0 /\ EndsWithCRLF(s) /\ IsSizeLine(SubSeq(s, 1, line), n)

IsLastChunk(s) == EndsWithCRLF(s) /\ IsSizeLine(WithoutCRLF(s), 0)

\* Where a chunk begins in s: after i characters that are whole chunks.
ChunkStarts(s) ==
  LET withChunkUpTo(starts, i) ==
        IF \E j \in starts : IsChunk(SubSeq(s, j + 1, i)) THEN starts \cup {i} ELSE starts
  IN  FoldLeft(withChunkUpTo, {0}, [i \in 1 .. Len(s) |-> i])

After(s, i) == SubSeq(s, i + 1, Len(s))
IsBody(s) == \E i \in ChunkStarts(s) : IsLastChunk(After(s, i))

\* The sizes that s announces fit in current_chunk_size.
SizesFit(s) == \A i \in ChunkStarts(s) : SizeOf(After(s, i)) < Modulus

\* The shortest ends of a chunk, from any point of it.
Ends ==
  LET data(n) == [i \in 1 .. n |-> OtherChar]
      rest == {data(n) \o <<CR, LF>> : n \in 0 .. Modulus - 1} \cup {<<>>, <<LF>>}
  IN  rest \cup {<<CR, LF>> \o r : r \in rest} \cup {<<LF>> \o r : r \in rest}

\* Something that could follow s makes a body of it.
CanBeABody(s) ==
  \E i \in ChunkStarts(s) :
    \/ i = Len(s)
    \/ \E e \in Ends : IsChunk(After(s, i) \o e) \/ IsLastChunk(After(s, i) \o e)

----------------------------------------------------------------------------
\* The types, and no more of a chunk is read than its size (:94).
TypeOK ==
  /\ checker \in Checker
  /\ given \in Seq(Char)
  /\ checker.current_chunk_size_has_read <= checker.current_chunk_size

\* If each size fits in 32 bits, the checker is complete exactly when what it was given
\* is a whole chunked body, and has failed exactly when nothing that could follow makes
\* one: the connection to the origin server is used again from this point of the
\* stream (:904 of the server connection), and a reply is neither cut short nor
\* followed past an error in it.
VerdictIsRight ==
  SizesFit(given) =>
    /\ IsComplete(checker) <=> IsBody(given)
    /\ IsFail(checker) <=> ~CanBeABody(given)
=============================================================================
