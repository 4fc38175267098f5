------------------------------- MODULE Literal -------------------------------
(***************************************************************************)
(* Parser.ParseNumber, ParseLiteral and the string parsers ParseQuoted,    *)
(* ParseString and ParseAString of src/rfcparser/parser.go.               *)
(*                                                                         *)
(* The input is the token stream the Scanner produces, as a sequence of   *)
(* token types: "{", "}", "[", "]", "(", ")", "CR", "LF", "SP", "Tab",    *)
(* "CTL", "DQ" (DQuote), "BS" (Backslash), the digits "0".."9", and "b"   *)
(* for any other byte (TokenTypeChar), "%" and "*" included.  A parse    *)
(* returns where it stopped, so the operators thread a position through  *)
(* the stream as Consume / Matches / Advance do.                          *)
(*                                                                         *)
(* Go's int is IntBits wide and two's complement: number *= 10 and        *)
(* number += d wrap.  The size limit 30*1024*1024 is the constant          *)
(* LiteralLimit, so that both can be scaled to what TLC enumerates.       *)
(*                                                                         *)
(* The Scanner is not in this repository: ConsumeBytes(literal) is taken  *)
(* to read the literalSize bytes that follow LF, failing when fewer are   *)
(* left, the final Advance not to fail, and an Advance from the EOF token *)
(* to return an error.                                                    *)
(***************************************************************************)
EXTENDS Integers, Sequences

CONSTANTS
    IntBits,        \* width of Go's int
    LiteralLimit    \* 30 * 1024 * 1024

Digits == {"0", "1", "2", "3", "4", "5", "6", "7", "8", "9"}

(* ByteToInt: int(b) - int('0').                                          *)
ByteToInt == [c \in Digits |-> CASE c = "0" -> 0 [] c = "1" -> 1 [] c = "2" -> 2
                                 [] c = "3" -> 3 [] c = "4" -> 4 [] c = "5" -> 5
                                 [] c = "6" -> 6 [] c = "7" -> 7 [] c = "8" -> 8
                                 [] c = "9" -> 9]

(* Two's complement wrap of a mathematical integer to IntBits bits.       *)
Wrap(n) == LET m == n % (2 ^ IntBits)
           IN IF m >= 2 ^ (IntBits - 1) THEN m - 2 ^ IntBits ELSE m

(* The token at position i, "EOF" past the end.                           *)
Tok(in, i) == IF i <= Len(in) THEN in[i] ELSE "EOF"

Fail(i) == [ok |-> FALSE, val |-> 0, next |-> i, cont |-> FALSE]

RECURSIVE DigitLoop(_, _, _)
(* The for loop of ParseNumber: while Matches(Digit), number *= 10 then   *)
(* number += ByteToInt(digit), each a wrapping int operation.             *)
DigitLoop(in, i, number) ==
    IF Tok(in, i) \in Digits
    THEN DigitLoop(in, i + 1, Wrap(Wrap(number * 10) + ByteToInt[Tok(in, i)]))
    ELSE [ok |-> TRUE, val |-> number, next |-> i, cont |-> FALSE]

(* ParseNumber: Consume(Digit) or fail, then the loop.                    *)
ParseNumber(in, i) ==
    IF Tok(in, i) \in Digits THEN DigitLoop(in, i + 1, ByteToInt[Tok(in, i)])
    ELSE Fail(i)

(* Mutant: the size check lets 0 through.                                 *)
SizeRejectedNoZero(size) == size < 0 \/ size >= LiteralLimit

(* The two size checks of ParseLiteral.                                   *)
SizeRejected(size) == size <= 0 \/ size >= LiteralLimit

(* The continuation callback runs when the token after CR is LF          *)
(* (Check(LF)): "+ Ready" is written, and a write error fails the parse.  *)
Continuation(in, lfAt, cbFails) ==
    [sent |-> Tok(in, lfAt) = "LF", fails |-> Tok(in, lfAt) = "LF" /\ cbFails]

(* ParseLiteral from position 1, with a continuation callback configured  *)
(* whose write fails when cbFails.  val is the literal's length and cont  *)
(* tells whether "+ Ready" was written.                                   *)
ParseLiteral(in, cbFails) ==
    LET n    == ParseNumber(in, 2)
        size == n.val
        rc   == n.next
        c    == Continuation(in, rc + 2, cbFails)
        body == rc + 3
        WithCont(r) == [r EXCEPT !.cont = c.sent]
    IN CASE Tok(in, 1) # "{"         -> Fail(1)
         [] ~n.ok                    -> Fail(n.next)
         [] SizeRejected(size)       -> Fail(rc)
         [] Tok(in, rc) # "}"        -> Fail(rc)
         [] Tok(in, rc + 1) # "CR"   -> Fail(rc + 1)
         [] c.fails                  -> WithCont(Fail(rc + 2))
         [] Tok(in, rc + 2) # "LF"   -> WithCont(Fail(rc + 2))
         [] Len(in) - body + 1 < size -> WithCont(Fail(body))
         [] OTHER -> [ok |-> TRUE, val |-> size, next |-> body + size, cont |-> c.sent]

-----------------------------------------------------------------------------
(* The token classes of parser.go.                                        *)
IsQuotedSpecial(t) == t \in {"DQ", "BS"}
IsRespSpecial(t) == t = "]"
IsCTL(t) == t \in {"CTL", "CR", "LF", "Tab"}

(* Mutant: DQuote is the only quoted special.                             *)
IsQuotedCharNoBackslash(t) == t # "DQ"

(* Any token but the quoted specials, CR, LF and EOF included.            *)
IsQuotedChar(t) == ~IsQuotedSpecial(t)

IsAtomChar(t) ==
    /\ t \notin {"(", ")", "[", "EOF", "SP"}
    /\ ~IsQuotedSpecial(t) /\ ~IsRespSpecial(t) /\ ~IsCTL(t)

IsAStringChar(t) == IsAtomChar(t) \/ IsRespSpecial(t)

RECURSIVE CollectAStringChars(_, _)
(* CollectBytesWhileMatchesWith(IsAStringChar) from position i: zero or   *)
(* more tokens, never an error (IsAStringChar("EOF") is false).           *)
CollectAStringChars(in, i) ==
    IF IsAStringChar(Tok(in, i))
    THEN LET r == CollectAStringChars(in, i + 1)
         IN [r EXCEPT !.val = <<in[i]>> \o @]
    ELSE [ok |-> TRUE, val |-> <<>>, next |-> i, cont |-> FALSE]

RECURSIVE QuotedLoop(_, _, _)
(* The for loop of ParseQuoted and its closing Consume(DQuote).  At the   *)
(* EOF token IsQuotedChar holds and the Advance fails.                    *)
QuotedLoop(in, i, acc) ==
    CASE i > Len(in)              -> Fail(i)
      [] IsQuotedChar(in[i])      -> QuotedLoop(in, i + 1, acc \o <<in[i]>>)
      [] in[i] = "BS" /\ IsQuotedSpecial(Tok(in, i + 1))
                                  -> QuotedLoop(in, i + 2, acc \o <<in[i + 1]>>)
      [] in[i] = "BS"             -> Fail(i + 1)
      [] OTHER -> [ok |-> TRUE, val |-> acc, next |-> i + 1, cont |-> FALSE]

(* ParseQuoted from position 1: Consume(DQuote), then the loop.           *)
ParseQuoted(in) == IF Tok(in, 1) = "DQ" THEN QuotedLoop(in, 2, <<>>) ELSE Fail(1)

(* ParseString: a quoted string, or a literal whose bytes are the value.  *)
ParseString(in, cbFails) ==
    LET l == ParseLiteral(in, cbFails)
    IN CASE Tok(in, 1) = "DQ"     -> ParseQuoted(in)
         [] Tok(in, 1) = "{" /\ l.ok
                                  -> [l EXCEPT !.val = SubSeq(in, l.next - l.val, l.next - 1)]
         [] Tok(in, 1) = "{"      -> l
         [] OTHER                 -> Fail(1)

(* ParseAString: a string when the first token opens one, else the        *)
(* ASTRING-CHARs collected from there.                                    *)
ParseAString(in, cbFails) ==
    IF Tok(in, 1) \in {"DQ", "{"} THEN ParseString(in, cbFails)
    ELSE CollectAStringChars(in, 1)

=============================================================================
