------------------------------ MODULE MCLiteral ------------------------------
(***************************************************************************)
(* ParseAString checked against the astring rule of RFC 3501 (spec 4.1:  *)
(* astring, string, quoted and literal are parsed per RFC 3501) over      *)
(* every token stream "{" digits tail built from the digit strings and    *)
(* tails below, and every word over TextBytes, bare or after a DQuote,    *)
(* with a continuation callback whose write may fail.                     *)
(***************************************************************************)
EXTENDS Literal

CONSTANTS
    DigitSet,   \* the digits the size is written with
    MaxDigits,  \* the longest size string
    TextBytes,  \* the tokens words are built from
    EmptyAtoms, \* whether bare words may be empty astrings
    MaxText     \* the longest word

VARIABLES input, cbFails

vars == <<input, cbFails>>

RECURSIVE Strings(_, _)
(* All sequences over A of length at most n.                              *)
Strings(A, n) == IF n = 0 THEN {<<>>}
                 ELSE Strings(A, n - 1) \cup {s \o <<d>> : s \in Strings(A, n - 1), d \in A}

(* RFC 3501: ASTRING-CHAR = ATOM-CHAR / resp-specials, ATOM-CHAR = any    *)
(* CHAR but atom-specials: ( ) { SP CTL % * DQUOTE \ ].  The token "b"   *)
(* stands for every other byte, "%" and "*" among them, so the run never  *)
(* tells list-wildcards apart from other bytes and says nothing of them.  *)
RFCAStringChar(t) ==
    t \notin {"(", ")", "{", "SP", "CTL", "CR", "LF", "Tab", "%", "*", "DQ", "BS", "EOF"}

Words == Strings(TextBytes, MaxText)

(* The bare words: all of them, or those whose atom is not empty.         *)
BareWords == {w \in Words : EmptyAtoms \/ RFCAStringChar(Tok(w, 1))}

Bytes(k) == [i \in 1..k |-> "b"]

(* What may follow the size: a truncated or broken header, or a complete  *)
(* one with zero to LiteralLimit bytes after it.                          *)
Tails == {<<>>, <<"}">>, <<"}", "b">>, <<"}", "CR">>, <<"}", "CR", "b">>}
         \cup {<<"}", "CR", "LF">> \o Bytes(k) : k \in 0..LiteralLimit}

Inputs == {<<"{">> \o ds \o t : ds \in Strings(DigitSet, MaxDigits), t \in Tails}
          \cup BareWords \cup {<<"DQ">> \o w : w \in Words}

Init == input \in Inputs /\ cbFails \in BOOLEAN

(* The checked object is a pure operator: inputs do not change.           *)
Next == UNCHANGED vars

Spec == Init /\ [][Next]_vars

-----------------------------------------------------------------------------
RECURSIVE Decimal(_)
(* The value of a digit string as a mathematical integer.                 *)
Decimal(ds) == IF ds = <<>> THEN 0
               ELSE 10 * Decimal(SubSeq(ds, 1, Len(ds) - 1)) + ByteToInt[ds[Len(ds)]]

(* Spec 4.1: "{N}" CRLF then N bytes; N must be > 0 and <= 30 MiB (else  *)
(* protocol-limit); "+ Ready" is sent on reaching CR, before LF is       *)
(* consumed, and exactly N bytes are read.                                *)
SpecLiteral(in, fails) ==
    LET k    == CHOOSE j \in 2..Len(in) + 1 :
                    /\ \A x \in 2..j - 1 : in[x] \in Digits
                    /\ Tok(in, j) \notin Digits
        v    == Decimal(SubSeq(in, 2, k - 1))
        body == k + 3
        hdr  == Tok(in, k + 1) = "CR" /\ Tok(in, k + 2) = "LF"
        No   == [ok |-> FALSE, val |-> <<>>, cont |-> FALSE]
    IN CASE Tok(in, 1) # "{" \/ k = 2           -> No
         [] v = 0 \/ v > LiteralLimit           -> No
         [] Tok(in, k) # "}" \/ ~hdr            -> No
         [] fails \/ Len(in) - body + 1 < v     -> [No EXCEPT !.cont = TRUE]
         [] OTHER -> [ok |-> TRUE, val |-> SubSeq(in, body, body + v - 1), cont |-> TRUE]

(* RFC 3501: quoted = DQUOTE *QUOTED-CHAR DQUOTE, where QUOTED-CHAR is a  *)
(* TEXT-CHAR (any CHAR but CR and LF) other than DQUOTE and "\", or "\" *)
(* followed by one of them.                                               *)
RECURSIVE SpecQuotedFrom(_, _, _)
SpecQuotedFrom(in, i, acc) ==
    LET t == Tok(in, i)
    IN CASE t = "DQ" -> [ok |-> TRUE, val |-> acc, cont |-> FALSE]
         [] t = "BS" /\ Tok(in, i + 1) \in {"DQ", "BS"}
                      -> SpecQuotedFrom(in, i + 2, acc \o <<Tok(in, i + 1)>>)
         [] t \notin {"CR", "LF", "EOF", "BS"}
                      -> SpecQuotedFrom(in, i + 1, acc \o <<t>>)
         [] OTHER     -> [ok |-> FALSE, val |-> <<>>, cont |-> FALSE]

(* RFC 3501: astring = 1*ASTRING-CHAR / string.                           *)
SpecAString(in, fails) ==
    LET k == CHOOSE j \in 1..Len(in) + 1 :
                 /\ \A x \in 1..j - 1 : RFCAStringChar(in[x])
                 /\ ~RFCAStringChar(Tok(in, j))
    IN CASE Tok(in, 1) = "{"  -> SpecLiteral(in, fails)
         [] Tok(in, 1) = "DQ" -> SpecQuotedFrom(in, 2, <<>>)
         [] OTHER -> [ok |-> k > 1, val |-> SubSeq(in, 1, k - 1), cont |-> FALSE]


Outcome(r) == [ok |-> r.ok, val |-> IF r.ok THEN r.val ELSE <<>>, cont |-> r.cont]

-----------------------------------------------------------------------------
(* On every input of Inputs, ParseAString accepts exactly what RFC 3501  *)
(* and spec 4.1 accept, with the same value, and writes "+ Ready"        *)
(* exactly when the client is to send a literal's bytes: a wrong literal size, a continuation for *)
(* a rejected header, or a quoted string or atom that ends elsewhere than *)
(* the grammar says desynchronises the client's bytes from the command    *)
(* stream.                                                                 *)
AStringMatchesSpec ==
    Outcome(ParseAString(input, cbFails)) = SpecAString(input, cbFails)

=============================================================================
