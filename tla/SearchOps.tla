------------------------------ MODULE SearchOps ------------------------------
(***************************************************************************)
(* The SEARCH operator tree of src/internal/state/mailbox_search.go.       *)
(*                                                                         *)
(* buildSearchOp compiles a search key into a closure (searchOp) together  *)
(* with three requirements telling buildSearchData what to load for each   *)
(* message: the DB row (date, size), the literal, and the parsed header    *)
(* (which is parsed from the literal).  Here the closure is the operator   *)
(* searchOp(key, s) and the requirements are buildSearchOp(key).           *)
(*                                                                         *)
(* Data is abstracted to what the predicates tell apart: text is a set of *)
(* case-folded words (strings.Contains on lower-cased text becomes set     *)
(* membership), instants are whole hours since a UTC midnight, a time zone *)
(* is an offset in hours, and a resolved UID or sequence set is the set of *)
(* numbers it contains (resolveUIDInterval / resolveSeqInterval are not    *)
(* part of this module).                                                   *)
(***************************************************************************)
EXTENDS Integers, Sequences

CONSTANTS
    Words,          \* case-folded search words
    Keywords,       \* lower-cased keyword flags
    HeaderFields    \* header field names a HEADER key may name

(* System flags as FlagSet.ContainsUnchecked sees them: lower-cased.      *)
SystemFlags == {"\\answered", "\\deleted", "\\draft", "\\flagged",
                "\\recent", "\\seen"}

HoursPerDay == 24

(* Keys whose operator reads only the snapshot row (flags, UID, seq).    *)
FlagKWs == {"ALL", "ANSWERED", "DELETED", "DRAFT", "FLAGGED", "KEYWORD",
            "NEW", "OLD", "RECENT", "SEEN", "UNANSWERED", "UNDELETED",
            "UNDRAFT", "UNFLAGGED", "UNKEYWORD", "UNSEEN", "UID", "SEQSET"}
(* Keys built with needsDBMessage().                                      *)
DBKWs == {"BEFORE", "ON", "SINCE", "LARGER", "SMALLER"}
(* Keys built with needsHeader().                                         *)
HeaderKWs == {"BCC", "CC", "FROM", "TO", "SUBJECT", "HEADER",
              "SENTBEFORE", "SENTON", "SENTSINCE"}
(* Keys built with needsLiteral().                                        *)
LiteralKWs == {"BODY", "TEXT"}
LeafKWs == FlagKWs \cup DBKWs \cup HeaderKWs \cup LiteralKWs

(* Header fields read by the address and subject keys.                    *)
FieldOf == [k \in {"BCC", "CC", "FROM", "TO", "SUBJECT"} |->
              CASE k = "BCC" -> "Bcc" [] k = "CC" -> "Cc" [] k = "FROM" -> "From"
                [] k = "TO" -> "To" [] k = "SUBJECT" -> "Subject"]

(* A search key: kw, a leaf argument, and the sub-keys of NOT, OR and     *)
(* the parenthesised list (proto.SearchKey).                              *)
Leaf(kw, arg) == [kw |-> kw, arg |-> arg, sub |-> <<>>]
Not(k)        == [kw |-> "NOT", arg |-> "none", sub |-> <<k>>]
Or(l, r)      == [kw |-> "OR", arg |-> "none", sub |-> <<l, r>>]
List(ks)      == [kw |-> "LIST", arg |-> "none", sub |-> ks]

-----------------------------------------------------------------------------
(* Requirements: buildSearchOpResult without its op.                      *)

NoNeeds == [needsLiteral |-> FALSE, needsMessage |-> FALSE, needsHeader |-> FALSE]

(* merge: the requirements of b and other, field by field.                *)
merge(b, other) ==
    [needsLiteral |-> b.needsLiteral \/ other.needsLiteral,
     needsMessage |-> b.needsMessage \/ other.needsMessage,
     needsHeader  |-> b.needsHeader  \/ other.needsHeader]

(* Mutant: needsHeader() no longer implies loading the literal.           *)
LeafNeedsHeaderOnly(kw) ==
    CASE kw \in HeaderKWs  -> [NoNeeds EXCEPT !.needsHeader = TRUE]
      [] kw \in LiteralKWs -> [NoNeeds EXCEPT !.needsLiteral = TRUE]
      [] kw \in DBKWs      -> [NoNeeds EXCEPT !.needsMessage = TRUE]
      [] OTHER             -> NoNeeds

(* The options each leaf constructor passes to newBuildSearchOpResult:    *)
(* needsHeader() sets needsHeader and needsLiteral, needsLiteral() sets   *)
(* needsLiteral, needsDBMessage() sets needsMessage.                      *)
LeafNeeds(kw) ==
    CASE kw \in HeaderKWs  -> [NoNeeds EXCEPT !.needsHeader = TRUE,
                                              !.needsLiteral = TRUE]
      [] kw \in LiteralKWs -> [NoNeeds EXCEPT !.needsLiteral = TRUE]
      [] kw \in DBKWs      -> [NoNeeds EXCEPT !.needsMessage = TRUE]
      [] OTHER             -> NoNeeds

(* Mutant: buildSearchOpNot forgets to merge the negated key's needs.     *)
NotNeedsUnmerged(child) == NoNeeds

(* buildSearchOpNot: a fresh result merged with the negated key's.        *)
NotNeeds(child) == merge(NoNeeds, child)

RECURSIVE buildSearchOp(_)
(* buildSearchOp / buildSearchOpOr / buildSearchOpListWithKeys: the       *)
(* requirements of a compiled key.                                        *)
buildSearchOp(key) ==
    CASE key.kw \in LeafKWs -> LeafNeeds(key.kw)
      [] key.kw = "NOT"     -> NotNeeds(buildSearchOp(key.sub[1]))
      [] key.kw = "OR"      -> merge(merge(NoNeeds, buildSearchOp(key.sub[1])),
                                     buildSearchOp(key.sub[2]))
      [] key.kw = "LIST"    ->
            LET RECURSIVE MergeAll(_)
                MergeAll(i) == IF i = 0 THEN NoNeeds
                               ELSE merge(MergeAll(i - 1), buildSearchOp(key.sub[i]))
            IN MergeAll(Len(key.sub))

-----------------------------------------------------------------------------
(* Evaluation.  A searchData s is a snapshot row (uid, seq, flags) with   *)
(* the DB row (size, date, zone), the header (field -> words, and its     *)
(* Date: header as an instant with its zone; hdrValid is FALSE when       *)
(* ParseRFC5322DateTime fails) and the body words of the literal.         *)
(* An operator returns [ok, err] as the Go closure returns (bool, error). *)

Res(b)   == [ok |-> b, err |-> FALSE]
ErrRes   == [ok |-> FALSE, err |-> TRUE]

(* convertToDateWithoutTZ: the calendar day of t in its own zone, as a    *)
(* UTC midnight; here the day number.                                     *)
convertToDateWithoutTZ(t, zone) == (t + zone) \div HoursPerDay

(* time.Truncate(24h) works on the absolute instant: the UTC day.         *)
TruncateDay(t) == t \div HoursPerDay

(* The leaf closures, one per constructor, named after it.  a is the      *)
(* key's argument: a case-folded word, a lower-cased flag, a size, a day  *)
(* number d (time.Parse of "_2-Jan-2006" gives the UTC midnight d * 24),  *)
(* a [field, word] pair for HEADER, or a resolved UID or sequence set.    *)
(* s.flags is what FlagSet.ContainsUnchecked looks up.                    *)
buildSearchOpAll(a, s)        == Res(TRUE)
buildSearchOpAnswered(a, s)   == Res("\\answered" \in s.flags)
buildSearchOpDeleted(a, s)    == Res("\\deleted" \in s.flags)
buildSearchOpDraft(a, s)      == Res("\\draft" \in s.flags)
buildSearchOpFlagged(a, s)    == Res("\\flagged" \in s.flags)
buildSearchOpRecent(a, s)     == Res("\\recent" \in s.flags)
buildSearchOpSeen(a, s)       == Res("\\seen" \in s.flags)
buildSearchOpKeyword(a, s)    == Res(a \in s.flags)
buildSearchOpNew(a, s)        == Res("\\recent" \in s.flags /\ "\\seen" \notin s.flags)
buildSearchOpOld(a, s)        == Res("\\recent" \notin s.flags)
buildSearchOpUnanswered(a, s) == Res("\\answered" \notin s.flags)
buildSearchOpUndeleted(a, s)  == Res("\\deleted" \notin s.flags)
buildSearchOpUndraft(a, s)    == Res("\\draft" \notin s.flags)
buildSearchOpUnflagged(a, s)  == Res("\\flagged" \notin s.flags)
buildSearchOpUnkeyword(a, s)  == Res(a \notin s.flags)
buildSearchOpUnseen(a, s)     == Res("\\seen" \notin s.flags)

(* UID and sequence sets: some resolved interval contains the number.     *)
buildSearchOpUID(a, s)    == Res(s.uid \in a)
buildSearchOpSeqSet(a, s) == Res(s.seq \in a)

(* The DB row: size, and the INTERNALDATE compared as an instant (BEFORE), *)
(* as a UTC day (ON), or as the day in its own zone (SINCE).              *)
buildSearchOpLarger(a, s)  == Res(s.size > a)
buildSearchOpSmaller(a, s) == Res(s.size < a)
buildSearchOpBefore(a, s)  == Res(s.date < a * HoursPerDay)
buildSearchOpOn(a, s)      == Res(TruncateDay(a * HoursPerDay) = TruncateDay(s.date))
buildSearchOpSince(a, s)   == Res(convertToDateWithoutTZ(s.date, s.zone) >= a)

(* header.Get(field) contains the word, case-folded.                      *)
HeaderContains(field, a, s) == Res(a \in s.header[field])
buildSearchOpBcc(a, s)     == HeaderContains("Bcc", a, s)
buildSearchOpCc(a, s)      == HeaderContains("Cc", a, s)
buildSearchOpFrom(a, s)    == HeaderContains("From", a, s)
buildSearchOpSubject(a, s) == HeaderContains("Subject", a, s)
buildSearchOpTo(a, s)      == HeaderContains("To", a, s)
buildSearchOpHeader(a, s)  == HeaderContains(a[1], a[2], s)

(* The SENT* keys: ParseRFC5322DateTime of the Date: header fails (an      *)
(* error) or gives the day in the header's own zone.                      *)
SentDay(s) == convertToDateWithoutTZ(s.hdrDate, s.hdrZone)
buildSearchOpSentBefore(a, s) == IF s.hdrValid THEN Res(SentDay(s) < a) ELSE ErrRes
buildSearchOpSentOn(a, s)     == IF s.hdrValid THEN Res(SentDay(s) = a) ELSE ErrRes
buildSearchOpSentSince(a, s)  == IF s.hdrValid THEN Res(SentDay(s) >= a) ELSE ErrRes

(* BODY looks in the body of rfc822.Parse(literal), TEXT in the whole     *)
(* literal.                                                               *)
buildSearchOpBody(a, s) == Res(a \in s.body)
buildSearchOpText(a, s) == Res(a \in s.body \cup UNION {s.header[f] : f \in DOMAIN s.header})

(* The switch of buildSearchOp over the leaf key kinds.                   *)
LeafOp(key, s) ==
    LET a == key.arg
    IN CASE key.kw = "ALL"        -> buildSearchOpAll(a, s)
         [] key.kw = "ANSWERED"   -> buildSearchOpAnswered(a, s)
         [] key.kw = "DELETED"    -> buildSearchOpDeleted(a, s)
         [] key.kw = "DRAFT"      -> buildSearchOpDraft(a, s)
         [] key.kw = "FLAGGED"    -> buildSearchOpFlagged(a, s)
         [] key.kw = "RECENT"     -> buildSearchOpRecent(a, s)
         [] key.kw = "SEEN"       -> buildSearchOpSeen(a, s)
         [] key.kw = "NEW"        -> buildSearchOpNew(a, s)
         [] key.kw = "OLD"        -> buildSearchOpOld(a, s)
         [] key.kw = "UNANSWERED" -> buildSearchOpUnanswered(a, s)
         [] key.kw = "UNDELETED"  -> buildSearchOpUndeleted(a, s)
         [] key.kw = "UNDRAFT"    -> buildSearchOpUndraft(a, s)
         [] key.kw = "UNFLAGGED"  -> buildSearchOpUnflagged(a, s)
         [] key.kw = "UNSEEN"     -> buildSearchOpUnseen(a, s)
         [] key.kw = "KEYWORD"    -> buildSearchOpKeyword(a, s)
         [] key.kw = "UNKEYWORD"  -> buildSearchOpUnkeyword(a, s)
         [] key.kw = "UID"        -> buildSearchOpUID(a, s)
         [] key.kw = "SEQSET"     -> buildSearchOpSeqSet(a, s)
         [] key.kw = "LARGER"     -> buildSearchOpLarger(a, s)
         [] key.kw = "SMALLER"    -> buildSearchOpSmaller(a, s)
         [] key.kw = "BEFORE"     -> buildSearchOpBefore(a, s)
         [] key.kw = "ON"         -> buildSearchOpOn(a, s)
         [] key.kw = "SINCE"      -> buildSearchOpSince(a, s)
         [] key.kw = "BCC"        -> buildSearchOpBcc(a, s)
         [] key.kw = "CC"         -> buildSearchOpCc(a, s)
         [] key.kw = "FROM"       -> buildSearchOpFrom(a, s)
         [] key.kw = "SUBJECT"    -> buildSearchOpSubject(a, s)
         [] key.kw = "TO"         -> buildSearchOpTo(a, s)
         [] key.kw = "HEADER"     -> buildSearchOpHeader(a, s)
         [] key.kw = "SENTBEFORE" -> buildSearchOpSentBefore(a, s)
         [] key.kw = "SENTON"     -> buildSearchOpSentOn(a, s)
         [] key.kw = "SENTSINCE"  -> buildSearchOpSentSince(a, s)
         [] key.kw = "BODY"       -> buildSearchOpBody(a, s)
         [] key.kw = "TEXT"       -> buildSearchOpText(a, s)

(* buildSearchOpNot's closure.                                            *)
NotOp(r) == IF r.err THEN ErrRes ELSE Res(~r.ok)

(* Mutant: OR combines its sides with AND.                               *)
OrOpAnd(l, r) == IF l.err THEN ErrRes ELSE IF r.err THEN ErrRes ELSE Res(l.ok /\ r.ok)

(* buildSearchOpOr's closure: both sides are evaluated, left first.       *)
OrOp(l, r) == IF l.err THEN ErrRes ELSE IF r.err THEN ErrRes ELSE Res(l.ok \/ r.ok)

RECURSIVE searchOp(_, _)
(* The compiled closure of a key applied to one message.  The list        *)
(* closure of buildSearchOpListWithKeys evaluates its operators in order, *)
(* returns the first error, and stops at the first false result.          *)
searchOp(key, s) ==
    CASE key.kw \in LeafKWs -> LeafOp(key, s)
      [] key.kw = "NOT"     -> NotOp(searchOp(key.sub[1], s))
      [] key.kw = "OR"      -> OrOp(searchOp(key.sub[1], s), searchOp(key.sub[2], s))
      [] key.kw = "LIST"    ->
            LET RECURSIVE Loop(_)
                Loop(i) == IF i > Len(key.sub) THEN Res(TRUE)
                           ELSE LET r == searchOp(key.sub[i], s)
                                IN IF r.err THEN ErrRes
                                   ELSE IF ~r.ok THEN Res(FALSE)
                                   ELSE Loop(i + 1)
            IN Loop(1)

-----------------------------------------------------------------------------
(* What each closure reads of searchData, taken from the closure bodies:  *)
(* "message" for s.dbMessage, "header" for s.header, "literal" for        *)
(* s.literal.                                                             *)
LeafReads(kw) ==
    CASE kw \in DBKWs      -> {"message"}
      [] kw \in HeaderKWs  -> {"header"}
      [] kw \in LiteralKWs -> {"literal"}
      [] OTHER             -> {}

RECURSIVE Reads(_)
Reads(key) ==
    IF key.kw \in LeafKWs THEN LeafReads(key.kw)
    ELSE UNION {Reads(key.sub[i]) : i \in 1..Len(key.sub)}

(* What buildSearchData makes available: the header is parsed from       *)
(* data.literal, so it is only correct when the literal was loaded too.   *)
Loaded(n) ==
    {x \in {"message", "literal", "header"} :
        \/ x = "message" /\ n.needsMessage
        \/ x = "literal" /\ n.needsLiteral
        \/ x = "header"  /\ n.needsHeader /\ n.needsLiteral}

=============================================================================
