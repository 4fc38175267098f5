----------------------------- MODULE MCSearchOps -----------------------------
(***************************************************************************)
(* Checks the compiled SEARCH operators over bounded inputs: every         *)
(* initial state is one (search key, message) pair and the properties     *)
(* are state predicates over it.  The key sets and messages are chosen in *)
(* the .cfg files.                                                         *)
(***************************************************************************)
EXTENDS SearchOps, FiniteSets, Functions

CONSTANTS
    KeySet,     \* the search keys to try on every message of Msgs
    Msgs,       \* the messages (searchData) to try them on
    DeepKeys    \* deeply nested keys, tried on one message

VARIABLES key, msg

vars == <<key, msg>>

-----------------------------------------------------------------------------
(* Bounded inputs.                                                        *)

W1 == CHOOSE w \in Words : TRUE
K1 == CHOOSE k \in Keywords : TRUE
F1 == CHOOSE f \in HeaderFields : TRUE

(* One key of every leaf kind, with fixed arguments: size 2, day 1.       *)
AllLeaves ==
    {Leaf(kw, "none") : kw \in FlagKWs \ {"KEYWORD", "UNKEYWORD", "UID", "SEQSET"}}
    \cup {Leaf("KEYWORD", K1), Leaf("UNKEYWORD", K1),
          Leaf("UID", {2}), Leaf("SEQSET", {1})}
    \cup {Leaf(kw, 2) : kw \in {"LARGER", "SMALLER"}}
    \cup {Leaf(kw, 1) : kw \in {"BEFORE", "ON", "SINCE",
                                "SENTBEFORE", "SENTON", "SENTSINCE"}}
    \cup {Leaf(kw, W1) : kw \in {"BCC", "CC", "FROM", "TO", "SUBJECT", "BODY", "TEXT"}}
    \cup {Leaf("HEADER", <<F1, W1>>)}

(* One leaf for each kind of data a closure reads.                        *)
ClassLeaves == {Leaf("SEEN", "none"), Leaf("LARGER", 2),
                Leaf("FROM", W1), Leaf("BODY", W1)}

Combine(S) == S \cup {Not(k) : k \in S} \cup {Or(l, r) : l, r \in S}
              \cup {List(<<>>)} \cup {List(<<k>>) : k \in S}
              \cup {List(<<l, r>>) : l, r \in S}

(* Every leaf, and one level of NOT / OR / list over a few of them.       *)
EvalKeys == AllLeaves \cup Combine({Leaf("NEW", "none"), Leaf("OLD", "none"),
                                     Leaf("FROM", W1), Leaf("SENTON", 1)})

(* Two-key lists mixing a flag key with a SENT* key.                     *)
AndKeys == {List(<<l, r>>) : l, r \in {Leaf("SEEN", "none"), Leaf("SENTON", 1)}}

(* Two levels of NOT / OR / list over one leaf of each data class.        *)
NeedsKeys == Combine(Combine(ClassLeaves))

(* The header holds the search word in at most one field.                *)
AllFields == Range(FieldOf) \cup HeaderFields
HeaderValues == {[f \in AllFields |-> {}]} \cup
                {[f \in AllFields |-> IF f = g THEN {W1} ELSE {}] : g \in AllFields}

(* Messages: flags from \recent, \seen and a keyword; the header fields   *)
(* and body holding the search word or not; instants around the end of   *)
(* day 0; zones and Date: headers as given.                               *)
MsgsWith(zones, valid) ==
    [uid : {2}, seq : {1},
     flags : SUBSET {"\\recent", "\\seen", "\\deleted", "\\answered", K1},
     size : {1, 3},
     date : {23, 24}, zone : zones,
     header : HeaderValues,
     hdrDate : {23, 24}, hdrZone : zones, hdrValid : valid,
     body : {{}, {W1}}]

UTCMsgs     == MsgsWith({0}, {TRUE})
NoDateMsgs  == MsgsWith({0}, BOOLEAN)
OneMsg      == {CHOOSE m \in UTCMsgs : TRUE}

-----------------------------------------------------------------------------
(* Every initial state is one (key, message) pair.                        *)

Init ==
    \/ key \in KeySet /\ msg \in Msgs
    \/ key \in DeepKeys /\ msg \in OneMsg

(* Inputs do not change: the checked object is a pure operator.           *)
Next == UNCHANGED vars

Spec == Init /\ [][Next]_vars

-----------------------------------------------------------------------------
(* The meaning the specification gives to each key (spec 4.5): flag and   *)
(* keyword membership, NEW = RECENT and not SEEN, OLD = not RECENT, dates *)
(* truncated to the UTC day, substring match of header, body and text,    *)
(* set membership for UID and sequence sets, and NOT / OR / AND as the    *)
(* logical connectives.                                                   *)
RECURSIVE SpecMatch(_, _)
SpecMatch(k, m) ==
    LET has(f) == f \in m.flags
        a      == k.arg
        utc    == m.date \div HoursPerDay
        sent   == m.hdrDate \div HoursPerDay
        words  == m.body \cup UNION {m.header[f] : f \in DOMAIN m.header}
        neg    == {"UNANSWERED", "UNDELETED", "UNDRAFT", "UNFLAGGED", "UNSEEN"}
        flagOf == [x \in {"ANSWERED", "DELETED", "DRAFT", "FLAGGED", "SEEN",
                          "RECENT"} \cup neg |->
                     CASE x \in {"ANSWERED", "UNANSWERED"} -> "\\answered"
                       [] x \in {"DELETED", "UNDELETED"}   -> "\\deleted"
                       [] x \in {"DRAFT", "UNDRAFT"}       -> "\\draft"
                       [] x \in {"FLAGGED", "UNFLAGGED"}   -> "\\flagged"
                       [] x \in {"SEEN", "UNSEEN"}         -> "\\seen"
                       [] x = "RECENT"                     -> "\\recent"]
    IN CASE k.kw = "NOT"  -> ~SpecMatch(k.sub[1], m)
         [] k.kw = "OR"   -> SpecMatch(k.sub[1], m) \/ SpecMatch(k.sub[2], m)
         [] k.kw = "LIST" -> \A i \in 1..Len(k.sub) : SpecMatch(k.sub[i], m)
         [] k.kw = "ALL"  -> TRUE
         [] k.kw \in neg  -> ~has(flagOf[k.kw])
         [] k.kw \in DOMAIN flagOf -> has(flagOf[k.kw])
         [] k.kw = "NEW"  -> has("\\recent") /\ ~has("\\seen")
         [] k.kw = "OLD"  -> ~has("\\recent")
         [] k.kw = "KEYWORD"   -> has(a)
         [] k.kw = "UNKEYWORD" -> ~has(a)
         [] k.kw = "UID"     -> m.uid \in a
         [] k.kw = "SEQSET"  -> m.seq \in a
         [] k.kw = "LARGER"  -> m.size > a
         [] k.kw = "SMALLER" -> m.size < a
         [] k.kw = "BEFORE"  -> utc < a
         [] k.kw = "ON"      -> utc = a
         [] k.kw = "SINCE"   -> utc >= a
         [] k.kw = "SENTBEFORE" -> sent < a
         [] k.kw = "SENTON"     -> sent = a
         [] k.kw = "SENTSINCE"  -> sent >= a
         [] k.kw \in DOMAIN FieldOf -> a \in m.header[FieldOf[k.kw]]
         [] k.kw = "HEADER" -> a[2] \in m.header[a[1]]
         [] k.kw = "BODY"   -> a \in m.body
         [] k.kw = "TEXT"   -> a \in words

-----------------------------------------------------------------------------
(* Properties.                                                            *)

(* Whatever a compiled key's closures read of a message is loaded by      *)
(* buildSearchData before they run, through any nesting of NOT, OR and    *)
(* lists: otherwise a header or body predicate runs on an empty literal   *)
(* or a zero date and silently fails to match.                            *)
NeedsCoverReads == Reads(key) \subseteq Loaded(buildSearchOp(key))

(* On messages with valid Date: headers in UTC, the compiled closure      *)
(* returns, without error, exactly the match the specification defines.  *)
OpMatchesSpec == searchOp(key, msg) = Res(SpecMatch(key, msg))

(* The keys of a search list are an AND (spec 4.5): the outcome for a     *)
(* message, error included, does not depend on their order.               *)
AndCommutes ==
    (key.kw = "LIST" /\ Len(key.sub) = 2) =>
        searchOp(key, msg) = searchOp(List(<<key.sub[2], key.sub[1]>>), msg)

=============================================================================
