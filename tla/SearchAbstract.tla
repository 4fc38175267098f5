---------------------------- MODULE SearchAbstract ----------------------------
(***************************************************************************)
(* What Mailbox.Search promises (spec 4.5 and 8.6): one atomic step that  *)
(* answers a search over the session's snapshot with the UIDs (UID        *)
(* SEARCH) or sequence numbers of the matching messages in ascending      *)
(* sequence order, or with an error when loading a message's data failed  *)
(* or the key did not compile.  No partial result is ever returned.       *)
(***************************************************************************)
EXTENDS Sequences, SearchOps

CONSTANTS
    Sessions,   \* sessions that may search concurrently
    Snap,       \* session -> its snapshot: a sequence of searchData rows
    Keys,       \* search keys the sessions may send
    CanFail     \* whether buildSearchData may fail to load data

VARIABLES
    pc,         \* session -> "idle" | "asked" | "done"
    request,    \* session -> the search asked for: [key, uid]
    answer      \* session -> last answer: [err, value]

NoAnswer == [err |-> FALSE, value |-> <<>>]
ErrAnswer == [err |-> TRUE, value |-> <<>>]

(* The value a row contributes: its UID in UID mode, else its seq.        *)
Mapped(uidMode, m) == IF uidMode THEN m.uid ELSE m.seq

(* The matching rows of a snapshot, in order, mapped.                     *)
Matching(snap, k, uidMode) ==
    LET hits == SelectSeq(snap, LAMBDA m : searchOp(k, m).ok)
    IN [i \in 1..Len(hits) |-> Mapped(uidMode, hits[i])]

(* An error comes from a closure or from a failed load of data the key    *)
(* needs for some message.                                                *)
MayFail(snap, k) ==
    \/ \E i \in 1..Len(snap) : searchOp(k, snap[i]).err
    \/ CanFail /\ buildSearchOp(k) # NoNeeds /\ Len(snap) > 0

NoRequest == [key |-> [kw |-> "NONE", arg |-> "none", sub |-> <<>>], uid |-> FALSE]

Init ==
    /\ pc = [s \in Sessions |-> "idle"]
    /\ request = [s \in Sessions |-> NoRequest]
    /\ answer = [s \in Sessions |-> NoAnswer]

(* The session issues SEARCH or UID SEARCH with a key.                    *)
Ask(s) ==
    /\ pc[s] = "idle"
    /\ \E k \in Keys, uid \in BOOLEAN :
           request' = [request EXCEPT ![s] = [key |-> k, uid |-> uid]]
    /\ pc' = [pc EXCEPT ![s] = "asked"]
    /\ UNCHANGED answer

(* The search answers the request in one step.                            *)
Search(s) ==
    /\ pc[s] = "asked"
    /\ LET k   == request[s].key
           uid == request[s].uid
       IN \/ /\ ~(\E i \in 1..Len(Snap[s]) : searchOp(k, Snap[s][i]).err)
             /\ answer' = [answer EXCEPT ![s] = [err |-> FALSE,
                                   value |-> Matching(Snap[s], k, uid)]]
          \/ /\ MayFail(Snap[s], k)
             /\ answer' = [answer EXCEPT ![s] = ErrAnswer]
    /\ pc' = [pc EXCEPT ![s] = "done"]
    /\ request' = [request EXCEPT ![s] = NoRequest]

NextCommand(s) ==
    /\ pc[s] = "done"
    /\ pc' = [pc EXCEPT ![s] = "idle"]
    /\ UNCHANGED <<request, answer>>

Next == \E s \in Sessions : Ask(s) \/ Search(s) \/ NextCommand(s)

Spec == Init /\ [][Next]_<<pc, request, answer>>

=============================================================================
