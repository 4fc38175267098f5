------------------------------- MODULE Expunge -------------------------------
(***************************************************************************)
(* EXPUNGE and UID EXPUNGE (src/internal/session/handle_expunge.go) run   *)
(* by several sessions selected on one mailbox, with the parts they call  *)
(* that are not in this repository modelled from the specification:      *)
(* Mailbox.Expunge (spec 4.3, 4.4: the DB change under the per-user lock, *)
(* the session's own snapshot changed at once with the removed seqs kept  *)
(* as pending expunges, the update pushed to every other selected         *)
(* session's queue), flush (spec 4.4: own pending expunges, then the      *)
(* queued updates as one batch in descending seq order, only when the    *)
(* command permits expunges), SELECT, STORE \Deleted and the commands    *)
(* that flush at their end.                                               *)
(*                                                                         *)
(* A message is its UID.  The client of each session is represented by   *)
(* the view it builds from the EXPUNGE responses it reads.                *)
(***************************************************************************)
EXTENDS Naturals, Sequences, SequencesExt, FiniteSets

CONSTANTS
    Sessions,   \* sessions selected on the mailbox
    ReadOnly,   \* sessions that selected it with EXAMINE
    UIDs,       \* UIDs of the mailbox's messages at the start
    UIDSets,    \* UID sets a UID EXPUNGE may name
    CanFail     \* whether Mailbox.Expunge may fail (DB error)

ASSUME ReadOnly \subseteq Sessions /\ UIDs \subseteq Nat \ {0}
ASSUME UIDSets \subseteq SUBSET UIDs

VARIABLES
    present,    \* DB: UIDs that have a UID record in the mailbox
    deleted,    \* DB: UIDs whose \Deleted flag is set
    snap,       \* session -> its snapshot: UIDs in seq order
    pending,    \* session -> seqs its own Expunge removed, not yet reported
    queue,      \* session -> updates pushed to it: a sequence of UID sets
    pc,         \* session -> "idle" | "flush" (between Expunge and flush)
    cmdSet,     \* session -> the UIDs its EXPUNGE in progress asked for
    tagged,     \* session -> status of its last tagged response
    view        \* session -> the client's view: UIDs by seq

vars == <<present, deleted, snap, pending, queue, pc, cmdSet, tagged, view>>

(* Mutant: the snapshot query leaves out the messages flagged \Deleted.  *)
NewSnapshotSkipDeleted(P) == SetToSortSeq(P \ deleted, <)

(* GetMailboxMessagesForNewSnapshot: every UID record of the mailbox,     *)
(* ORDER BY uid.                                                          *)
NewSnapshot(P) == SetToSortSeq(P, <)

(* The seqs of the rows of sn whose UID is in G, highest first.           *)
SeqsDescending(sn, G) == SetToSortSeq({i \in 1..Len(sn) : sn[i] \in G}, >)

(* What a client does with "* n EXPUNGE" responses, in the order read.    *)
ApplyExpunges(v, ns) == FoldLeft(LAMBDA w, n : RemoveAt(w, n), v, ns)

Init ==
    /\ present = UIDs
    /\ deleted = {}
    /\ snap = [s \in Sessions |-> NewSnapshot(UIDs)]
    /\ pending = [s \in Sessions |-> <<>>]
    /\ queue = [s \in Sessions |-> <<>>]
    /\ pc = [s \in Sessions |-> "idle"]
    /\ cmdSet = [s \in Sessions |-> {}]
    /\ tagged = [s \in Sessions |-> "OK"]
    /\ view = [s \in Sessions |-> NewSnapshot(UIDs)]

-----------------------------------------------------------------------------
(* Mailbox.Expunge and flush (spec 4.3, 4.4).                             *)

(* Mailbox.Expunge(ctx, set): in one transaction the flagged messages of *)
(* the set leave the mailbox; the session's snapshot loses them at once, *)
(* highest seq first, each removed seq kept for the next flush; the      *)
(* other sessions get the update on their queues.                        *)
MailboxExpunge(s, set) ==
    LET gone == present \cap deleted \cap set
    IN /\ present' = present \ gone
       /\ deleted' = deleted \ gone
       /\ snap' = [snap EXCEPT ![s] = SelectSeq(@, LAMBDA u : u \notin gone)]
       /\ pending' = [pending EXCEPT ![s] = @ \o SeqsDescending(snap[s], gone)]
       /\ queue' = [t \in Sessions |->
                      IF t = s \/ gone = {} THEN queue[t]
                      ELSE Append(queue[t], gone)]

(* flush(ctx, mailbox, true, ch): the session's own pending expunges are *)
(* reported, then the queued updates are applied to the snapshot and     *)
(* reported as one batch in descending seq order.                        *)
FlushWithExpunges(s) ==
    LET upd == UNION Range(queue[s])
    IN /\ snap' = [snap EXCEPT ![s] = SelectSeq(@, LAMBDA u : u \notin upd)]
       /\ view' = [view EXCEPT ![s] =
                     ApplyExpunges(@, pending[s] \o SeqsDescending(snap[s], upd))]
       /\ pending' = [pending EXCEPT ![s] = <<>>]
       /\ queue' = [queue EXCEPT ![s] = <<>>]

-----------------------------------------------------------------------------
(* The handlers of handle_expunge.go.  Each runs Mailbox.Expunge, returns *)
(* the handler error (tagged NO) on a read-only mailbox or a failed       *)
(* Expunge, and otherwise flushes with expunges permitted (Flush) and     *)
(* answers OK.                                                            *)

(* req is what the command asks for (every message for EXPUNGE, its UID  *)
(* set for UID EXPUNGE); set is what the handler passes to Expunge.       *)
ExpungeWith(s, req, set) ==
    /\ pc[s] = "idle"
    /\ \/ /\ s \in ReadOnly
          /\ tagged' = [tagged EXCEPT ![s] = "NO"]
          /\ UNCHANGED <<present, deleted, snap, pending, queue, pc, cmdSet, view>>
       \/ /\ s \notin ReadOnly /\ CanFail
          /\ tagged' = [tagged EXCEPT ![s] = "NO"]
          /\ UNCHANGED <<present, deleted, snap, pending, queue, pc, cmdSet, view>>
       \/ /\ s \notin ReadOnly
          /\ MailboxExpunge(s, set)
          /\ pc' = [pc EXCEPT ![s] = "flush"]
          /\ cmdSet' = [cmdSet EXCEPT ![s] = req]
          /\ UNCHANGED <<tagged, view>>

(* handleExpunge: Mailbox.Expunge(ctx, nil), every flagged message.       *)
handleExpunge(s) == ExpungeWith(s, UIDs, UIDs)

(* Mutant: UID EXPUNGE passes nil instead of the command's set.          *)
handleUIDExpungeNilSet(s, set) == ExpungeWith(s, set, UIDs)

(* handleUIDExpunge: Mailbox.Expunge(ctx, cmd.GetSequenceSet()).          *)
handleUIDExpunge(s, set) == ExpungeWith(s, set, set)

(* Mutant: the handler answers OK without calling flush.                 *)
FlushSkipped(s) ==
    /\ pc[s] = "flush"
    /\ pc' = [pc EXCEPT ![s] = "idle"]
    /\ cmdSet' = [cmdSet EXCEPT ![s] = {}]
    /\ tagged' = [tagged EXCEPT ![s] = "OK"]
    /\ UNCHANGED <<present, deleted, snap, view, pending, queue>>

(* The flush call of both handlers and the tagged OK.                     *)
Flush(s) ==
    /\ pc[s] = "flush"
    /\ FlushWithExpunges(s)
    /\ pc' = [pc EXCEPT ![s] = "idle"]
    /\ cmdSet' = [cmdSet EXCEPT ![s] = {}]
    /\ tagged' = [tagged EXCEPT ![s] = "OK"]
    /\ UNCHANGED <<present, deleted>>

-----------------------------------------------------------------------------
(* The other commands of a selected session (spec 4.2 - 4.4).             *)

(* SELECT / EXAMINE of the same mailbox: a fresh snapshot from the DB.    *)
Select(s) ==
    /\ pc[s] = "idle"
    /\ snap' = [snap EXCEPT ![s] = NewSnapshot(present)]
    /\ view' = [view EXCEPT ![s] = NewSnapshot(present)]
    /\ pending' = [pending EXCEPT ![s] = <<>>]
    /\ queue' = [queue EXCEPT ![s] = <<>>]
    /\ tagged' = [tagged EXCEPT ![s] = "OK"]
    /\ UNCHANGED <<present, deleted, pc, cmdSet>>

(* STORE (or UID STORE) +FLAGS (\Deleted) on a message of the snapshot;   *)
(* the end-of-command flush reports expunges only for the UID variant.   *)
StoreDeleted(s, u, uidVariant) ==
    /\ pc[s] = "idle" /\ s \notin ReadOnly
    /\ u \in Range(snap[s])
    /\ deleted' = deleted \cup ({u} \cap present)
    /\ IF uidVariant THEN FlushWithExpunges(s)
       ELSE UNCHANGED <<snap, view, pending, queue>>
    /\ tagged' = [tagged EXCEPT ![s] = "OK"]
    /\ UNCHANGED <<present, pc, cmdSet>>

(* NOOP (expunges permitted) or a non-UID FETCH / SEARCH (deferred).      *)
OtherCommand(s, permit) ==
    /\ pc[s] = "idle"
    /\ IF permit THEN FlushWithExpunges(s)
       ELSE UNCHANGED <<snap, view, pending, queue>>
    /\ tagged' = [tagged EXCEPT ![s] = "OK"]
    /\ UNCHANGED <<present, deleted, pc, cmdSet>>

Next ==
    \E s \in Sessions :
        \/ handleExpunge(s)
        \/ \E set \in UIDSets : handleUIDExpunge(s, set)
        \/ Flush(s)
        \/ Select(s)
        \/ \E u \in UIDs, b \in BOOLEAN : StoreDeleted(s, u, b)
        \/ \E b \in BOOLEAN : OtherCommand(s, b)

Spec == Init /\ [][Next]_vars

-----------------------------------------------------------------------------
(* Properties.                                                            *)

TypeOK ==
    /\ present \subseteq UIDs /\ deleted \subseteq UIDs
    /\ \A s \in Sessions :
          /\ snap[s] \in Seq(UIDs) /\ view[s] \in Seq(UIDs)
          /\ pending[s] \in Seq(Nat \ {0})
          /\ queue[s] \in Seq(SUBSET UIDs)
          /\ pc[s] \in {"idle", "flush"}
          /\ cmdSet[s] \subseteq UIDs
          /\ tagged[s] \in {"OK", "NO"}

(* Whenever a session has answered its command, the client, having       *)
(* applied every "* n EXPUNGE" it read in order, numbers the messages    *)
(* exactly as the session's snapshot does: the own expunges of EXPUNGE,  *)
(* the expunges of other sessions queued meanwhile, and the deferral     *)
(* during FETCH and SEARCH must combine so that no seq number the client *)
(* uses points at another message.                                        *)
ClientViewConsistent ==
    \A s \in Sessions : pc[s] = "idle" => view[s] = snap[s]

(* A message leaves the mailbox only through the EXPUNGE or UID EXPUNGE  *)
(* of a read-write session, only if it is flagged \Deleted, and for UID  *)
(* EXPUNGE only if the command names its UID (RFC 4315): another         *)
(* client's \Deleted messages outside the set survive.                   *)
ExpungeOnlyRequested ==
    [][\A u \in present \ present' :
          /\ u \in deleted
          /\ \E s \in Sessions \ ReadOnly :
                pc[s] = "idle" /\ pc'[s] = "flush" /\ u \in cmdSet'[s]]_present

(* Spec 8.3: once no session is inside a command and no update is left   *)
(* on any queue, every session's snapshot holds exactly the mailbox's    *)
(* messages.                                                              *)
SnapshotsConverge ==
    (\A s \in Sessions : pc[s] = "idle" /\ queue[s] = <<>>) =>
        \A s \in Sessions : Range(snap[s]) = present

=============================================================================
