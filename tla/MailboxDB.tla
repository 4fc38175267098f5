------------------------------ MODULE MailboxDB ------------------------------
(***************************************************************************)
(* The per-user metadata database as far as mailboxes, UID-NEXT and       *)
(* UID-VALIDITY are concerned (src/internal/db/mailbox.go).               *)
(*                                                                         *)
(* Every operation of that file runs inside one ent transaction which the *)
(* user hub executes under its per-user lock, so each one is an atomic    *)
(* step here.  A failing query (NotFound, a UNIQUE constraint on Name or  *)
(* RemoteID) rolls the transaction back: such calls change nothing and    *)
(* are left out as stuttering steps.                                      *)
(*                                                                         *)
(* Beside the tables the module keeps two history variables, read only by *)
(* the properties: the mailboxes deleted so far and every                 *)
(* (name, UIDVALIDITY, UID) -> message association a client could have    *)
(* observed.                                                              *)
(***************************************************************************)
EXTENDS Naturals, FiniteSets

CONSTANTS
    RemoteIDs,        \* remote mailbox ids handed out by the connector
    Names,            \* mailbox names (joined paths)
    NoRemote,         \* the empty remote id of a mailbox created locally
    NULL,             \* absence of a row
    MaxMailboxes,     \* bound: number of mailbox rows ever inserted
    MaxMessages,      \* bound: number of messages ever inserted
    MaxBump,          \* bound: largest count passed to BumpMailboxUIDNext
    GeneratorValues,  \* values the UIDValidityGenerator may return at load
    UIDBits           \* width of imap.UID (uint32), scaled down

ASSUME NoRemote \notin RemoteIDs
ASSUME MaxMailboxes \in Nat \ {0} /\ MaxMessages \in Nat /\ MaxBump \in Nat \ {0}
ASSUME UIDBits \in Nat \ {0}
ASSUME GeneratorValues \subseteq 1..(2^UIDBits - 1)

(* imap.UID.Add: uint32 addition, which wraps at 2^32.                    *)
UIDAdd(u, n) == (u + n) % (2^UIDBits)

VARIABLES
    globalUIDValidity, \* the UIDValidity singleton row, NULL before it exists
    mailbox,           \* internal mailbox id -> row, NULL when no such row
    nextMailboxID,     \* next AUTOINCREMENT id of the mailboxes table
    nextMessageID,     \* next internal message id
    deleted,           \* history: mailboxes deleted so far
    exposed            \* history: <<name, uidValidity, uid, message>> seen

vars == <<globalUIDValidity, mailbox, nextMailboxID, nextMessageID,
          deleted, exposed>>

MailboxIDs == 1..MaxMailboxes

(* A mailbox row with its UID records: uid -> internal message id.        *)
IsMailboxRow(row) ==
    /\ DOMAIN row = {"remoteID", "name", "uidValidity", "uidNext", "uids"}
    /\ row.remoteID \in RemoteIDs \cup {NoRemote}
    /\ row.name \in Names
    /\ row.uidValidity \in 0..(2^UIDBits - 1)
    /\ row.uidNext \in 0..(2^UIDBits - 1)
    /\ DOMAIN row.uids \subseteq 0..(2^UIDBits - 1)
    /\ \A u \in DOMAIN row.uids : row.uids[u] \in 1..MaxMessages

Live == {i \in MailboxIDs : mailbox[i] # NULL}

(* The <<name, uidValidity, uid, message>> associations of a table.       *)
Associations(mb) ==
    UNION {{<<mb[i].name, mb[i].uidValidity, u, mb[i].uids[u]>> :
               u \in DOMAIN mb[i].uids} : i \in {j \in MailboxIDs : mb[j] # NULL}}

-----------------------------------------------------------------------------
(* Queries.                                                               *)

MailboxExistsWithRemoteID(r) == \E i \in Live : mailbox[i].remoteID = r

MailboxExistsWithName(n) == \E i \in Live : mailbox[i].name = n

(* getGlobalUIDValidity: Only() fails with NotFound before the row exists. *)
getGlobalUIDValidity == globalUIDValidity

(* The UNIQUE constraints of the Mailbox schema on Name and RemoteID.     *)
UniqueOK(mb) ==
    \A i, j \in {k \in MailboxIDs : mb[k] # NULL} :
        i # j => /\ mb[i].name # mb[j].name
                 /\ mb[i].remoteID # NoRemote => mb[i].remoteID # mb[j].remoteID

-----------------------------------------------------------------------------
(* Operations of src/internal/db/mailbox.go.                              *)

(* Mutant: the generator's value overwrites the row without comparison.  *)
InitGlobalUIDValidityOverwrite(v) ==
    /\ globalUIDValidity' = v
    /\ UNCHANGED <<mailbox, nextMailboxID, nextMessageID>>

(* setGlobalUIDValidity: UPDATE the singleton row to v.                  *)
setGlobalUIDValidity(v) == globalUIDValidity' = v

(* InitGlobalUIDValidity: create the singleton row with the generator's   *)
(* value, or raise it with setGlobalUIDValidity when the new value is     *)
(* larger.                                                                *)
InitGlobalUIDValidity(v) ==
    /\ IF globalUIDValidity = NULL THEN globalUIDValidity' = v
       ELSE IF v > globalUIDValidity THEN setGlobalUIDValidity(v)
       ELSE UNCHANGED globalUIDValidity
    /\ UNCHANGED <<mailbox, nextMailboxID, nextMessageID>>

(* CreateMailbox: a new row whose UIDValidity is the current global value *)
(* and whose UIDNext is the schema default 1.  It fails when the global   *)
(* row is missing or the new row breaks a UNIQUE constraint.              *)
CreateMailbox(mboxID, name) ==
    LET row == [remoteID |-> mboxID, name |-> name,
                uidValidity |-> getGlobalUIDValidity, uidNext |-> 1,
                uids |-> [u \in {} |-> 1]]
        mb  == [mailbox EXCEPT ![nextMailboxID] = row]
    IN /\ nextMailboxID \in MailboxIDs
       /\ getGlobalUIDValidity # NULL
       /\ UniqueOK(mb)
       /\ mailbox' = mb
       /\ nextMailboxID' = nextMailboxID + 1
       /\ UNCHANGED <<globalUIDValidity, nextMessageID>>

(* CreateMailboxIfNotExists: a connector mailbox is created only when no  *)
(* row carries its remote id yet; otherwise the call changes nothing.     *)
CreateMailboxIfNotExists(mboxID, name) ==
    /\ ~MailboxExistsWithRemoteID(mboxID)
    /\ CreateMailbox(mboxID, name)

(* RenameMailboxWithRemoteID: UPDATE ... SET name WHERE remote_id = r.    *)
(* UIDValidity is left as it is.                                          *)
RenameMailboxWithRemoteID(mboxID, name) ==
    LET mb == [i \in MailboxIDs |->
                 IF mailbox[i] # NULL /\ mailbox[i].remoteID = mboxID
                 THEN [mailbox[i] EXCEPT !.name = name] ELSE mailbox[i]]
    IN /\ MailboxExistsWithRemoteID(mboxID)
       /\ UniqueOK(mb)
       /\ mailbox' = mb
       /\ UNCHANGED <<globalUIDValidity, nextMailboxID, nextMessageID>>

(* Mutant: the delete never bumps the global value.                       *)
NewUIDValidityNoBump(mboxValidity, cur) == cur

(* The value DeleteMailboxWithRemoteID computes from the deleted row and  *)
(* the current global UIDValidity.                                        *)
NewUIDValidity(mboxValidity, cur) ==
    IF mboxValidity = cur THEN UIDAdd(cur, 1) ELSE cur

(* DeleteMailboxWithRemoteID: Only() requires exactly one row; the global *)
(* UIDValidity is bumped when the row's value equals it; the row and its  *)
(* UID records are removed.                                               *)
DeleteMailboxWithRemoteID(mboxID) ==
    \E i \in Live :
        /\ mailbox[i].remoteID = mboxID
        /\ getGlobalUIDValidity # NULL
        /\ LET cur == getGlobalUIDValidity
               new == NewUIDValidity(mailbox[i].uidValidity, cur)
           IN IF new > cur THEN setGlobalUIDValidity(new) ELSE UNCHANGED globalUIDValidity
        /\ mailbox' = [mailbox EXCEPT ![i] = NULL]
        /\ UNCHANGED <<nextMailboxID, nextMessageID>>

(* UpdateRemoteMailboxID: attach the connector's id to a local mailbox.   *)
UpdateRemoteMailboxID(internalID, mboxID) ==
    LET mb == [mailbox EXCEPT ![internalID].remoteID = mboxID]
    IN /\ internalID \in Live
       /\ UniqueOK(mb)
       /\ mailbox' = mb
       /\ UNCHANGED <<globalUIDValidity, nextMailboxID, nextMessageID>>

(* Mutant: UIDNext is written back unchanged.                            *)
BumpMailboxUIDNextLost(row, n) == row

(* BumpMailboxUIDNext(mbox, n) writes mbox.UIDNext.Add(uint32(n)), where *)
(* mbox is the row the caller read in the same transaction.              *)
BumpMailboxUIDNext(row, n) == [row EXCEPT !.uidNext = UIDAdd(row.uidNext, n)]

(* Mutant: the message ids are numbered from one past nextMessageID.     *)
AddMessagesToMailboxOffByOne(i, n) ==
    LET row  == mailbox[i]
        msgs == [u \in {UIDAdd(row.uidNext, k) : k \in 0..n - 1} |->
                    nextMessageID + ((u - row.uidNext) % (2^UIDBits)) + 1]
    IN /\ i \in Live
       /\ nextMessageID + n - 1 <= MaxMessages
       /\ mailbox' = [mailbox EXCEPT ![i] = [BumpMailboxUIDNext(row, n) EXCEPT
                         !.uids = [u \in DOMAIN row.uids \cup DOMAIN msgs |->
                                     IF u \in DOMAIN msgs THEN msgs[u] ELSE row.uids[u]]]]
       /\ nextMessageID' = nextMessageID + n
       /\ UNCHANGED <<globalUIDValidity, nextMailboxID>>

(* The caller of BumpMailboxUIDNext (message creation in the state        *)
(* package): in one transaction it reads the row, inserts n UID records   *)
(* numbered from UIDNext for n new messages (each UID a uint32, so they   *)
(* wrap with UIDNext), and bumps UIDNext by n.                            *)
AddMessagesToMailbox(i, n) ==
    LET row  == mailbox[i]
        msgs == [u \in {UIDAdd(row.uidNext, k) : k \in 0..n - 1} |->
                    nextMessageID + ((u - row.uidNext) % (2^UIDBits))]
        new  == [BumpMailboxUIDNext(row, n) EXCEPT
                    !.uids = [u \in DOMAIN row.uids \cup DOMAIN msgs |->
                                IF u \in DOMAIN msgs THEN msgs[u]
                                ELSE row.uids[u]]]
    IN /\ i \in Live
       /\ nextMessageID + n - 1 <= MaxMessages
       /\ mailbox' = [mailbox EXCEPT ![i] = new]
       /\ nextMessageID' = nextMessageID + n
       /\ UNCHANGED <<globalUIDValidity, nextMailboxID>>

-----------------------------------------------------------------------------

Init ==
    /\ globalUIDValidity = NULL
    /\ mailbox = [i \in MailboxIDs |-> NULL]
    /\ nextMailboxID = 1
    /\ nextMessageID = 1
    /\ deleted = {}
    /\ exposed = {}

DBNext ==
    \/ \E v \in GeneratorValues : InitGlobalUIDValidity(v)
    \/ \E n \in Names : CreateMailbox(NoRemote, n)
    \/ \E r \in RemoteIDs, n \in Names : CreateMailboxIfNotExists(r, n)
    \/ \E r \in RemoteIDs, n \in Names : RenameMailboxWithRemoteID(r, n)
    \/ \E r \in RemoteIDs : DeleteMailboxWithRemoteID(r)
    \/ \E i \in MailboxIDs, r \in RemoteIDs : UpdateRemoteMailboxID(i, r)
    \/ \E i \in MailboxIDs, n \in 1..MaxBump : AddMessagesToMailbox(i, n)

(* The history variables follow every database step.                      *)
Next ==
    /\ DBNext
    /\ deleted' = deleted \cup
          {[name |-> mailbox[i].name, uidValidity |-> mailbox[i].uidValidity,
            nextID |-> nextMailboxID] : i \in {j \in Live : mailbox'[j] = NULL}}
    /\ exposed' = exposed \cup Associations(mailbox')

Spec == Init /\ [][Next]_vars

-----------------------------------------------------------------------------
(* Properties.                                                            *)

TypeOK ==
    /\ globalUIDValidity \in 0..(2^UIDBits - 1) \cup {NULL}
    /\ DOMAIN mailbox = MailboxIDs
    /\ \A i \in MailboxIDs : mailbox[i] = NULL \/ IsMailboxRow(mailbox[i])
    /\ nextMailboxID \in 1..(MaxMailboxes + 1)
    /\ nextMessageID \in 1..(MaxMessages + 1)

(* UID-VALIDITY is monotone per user (spec 8.4): no step of               *)
(* InitGlobalUIDValidity or DeleteMailboxWithRemoteID lowers the global   *)
(* value once it exists.                                                  *)
UIDValidityMonotone ==
    [][globalUIDValidity # NULL =>
         /\ globalUIDValidity' # NULL
         /\ globalUIDValidity' >= globalUIDValidity]_globalUIDValidity

(* A mailbox created after a mailbox was deleted reports, under the       *)
(* deleted mailbox's name, a strictly larger UIDVALIDITY (spec 8, scenario *)
(* 4): the bump in DeleteMailboxWithRemoteID and the global value taken   *)
(* by CreateMailbox must work together over any sequence of creates,      *)
(* deletes, renames and generator values at load.                         *)
ValidityFreshAfterDelete ==
    \A d \in deleted, i \in Live :
        (i >= d.nextID /\ mailbox[i].name = d.name)
            => mailbox[i].uidValidity > d.uidValidity

(* RFC 3501 2.3.1.1: UIDNEXT is above every UID of the mailbox, so the    *)
(* next message gets a UID no earlier message had.  AddMessagesToMailbox  *)
(* numbers new messages from the UIDNext it read and BumpMailboxUIDNext   *)
(* writes that copy plus n back: over any sequence of inserts, into any  *)
(* mailbox, the two must stay in step.                                    *)
UIDsBelowUIDNext ==
    \A i \in Live : \A u \in DOMAIN mailbox[i].uids : u < mailbox[i].uidNext

(* What a client caches: a (mailbox name, UIDVALIDITY, UID) triple always *)
(* denotes the same message (RFC 3501 2.3.1.1; spec 3 "destructive rename *)
(* ... bumps the global UID-VALIDITY").                                   *)
UIDTripleStable ==
    \A a, b \in exposed :
        (a[1] = b[1] /\ a[2] = b[2] /\ a[3] = b[3]) => a[4] = b[4]

=============================================================================
