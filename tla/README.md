# TLA+ models of gluon

gluon is an embeddable IMAP4rev1 server. This directory holds TLA+ models of
the parts of it that are in `src/`, the TLC configurations that check them, and
`PROJECT.json`. That file records the components, runs, mutants, the map from
definitions to source lines, findings and hazards.

## The system and how its parts interact

| Part | Source | State | Operations |
|---|---|---|---|
| DB mailbox layer | `src/internal/db/mailbox.go` | mailbox rows (remote id, name, UIDVALIDITY, UIDNext, UID records), the global UIDVALIDITY row | create, create-if-not-exists, rename, delete (with the UIDVALIDITY bump), remote-id update, UIDNext bump, global init/set |
| SEARCH compiler | `src/internal/state/mailbox_search.go` 78-848 | none (pure): a key compiles to a closure plus three load requirements | `buildSearchOp*`, the leaf closures, NOT / OR / list, `buildSearchData`, `applySearch` |
| SEARCH execution | same file, `Mailbox.Search` 26-76 | process-wide `totalActiveSearchRequests`; per search: result slots, workers | increment, compute parallelism, parallel pass, filter, deferred decrement |
| rfcparser | `src/rfcparser/parser.go` | parser position | `ParseNumber`, `ParseLiteral` (with the `+ Ready` continuation callback), `ParseQuoted`, `ParseString`, `ParseAString`, the token predicates |
| Command parser | `src/imap/command/parser.go` (+ `uid.go`, `copy.go`) | last tag / command | `Parse`, `parseCommand` |
| Command reader | `src/internal/session/command.go` | reader goroutine, unbuffered `cmdCh`, TLS state | parse loop, its early returns, inline STARTTLS, publish-or-cancel select |
| EXPUNGE handlers | `src/internal/session/handle_expunge.go`, snapshot in `src/internal/db/mailbox.go` 245-261 | mailbox contents, per-session snapshot and update queue (not in src) | `handleExpunge`, `handleUIDExpunge`, `Mailbox.Expunge`, `flush` |

The command reader goroutine parses lines with the command parser. The
parser calls the rfcparser for literals. The reader publishes each result on
`cmdCh` to the session handler. The handler runs commands such as SEARCH
(`Mailbox.Search`) against the session's snapshot and the user's DB. Several
sessions of one user share the DB, which is serialized by the per-user lock.
All sessions of the process share the search counter.

The hard parts are these:
- the concurrent search workers and the shared counter;
- the hand-off between reader and handler, with STARTTLS handled on the reader side;
- the UIDVALIDITY rules over long sequences of DB operations;
- integer and boundary behaviour in the parser.

## Modules

### `MailboxDB` and `MCMailboxDB`

Each DB function is one atomic action, because every call is one ent
transaction under the per-user lock. A call that fails (NotFound, or a UNIQUE
constraint) rolls back, so it is a stutter.

Actions:
- `InitGlobalUIDValidity(v)` and `CreateMailbox(remote, name)`;
- `CreateMailboxIfNotExists`, `RenameMailboxWithRemoteID` and `DeleteMailboxWithRemoteID`;
- `UpdateRemoteMailboxID` and `AddMessagesToMailbox`.

`AddMessagesToMailbox` is the caller of `BumpMailboxUIDNext`. That caller is
not in `src/`, so it is modelled from the spec. `deleted` and `exposed` are
history variables read only by the properties. `exposed` holds every
(name, UIDVALIDITY, UID, message) association a client could have seen.

`UIDBits` scales the width of `imap.UID` (uint32) down. `UIDAdd` adds modulo
`2^UIDBits`, as Go's uint32 addition does. The pass runs use 3 bits, where no
wrap is reachable. `MCMailboxDB_wrap.cfg` uses 2 bits, so that the UIDVALIDITY
bump on delete wraps to 0. `MCMailboxDB_cache.cfg` uses 2 bits and 5 messages,
so that UIDNext wraps and the UIDs handed out by `AddMessagesToMailbox` wrap
with it.

### `SearchOps` and `MCSearchOps`

`buildSearchOp(key)` gives the requirements and `searchOp(key, s)` gives the
closure's `(bool, error)`. Each leaf closure is its own operator, named after
its constructor (`buildSearchOpSeen`, `buildSearchOpSentOn`, ...). `LeafOp` is
the switch of `buildSearchOp` that picks one. Both are RECURSIVE over NOT, OR and lists. The data
is abstracted as follows:
- text is a set of words;
- an instant is a number of hours;
- a zone is an hour offset;
- an unparsable Date: header is `hdrValid = FALSE`.

`MCSearchOps` enumerates (key, message) pairs as initial states, so every
property is a state predicate over one pair. `SpecMatch` is the reference
meaning of spec §4.5. `DeepKeys` are nested keys tried on one message only;
the `search_eval` run uses them for `NeedsCoverReads`.

### `SearchAbstract`

This is what a search promises: one atomic step. It answers the mapped
matching rows of the snapshot in order, or an error when a closure errors or
a data load fails.

### `SearchExec` and `MCSearchExec`

`Mailbox.Search` run concurrently by two sessions.

| Action | Code |
|---|---|
| `Start` | entry through the increment and the parallelism |
| `Take(s, j)` | DoContext hands index j to a free worker |
| `Work(s, j)` | worker body: `applySearch` (a load failure or a closure error), or a match written with `mapFn` |
| `Finish` | the filter; the deferred decrement |
| `Fail` | the error return; the deferred decrement |
| `NextCommand` | the session goes on |

`Abstract == INSTANCE SearchAbstract` maps a searching session to idle. The
answer appears when Search returns.

### `Literal` and `MCLiteral`

`ParseNumber` (RECURSIVE `DigitLoop`) and `ParseLiteral` work over token
sequences. Go's `int` is `IntBits` wide and wraps in two's complement, and the
30 MiB limit is the constant `LiteralLimit`. The check uses IntBits = 8 and a
limit of 3, so that overflow and the boundary are within TLC's reach.
`ParseQuoted` (RECURSIVE `QuotedLoop`), `ParseString` and `ParseAString` (with
`CollectAStringChars` for `CollectBytesWhileMatchesWith(IsAStringChar)`)
use the token predicates as the code defines them. `MCLiteral` checks
`ParseAString`, which reaches the other three, against `SpecAString`: the
astring, quoted and literal rules of RFC 3501 (spec §4.1 says strings are
parsed by it), with the limits of spec §4.1. The Scanner is not in `src/`, so
`ConsumeBytes` is taken to read the bytes after LF, and an Advance from the
EOF token to return an error.

The token "b" stands for every byte outside the listed classes, `%` and `*`
included. RFC 3501 excludes both from ATOM-CHAR and the code does not, so
the run never exercises that difference: its verdict covers the alphabet it
enumerates, not those two list-wildcards.

### `Expunge` and `MCExpunge`

Several sessions select one mailbox. Each has a snapshot (a sequence of UIDs)
and a queue of updates from the others. The mailbox state, `Mailbox.Expunge`
and `flush` are not in `src/`, so they are modelled from spec §4.4. The
handlers and `NewSnapshot` come from the source.

| Action | Code |
|---|---|
| `handleExpunge(s)` | `EXPUNGE`: read-only gives NO; `Mailbox.Expunge(nil)` may fail; else expunge and flush |
| `handleUIDExpunge(s, set)` | `UID EXPUNGE set`: the same with the requested UIDs |
| `Flush(s)` | `flush(ctx, true)`: queued updates, then EXPUNGE responses in descending seq order |
| `Select(s)` | a fresh snapshot of the mailbox |
| `StoreDeleted(s, u, uid)` | sets \Deleted; a UID STORE flushes, a STORE does not |
| `OtherCommand(s, permit)` | another command, flushing with or without expunges |

Spec §8 (invariant 1) says a new snapshot holds the "non-deleted UIDs". The
query `GetMailboxMessagesForNewSnapshot` returns every UID row of the mailbox,
rows flagged \Deleted included. `NewSnapshot` follows the code. The spec's
reading is the mutant `NewSnapshotSkipDeleted`, which `SnapshotsConverge`
rejects: a snapshot without the flagged rows is not the mailbox's content
until they are expunged.

`view` is what the client has built from the EXPUNGE responses it has seen.
`cmdSet` is the UID set the command asked for, kept apart from the set passed
to `Mailbox.Expunge`.

### `CommandReader`

The model has three processes: the client, the reader goroutine and the
session handler.

- **Client.** It pipelines lines, and may close its side. Following RFC 3501,
  it does not write after a STARTTLS until that STARTTLS is answered. For a
  `literal` line it writes the header, waits for `+ Ready` and then writes the
  bytes (`ClientSendBody`). After a raw TLS ClientHello it writes nothing: a
  TLS client waits for the ServerHello. With `PipelineStartTLS = FALSE` it
  sends STARTTLS only when every earlier command has been answered.
- **Reader.** Each iteration of the reader loop is one action.
  - `ReaderParse` covers one line, including its early returns and the inline
    STARTTLS.
  - `ReaderEnd` is the EOF or read-error return. `Available` says whether
    the scanner has what the reader waits for: a whole line (which
    `ConsumeInvalidInput` reads up to CRLF, so a `hello_nocrlf` never
    completes), or the literal's bytes. `ConsumeInvalidInput` is not in
    `src/`. If it stopped at a bare LF, most ClientHellos, which usually hold
    a 0x0a byte, would reach the TLS check, and `reader_hello` would not
    apply.
  - `ReaderLiteralHeader` is `ParseLiteral` reaching the header's CR: the
    callback writes `+ Ready` from the reader goroutine. `ReaderLiteralBody`
    is `ConsumeBytes` and the rest of the line.
  - `Publish` is the rendezvous on the unbuffered `cmdCh`.
  - `ReaderCancelled` is the `ctx.Done()` case.
- **Handler.** It is not in `src/` and is modelled from the spec. It answers
  BAD to a parse error and OK otherwise. LOGOUT cancels ctx. A closed `cmdCh`
  ends the session.

`Parse(kind)` abstracts `Parse`/`parseCommand` to what matters downstream:
- whether the payload is StartTLS;
- the error class (none, `*rfcparser.Error`, or `fmt.Errorf`);
- whether the line starts with a TLS header.

`parser.go`, `uid.go` and `copy.go` import the older `imap/parser` package,
while `command.go` tests the error with `errors.As(err, &*rfcparser.Error)`.
The model takes the command grammars' syntax errors to be `*rfcparser.Error`
(answered BAD), and the `fmt.Errorf` values of `parser.go:132` and `uid.go:63`
(no `%w`) not to be (the session ends). The unknown-command cases of
`reader_errors` rest on this reading of the two packages.

The UID sub-commands are `uid_expunge`, `uid_copy_bad` (a malformed COPY set,
which is a parser error) and `uid_unknown` (`UID FOO`, which is a plain
error, not a parser error).

## Runs

| Run | Expect | Shows |
|---|---|---|
| mailboxdb | pass (112,847 states) | UIDVALIDITY is monotone. A mailbox re-created under a deleted name gets a larger UIDVALIDITY. Every UID record of a mailbox stays below its UIDNext over any sequence of inserts. |
| mailboxdb_cache | violation | A (name, UIDVALIDITY, UID) triple a client cached comes to denote another message. TLC prints the UIDNext wrap: 5 messages into one mailbox with 2-bit UIDs hand UID 1 out again. With `UIDBits = 3` and 2 messages it prints the other way: a rename, then a create under the old name, keeps the UIDVALIDITY. |
| mailboxdb_wrap | violation | With a scaled 2-bit UID, a delete at the largest UIDVALIDITY wraps the global value to 0, and a re-created mailbox gets a UIDVALIDITY no larger than the deleted one's. |
| search_eval | pass | Every leaf key, and one level of NOT/OR/list, matches spec §4.5 on UTC data. The load requirements cover what the closures read, through two levels of nesting. |
| search_exec | pass | Concurrent searches, on one CPU (a parallelism of 0 included) or on two, refine `SearchAbstract`, the active counter stays exact, and every search terminates. |
| literal | pass | ParseAString follows RFC 3501 and spec §4.1 for literal sizes in int range that are off the limit, and for quoted strings and atoms without CR, LF, `[` or `{`, escapes and unterminated quotes included. `%` and `*` are never distinguished from other bytes, so the run says nothing of them. |
| literal_bounds | violation | Five departures: a literal of exactly 30 MiB is rejected; a size that overflows wraps to a small accepted one; a quoted string may hold CR and LF; an empty astring is accepted; an atom stops at `[` and runs on over `{`. TLC prints the empty astring. Each other case is found by cutting `TextBytes`, `EmptyAtoms` and `DigitSet` down to it (e.g. `{"CR", "DQ"}` for CR, digits 2, 5, 7 for the wrap). |
| reader | pass | `ResponsesPerSpec`: the tagged responses are always a prefix of those spec §4.1 calls for (line order, BAD or OK, plaintext or TLS side), and all of them once the session is over. Both goroutines finish after the client closes. Every literal header gets `+ Ready` (`LiteralContinued`), and a ClientHello holding a CRLF drops the session (`HelloDropped`). |
| reader_errors | violation | `ResponsesPerSpec` fails five ways: `a STARTTLS x` gets OK and upgrades; an unknown command, an unknown UID sub-command or an over-limit literal ends the session with no BAD; a STARTTLS pipelined after NOOP is answered before the NOOP. TLC prints one; each other is found by cutting `LineKinds` to `noop` and that kind. |
| reader_hello | violation | A ClientHello without CRLF is never dropped: the reader waits in `ConsumeInvalidInput` for the end of the line while the client waits for a ServerHello. |
| expunge | pass | With three sessions (one read-only), every idle client's view equals its snapshot, snapshots converge to the mailbox once all queues are flushed, and a message leaves the mailbox only when flagged \Deleted and inside the set an EXPUNGE or UID EXPUNGE asked for. |

Every property of a passing run has a mutant in `PROJECT.json`: a plausible
bug in the mapped code that TLC then catches. Examples:
- the error return of Search skips the deferred decrement;
- `mapFn` ignores UID mode;
- the literal size check lets 0 through;
- the reader's select loses its `ctx.Done()` case.

## Bounds, and why they are enough

- **MailboxDB.** 2 remote ids, 2 names, 4 mailbox rows, 2 messages, bumps of
  at most 2, generator values {1, 2}. This allows create, delete, re-create
  and rename under a reused name, with a generator value at load both above
  and below the current value.
- **SearchExec.**
  - Two sessions with two-row snapshots. One snapshot has a row without a
    Date: header, so that closure errors occur.
  - The keys are UNSEEN (no loads) and SENTON (header loads that may fail).
  - `runtime.NumCPU()` is the variable `numCPU`, chosen from {1, 2} at Init
    and never changed. With 2 CPUs a lone search runs two workers. With 1 CPU
    the second concurrent search gets parallelism 1 / 2 = 0. The model takes
    `parallel.DoContext`, which is not in this repository, to run one worker
    per CPU for a parallelism below 1. `SearchTerminates` fails if it started
    none (the `WorkersRaw` mutant).
- **Literal.** The digit strings are chosen so that each run reaches its case:
  - in range and off the limit for the pass run;
  - exactly the limit, and 257 and 258 (which wrap at 8 bits), for
    `literal_bounds`.

  Words of up to 4 tokens over `b ] SP DQ BS` (pass) or 3 over `b CR [ { DQ`
  (bounds), bare or after a DQuote, cover escapes of both specials, a bad
  escape, closed and unterminated quotes and every atom terminator.

  The tails cover every malformed header, and bodies that are too short,
  exact or longer.
- **CommandReader.** Up to 4 lines in the pass run (2 in the violation
  runs), from every kind the run allows: a literal can then sit behind a
  pipelined command whose response is still being written, and a ClientHello
  or LOGOUT can follow either.
- **Expunge.** Sessions a, b, c, with c read-only; UIDs 1-3; UID EXPUNGE sets
  {1} and {2, 3}; `Mailbox.Expunge` may fail. Two writable sessions make the
  fan-out interleave with a flush; a two-element set makes the descending
  order matter.
- **UIDBits.** 3 for the pass runs, 2 for the two wrap runs.

## Fairness

`SearchExec` assumes weak fairness of `Take`, `Work`, `Finish` and `Fail`.
The Go scheduler runs runnable goroutines, and `DoContext` waits for its
workers. `CommandReader` assumes weak fairness of the reader and handler
actions, the literal steps included. The client is never obliged to write, to send a literal's bytes or to close; so `LiteralContinued` and `HelloDropped` must hold without its help. The reader and
handler runs set `CHECK_DEADLOCK FALSE`, because a session really does end:
once both goroutines have finished and the client has closed, nothing is left
to do. Stalls before that point are what `SessionEnds` checks.

## Not modelled

- **Per-command grammars.** These are pure functions
  without limits or state.
- **Store.** Only its tests are in `src/`.
- **Tests and benchmark.** They are not server behaviour.
- **A divergence kept as a hazard without a run.** SINCE uses the message's
  own zone where BEFORE uses UTC (`mailbox_search.go:648`). This matters only
  if the DB driver returns non-UTC dates, and the driver is not in the
  repository. `buildSearchOpSince` keeps the zone, so the case can be checked
  once that is known.
- **A global CPU budget for searches.** The parallelism is computed once, at
  entry. Searches that start later do not lower it, so concurrent searches
  may run more workers in total than there are CPUs. Spec §4.5 allows this,
  so no property states a budget.
- **A command tagged `done`.** `Parse` (`command/parser.go:85`) turns a line
  whose tag is `done`, in any case, into the untagged DONE payload. The rest
  of the line is then parsed as a new command and answered BAD on `*`.
  `CommandReader` gives each line one Parse result, so this case is kept as a
  hazard in `PROJECT.json`.
- **Error paths left out.** Each of these ends the command or the session
  with an error. No property is about that outcome.
  - A failing `flush` after the expunge (`handle_expunge.go:21-22`, `39-40`).
    The model's flush always succeeds.
  - A failing `handleStartTLS` (`command.go:82-84`), which ends the reader.
    `CommandReader`'s upgrade always succeeds.
  - A failing write of `+ Ready` (`rfcparser/parser.go:209-211`). `Literal`
    models it (`cbFails`), but `CommandReader`'s callback always succeeds.
- **`ParseAtom`, `ParseStringAfterContinuation` and `parseTag`.** No code in
  `src/` calls the first two. `parseTag` is a pure run of tag characters, and
  it departs from RFC 3501 only on bytes the token alphabet lumps into "b"
  (`%`, `*`) or on `[`/`{`, which `literal_bounds` already shows for atoms.
- **`ParseNumberN`** of the rfcparser. No code in `src/` calls it, and its
  comment ("a non decimal with N digits") does not say whether fewer digits
  are allowed, so there is nothing to check it against.

## Plan for later work

1. Connect `MailboxDB` with concurrent sessions through the per-user lock,
   and `Expunge`'s mailbox with the DB rows.
2. Give `CommandReader` lines more than one Parse result, so that a command
   tagged `done` (the hazard at `command/parser.go:85`) can be checked.
