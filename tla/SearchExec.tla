------------------------------ MODULE SearchExec ------------------------------
(***************************************************************************)
(* Mailbox.Search of src/internal/state/mailbox_search.go run by several   *)
(* sessions at once.  Each search compiles its key, increments the        *)
(* process-wide atomic totalActiveSearchRequests, derives its parallelism *)
(* from it, and hands the indices 0..msgCount-1 of its snapshot to at most *)
(* that many workers (parallel.DoContext).  A worker loads the data the   *)
(* key needs (buildSearchData), which may fail, applies the closure and   *)
(* writes the mapped value into its slot.  After the pass the zeros are   *)
(* filtered out; on any worker error DoContext stops handing out indices, *)
(* waits for the workers in flight and the search returns the error.      *)
(* The deferred decrement runs on every return after the increment.       *)
(*                                                                         *)
(* Indices are 1-based here: slot j holds Go's result[j-1] and is loaded  *)
(* with getWithSeqID(j).  A session's snapshot does not change during its *)
(* own search (the session is blocked in it), so getWithSeqID never fails.*)
(***************************************************************************)
EXTENDS Integers, Sequences, FiniteSets, SearchOps

CONSTANTS
    Sessions,   \* sessions that may search concurrently
    Snap,       \* session -> its snapshot: a sequence of searchData rows
    Keys,       \* search keys the sessions may send (all compile)
    CanFail,    \* whether buildSearchData may fail (DB, store or header)
    CPUCounts   \* the values runtime.NumCPU() may return on the host

VARIABLES
    pc,         \* session -> "idle" | "run" | "done"
    key,        \* session -> the key of its current search
    uidMode,    \* session -> contexts.IsUID(ctx)
    active,     \* totalActiveSearchRequests
    par,        \* session -> parallelism computed at entry
    result,     \* session -> the result slots (0 = no match)
    pending,    \* session -> slots not yet handed to a worker
    inflight,   \* session -> slots a worker is processing
    failed,     \* session -> a worker returned an error
    answer,     \* session -> last answer: [err, value]
    numCPU      \* runtime.NumCPU(): fixed for the life of the process

vars == <<pc, key, uidMode, active, par, result, pending, inflight, failed, answer, numCPU>>

NoAnswer  == [err |-> FALSE, value |-> <<>>]
ErrAnswer == [err |-> TRUE, value |-> <<>>]

(* Mutant: the mapping ignores UID mode.                                  *)
mapFnSeqOnly(uid, m) == m.seq

(* mapFn: uint32(s.UID) under contexts.IsUID, uint32(s.Seq) otherwise.    *)
mapFn(uid, m) == IF uid THEN m.uid ELSE m.seq

(* xslices.Filter(result, v != 0), order preserved.                       *)
FilterNonZero(r) == SelectSeq(r, LAMBDA v : v # 0)

(* Mutant: parallelism 0 is used as is: no worker is started.             *)
WorkersRaw(p) == p

(* The number of workers parallel.DoContext starts for a parallelism p:   *)
(* at most p.  DoContext is outside this repository; a parallelism below  *)
(* 1 is taken to mean one worker per CPU, as for juniper's parallel      *)
(* helpers.                                                               *)
Workers(p) == IF p >= 1 THEN p ELSE numCPU

Init ==
    /\ pc = [s \in Sessions |-> "idle"]
    /\ key = [s \in Sessions |-> CHOOSE k \in Keys : TRUE]
    /\ uidMode = [s \in Sessions |-> FALSE]
    /\ active = 0
    /\ par = [s \in Sessions |-> 0]
    /\ result = [s \in Sessions |-> <<>>]
    /\ pending = [s \in Sessions |-> {}]
    /\ inflight = [s \in Sessions |-> {}]
    /\ failed = [s \in Sessions |-> FALSE]
    /\ answer = [s \in Sessions |-> NoAnswer]
    /\ numCPU \in CPUCounts

(* Search's locals (key, mapFn, parallelism, result, the DoContext       *)
(* state) go out of scope when it returns.                                *)
DropLocals(s) ==
    /\ key' = [key EXCEPT ![s] = CHOOSE k \in Keys : TRUE]
    /\ uidMode' = [uidMode EXCEPT ![s] = FALSE]
    /\ par' = [par EXCEPT ![s] = 0]
    /\ result' = [result EXCEPT ![s] = <<>>]
    /\ pending' = [pending EXCEPT ![s] = {}]
    /\ inflight' = [inflight EXCEPT ![s] = {}]
    /\ failed' = [failed EXCEPT ![s] = FALSE]
    /\ UNCHANGED numCPU

(* Search up to parallel.DoContext: mapFn chosen, key compiled, counter   *)
(* incremented, parallelism = numCPU / active, msgCount zero slots.       *)
Start(s) ==
    /\ pc[s] = "idle"
    /\ \E k \in Keys, uid \in BOOLEAN :
           /\ key' = [key EXCEPT ![s] = k]
           /\ uidMode' = [uidMode EXCEPT ![s] = uid]
    /\ active' = active + 1
    /\ par' = [par EXCEPT ![s] = numCPU \div (active + 1)]
    /\ result' = [result EXCEPT ![s] = [j \in 1..Len(Snap[s]) |-> 0]]
    /\ pending' = [pending EXCEPT ![s] = 1..Len(Snap[s])]
    /\ failed' = [failed EXCEPT ![s] = FALSE]
    /\ pc' = [pc EXCEPT ![s] = "run"]
    /\ UNCHANGED <<inflight, answer, numCPU>>

(* DoContext hands index j to a free worker while no worker has failed.   *)
Take(s, j) ==
    /\ pc[s] = "run"
    /\ ~failed[s]
    /\ j \in pending[s]
    /\ Cardinality(inflight[s]) < Workers(par[s])
    /\ pending' = [pending EXCEPT ![s] = @ \ {j}]
    /\ inflight' = [inflight EXCEPT ![s] = @ \cup {j}]
    /\ UNCHANGED <<pc, key, uidMode, active, par, result, failed, answer, numCPU>>

(* applySearch: buildSearchData, which returns an error only when it has *)
(* something to load (the DB row, the literal or the header) and that     *)
(* load fails, then the closure, whose error is returned as well.         *)
applySearch(k, msg, loadFails) == IF loadFails THEN ErrRes ELSE searchOp(k, msg)

(* The worker body: getWithSeqID(j), applySearch, and on a match          *)
(* result[j] = mapFn(msg).  An error is returned to DoContext.            *)
Work(s, j) ==
    /\ j \in inflight[s]
    /\ LET msg   == Snap[s][j]
           loads == buildSearchOp(key[s]) # NoNeeds
       IN \E loadFails \in IF CanFail /\ loads THEN BOOLEAN ELSE {FALSE} :
            LET r == applySearch(key[s], msg, loadFails)
            IN \/ /\ r.err
                  /\ failed' = [failed EXCEPT ![s] = TRUE]
                  /\ UNCHANGED result
               \/ /\ ~r.err
                  /\ result' = IF r.ok
                               THEN [result EXCEPT ![s][j] = mapFn(uidMode[s], msg)]
                               ELSE result
                  /\ UNCHANGED failed
    /\ inflight' = [inflight EXCEPT ![s] = @ \ {j}]
    /\ UNCHANGED <<pc, key, uidMode, active, par, pending, answer, numCPU>>

(* DoContext returned nil: the zeros are filtered out; the deferred       *)
(* decrement runs.                                                        *)
Finish(s) ==
    /\ pc[s] = "run"
    /\ ~failed[s] /\ pending[s] = {} /\ inflight[s] = {}
    /\ answer' = [answer EXCEPT ![s] = [err |-> FALSE,
                                        value |-> FilterNonZero(result[s])]]
    /\ active' = active - 1
    /\ pc' = [pc EXCEPT ![s] = "done"]
    /\ DropLocals(s)

(* Mutant: the error return skips the deferred decrement.                 *)
FailNoDecrement(s) ==
    /\ pc[s] = "run"
    /\ failed[s] /\ inflight[s] = {}
    /\ answer' = [answer EXCEPT ![s] = ErrAnswer]
    /\ pc' = [pc EXCEPT ![s] = "done"]
    /\ UNCHANGED active
    /\ DropLocals(s)

(* Mutant: the error is returned only once every index was handed out.   *)
FailWaitsAll(s) ==
    /\ pc[s] = "run"
    /\ failed[s] /\ inflight[s] = {} /\ pending[s] = {}
    /\ answer' = [answer EXCEPT ![s] = ErrAnswer]
    /\ active' = active - 1
    /\ pc' = [pc EXCEPT ![s] = "done"]
    /\ DropLocals(s)

(* DoContext returned a worker's error once the workers in flight ended:  *)
(* Search returns (nil, err); the deferred decrement runs.                *)
Fail(s) ==
    /\ pc[s] = "run"
    /\ failed[s] /\ inflight[s] = {}
    /\ answer' = [answer EXCEPT ![s] = ErrAnswer]
    /\ active' = active - 1
    /\ pc' = [pc EXCEPT ![s] = "done"]
    /\ DropLocals(s)

(* The session answers the client and reads its next command.             *)
NextCommand(s) ==
    /\ pc[s] = "done"
    /\ pc' = [pc EXCEPT ![s] = "idle"]
    /\ UNCHANGED <<key, uidMode, active, par, result, pending, inflight, failed, answer, numCPU>>

Next ==
    \E s \in Sessions :
        \/ Start(s) \/ Finish(s) \/ Fail(s) \/ NextCommand(s)
        \/ \E j \in 1..Len(Snap[s]) : Take(s, j) \/ Work(s, j)

Spec == Init /\ [][Next]_vars

(* The Go scheduler runs every runnable goroutine: the workers and the    *)
(* goroutine in DoContext make progress.  A session is not obliged to    *)
(* send another command.                                                  *)
Fairness ==
    \A s \in Sessions :
        /\ WF_vars(Finish(s)) /\ WF_vars(Fail(s))
        /\ \A j \in 1..Len(Snap[s]) : WF_vars(Take(s, j)) /\ WF_vars(Work(s, j))

FairSpec == Spec /\ Fairness

-----------------------------------------------------------------------------
(* Properties.                                                            *)

TypeOK ==
    /\ pc \in [Sessions -> {"idle", "run", "done"}]
    /\ active \in 0..Cardinality(Sessions)
    /\ par \in [Sessions -> 0..numCPU]
    /\ uidMode \in [Sessions -> BOOLEAN]
    /\ \A s \in Sessions :
          /\ key[s] \in Keys
          /\ pending[s] \cup inflight[s] \subseteq 1..Len(Snap[s])
          /\ failed[s] \in BOOLEAN
          /\ answer[s].err \in BOOLEAN

(* totalActiveSearchRequests counts exactly the searches between the      *)
(* increment and their return, whichever way they return: a missed        *)
(* decrement would shrink every later search's parallelism for good.     *)
ActiveCounted == active = Cardinality({s \in Sessions : pc[s] = "run"})

(* Every search a session starts returns, with a result or an error,      *)
(* whatever the other sessions' searches do to the parallelism.          *)
SearchTerminates == \A s \in Sessions : pc[s] = "run" ~> pc[s] = "done"

(* The concurrent search implements the atomic one: a running search has  *)
(* been asked, with its key and UID mode, and the answer appears when     *)
(* Search returns.                                                        *)
Abstract == INSTANCE SearchAbstract
    WITH pc <- [s \in Sessions |-> IF pc[s] = "run" THEN "asked" ELSE pc[s]],
         request <- [s \in Sessions |->
                       IF pc[s] = "run" THEN [key |-> key[s], uid |-> uidMode[s]]
                       ELSE [key |-> [kw |-> "NONE", arg |-> "none", sub |-> <<>>],
                             uid |-> FALSE]]

(* Whatever order the workers of concurrent searches take and fill the    *)
(* slots in, each answer is the one an atomic search of the session's     *)
(* snapshot gives: matching UIDs or seqs in ascending order, or an error. *)
ImplementsSearch == Abstract!Spec

=============================================================================
