--------------------------- MODULE ChainVerifier ---------------------------
(***************************************************************************)
(* AuditVerifierService.verifyScope (modules/audit/audit-verifier.service  *)
(* .ts): the walk over one scope in pages of BatchSize rows, inside one    *)
(* REPEATABLE READ transaction, while other connections go on writing the  *)
(* table: the application appends, the database owner may delete the       *)
(* newest rows or overwrite a row.  `stored` is the table as it stands;    *)
(* `snapshot` is what the transaction sees, fixed by its first query.      *)
(***************************************************************************)
EXTENDS AuditChain, FiniteSets

CONSTANTS
    Scope,       \* the scope verified
    BatchSize,   \* rows per page (1000 in the code)
    Histories,   \* [written, stored]: rows the application wrote, rows now stored
    Events,      \* what the application may append during the walk
    MaxChanges   \* bound on the changes to the table during the walk

ASSUME BatchSizeAssumption == BatchSize \in Nat \ {0}
ASSUME HistoriesAssumption ==
    \A h \in Histories :
        /\ \A r \in h.stored : r.seq \in Nat \ {0}
        /\ UniqueSeq(h.stored)
        /\ \A w \in h.written :
               /\ SelfConsistent(w)
               /\ w.prevHash # NoHash => \E p \in h.written : p.chainHash = w.prevHash

VARIABLES
    stored,    \* the rows of Scope in audit_logs
    written,   \* the chain the application wrote before the walk (history)
    changes,   \* number of changes during the walk
    pc,        \* "fetch" -> "step" -> ... -> "return" -> "done"
    snapshot,  \* the rows the transaction sees
    cursor,    \* seq of the last row verified, 0 for null
    batch,     \* rows of the page still to verify
    lastPage,  \* the page was shorter than BatchSize
    state,     \* ChainState
    headHash,  \* chainHash of the last row verified
    result     \* what verifyScope returns

walk == <<pc, snapshot, cursor, batch, lastPage, state, headHash, result>>
vars == <<stored, written, changes, walk>>

NoResult == [status |-> "NONE", checked |-> 0, headSeq |-> 0, headHash |-> NoHash,
             reason |-> "NONE"]

Init ==
    /\ \E h \in Histories : stored = h.stored /\ written = h.written
    /\ changes = 0
    /\ pc = "begin"
    /\ snapshot = {}
    /\ cursor = 0
    /\ batch = {}
    /\ lastPage = FALSE
    /\ state = InitialChainState
    /\ headHash = NoHash
    /\ result = NoResult

-----------------------------------------------------------------------------
(***************************************************************************)
(* The walk.                                                               *)
(***************************************************************************)

\* `page` is what ORDER BY seq ASC LIMIT BatchSize returns of the rows `above`.
IsPage(page, above) ==
    /\ page \subseteq above
    /\ Cardinality(page) <= BatchSize
    /\ page = above \/ Cardinality(page) = BatchSize
    /\ \A r \in page, q \in above \ page : r.seq < q.seq

\* The first query fixes the snapshot of the transaction.
Begin ==
    /\ pc = "begin"
    /\ snapshot' = stored
    /\ pc' = "fetch"
    /\ UNCHANGED <<stored, written, changes, cursor, batch, lastPage, state, headHash, result>>

\* Mutants: seq >= cursor; pages read outside the snapshot.
RowsFromCursor == {r \in snapshot : r.seq >= cursor}
RowsOfNow == {r \in stored : r.seq > cursor}

\* The rows the next query selects from: those above the cursor.
RowsAbove == {r \in snapshot : r.seq > cursor}

\* Mutant: an empty page does not end the walk.
AfterPageAlwaysOn(page) == IF page = {} THEN "fetch" ELSE "step"

\* Where the walk goes after a page: on, or out of the loop on an empty one.
AfterPage(page) == IF page = {} THEN "return" ELSE "step"

\* One query: the next page; an empty page ends the walk.
FetchPage ==
    /\ pc = "fetch"
    /\ \E page \in SUBSET RowsAbove :
           /\ IsPage(page, RowsAbove)
           /\ batch' = page
           /\ lastPage' = (Cardinality(page) < BatchSize)
           /\ pc' = AfterPage(page)
    /\ UNCHANGED <<stored, written, changes, snapshot, cursor, state, headHash, result>>

\* stepChain on the next row of the page: it advances the state, or ends the walk
\* with the first break.
StepRow ==
    /\ pc = "step"
    /\ \E row \in batch :
        /\ \A r \in batch : row.seq <= r.seq
        /\ LET reason == BreakReason(state, row)
           IN  IF reason # "NONE"
               THEN /\ result' = [status |-> "BROKEN", checked |-> state.checked,
                                  headSeq |-> state.headSeq, headHash |-> headHash,
                                  reason |-> reason]
                    /\ pc' = "done"
                    /\ UNCHANGED <<batch, state, headHash, cursor>>
               ELSE /\ state' = Advance(state, row)
                    /\ headHash' = row.chainHash
                    /\ cursor' = row.seq
                    /\ batch' = batch \ {row}
                    /\ pc' = IF batch' # {} THEN "step"
                             ELSE IF lastPage THEN "return" ELSE "fetch"
                    /\ UNCHANGED result
    /\ UNCHANGED <<stored, written, changes, snapshot, lastPage>>

\* The walk ran through every row.
Return ==
    /\ pc = "return"
    /\ result' = [status |-> IF state.checked = 0 THEN "EMPTY" ELSE "VALID",
                  checked |-> state.checked, headSeq |-> state.headSeq,
                  headHash |-> headHash, reason |-> "NONE"]
    /\ pc' = "done"
    /\ UNCHANGED <<stored, written, changes, snapshot, cursor, batch, lastPage, state, headHash>>

-----------------------------------------------------------------------------
(***************************************************************************)
(* The table changes under the walk.                                       *)
(***************************************************************************)
Newest == {r \in stored : \A q \in stored : q.seq <= r.seq}

\* createChained commits a row after the newest one.
AppendRow ==
    \E e \in Events :
        LET id == <<changes>>
        IN  \E row \in
                IF stored = {}
                THEN {MakeRow(CurrentSchemaVersion, Scope, 1, id, e, NoHash)}
                ELSE {MakeRow(CurrentSchemaVersion, Scope, last.seq + 1, id, e, last.chainHash) :
                      last \in Newest} :
            stored' = stored \union {row}

\* The owner deletes the newest row.
DeleteNewest ==
    /\ stored # {}
    /\ stored' = stored \ Newest

TableChanges ==
    /\ pc \in {"fetch", "step", "return"}
    /\ changes < MaxChanges
    /\ changes' = changes + 1
    /\ AppendRow \/ DeleteNewest
    /\ UNCHANGED <<written, walk>>

Finished == pc = "done" /\ UNCHANGED vars

Walk == Begin \/ FetchPage \/ StepRow \/ Return
Next == Walk \/ TableChanges \/ Finished

\* The walk never waits for anybody.
Spec == Init /\ [][Next]_vars
FairSpec == Spec /\ WF_vars(Walk)

-----------------------------------------------------------------------------
(***************************************************************************)
(* Properties.                                                             *)
(***************************************************************************)

\* Type correctness of the walk.
TypeOK ==
    /\ pc \in {"begin", "fetch", "step", "return", "done"}
    /\ cursor \in Nat
    /\ state.checked \in Nat /\ state.headSeq \in Nat /\ state.expectedSeq \in Nat
    /\ lastPage \in BOOLEAN
    /\ batch \subseteq snapshot
    /\ result.status \in {"NONE", "EMPTY", "VALID", "BROKEN"}

\* Whatever the page size and whatever happens to the table meanwhile, the result
\* is the verdict on the rows of one moment, the start of the transaction: head,
\* head hash and status are those of the chain stated without a walk.
VerdictOfSnapshot ==
    pc = "done" =>
        /\ IsVerdict(snapshot, result.status, result.headSeq, result.headHash)
        /\ result.checked = result.headSeq

\* A chain that verifies up to a head whose hash the application once wrote is, in
\* every hashed column of every row up to the head, the chain the application
\* wrote: nothing before the head was edited, dropped or inserted, even by
\* somebody who recomputes hashes.  (What checkpoints rely on.)  Of the event this
\* says that its text is the one written: under schema v3 and v4 the event itself,
\* while a row under v1 or v2, or one whose unhashed schemaVersion was set back to
\* them, may hold another event with the same unescaped text.
HeadHashCommitsHistory ==
    pc = "done" /\ result.headSeq > 0 /\ (\E w \in written : w.chainHash = result.headHash) =>
        \A r \in snapshot : r.seq <= result.headSeq =>
            \E w \in written : AsWritten(r, w)

\* The walk ends.
WalkEnds == <>(pc = "done")
=============================================================================
