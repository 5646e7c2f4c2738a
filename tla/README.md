# SecureChain Vault in TLA+

SecureChain Vault is a NestJS service (`src/vault-api`) that stores encrypted
documents for tenants, keeps a hash-chained audit log of every request, and
anchors both the documents and the audit log with RFC 3161 timestamps. This
directory holds TLA+ models of its core logic, the TLC configurations that check
them on small instances, and TLAPS proofs of their main invariants.

`PROJECT.json` is the index: components, runs, the source lines behind every
definition (`map`), the hazards of the code and the properties that cover them,
the mutants that show each property can fail, the findings and the theorems.

1. [The system](#the-system)
2. [Modules](#modules)
3. [Runs, bounds and fairness](#runs-bounds-and-fairness)
4. [Findings](#findings)
5. [Proofs](#proofs)
6. [What is not modelled](#what-is-not-modelled)
7. [Plan](#plan)

## The system

All state that outlives a request is in one PostgreSQL database and one
S3-compatible object store; the service itself may run in several instances.
There is no lock in the process: what excludes concurrent requests, where
anything does, is an advisory lock or a unique index of the database.

| Component (`src/vault-api/src`) | State | Operations | What makes it correct |
|---|---|---|---|
| Audit log writer, `modules/audit/audit.service.ts` | `audit_logs` | `createChained` | one unbroken chain per scope, no two rows of a scope at one seq, every call answered, a failed call leaves at most its own whole row |
| Chain verification, `audit-chain.ts`, `audit-verifier.service.ts` | none (a walk) | `stepChain`, `verifyScope` | the verdict is about one moment; a head hash fixes every hashed column of the history below it |
| Audit checkpoints, `audit-checkpoint.service.ts`, `.cron.ts` | `audit_checkpoints` | `checkpointAllScopes`, `createCheckpoint`, `verifyScopeAnchored` | every row anchored in the end; no alarm over an untouched chain; no OK for one that was truncated, edited or rewritten before it was audited |
| Document anchoring, `modules/anchor` | `anchor_batches`, the anchor columns of `documents` | `processPending`, `anchorDocumentById`, `anchorDocuments`, `verifyDocument` | ANCHORED means timestamped; the columns of a row belong together; pending documents get anchored |
| Notary, `modules/notary` | the same columns | `issueDocument`, read-only views | a failed issue demotes nothing that cannot be anchored again, and shows no other evidence than it has |
| Merkle tree, `modules/anchor/merkle.util.ts` | none | tree, `proofFor`, `verifyMerkleProof` | a proof verifies exactly its leaf against the root; none can be forged |
| Timestamping, `common/modules/timestamp` | none | `timestampRoot`, `verifyToken` | a token attests exactly one hash |
| Documents, `modules/documents` | `documents`, `tenant_keys`, objects, temporary files | `upload`, `download`, `remove` | every row has its object and the key that opens it; a download gives what was uploaded; nothing is left behind unexplained |
| Vaults, `modules/vaults` | `vaults` | `create`, `remove` | slugs are unique; the plan's limit is passed only by what runs at once; removal spares documents |
| Replay nonces, `common/replay` | `replay_nonces` | insert-or-ignore, prune | a request is accepted once while its timestamp is in the window; the table empties |
| Zero Trust and tenant guards, `common/zt`, `common/guards` | none; memberships come from the auth directory | verify, authorise | no handler runs but for a request whose path, query and body agree with a signature, as far as the guard compares them, and whose user was allowed to while it was decided |
| Audit interceptor, `common/interceptors` | none | wraps every handler | success is answered after its row; a request has one row, which agrees with what its handler did |
| Storage, crypto, auth client, reader, bootstrap | none | adapters | - |

How they interact. Every request passes the guards, is handled, and is then
recorded by the interceptor through `createChained`. Uploads leave documents
PENDING; the anchoring cron (every minute, in every instance) and the notary
endpoint anchor them through the same `anchorDocuments`, which calls the TSA
between its reads and its writes. The checkpoint cron (hourly, in every instance)
verifies every chain with `verifyScope` and timestamps its head; an audit verifies
the chain again and compares it with the latest checkpoint.

What is hard: appends of one scope racing for a seq; scopes whose names have the
same `hashtext`; transactions that fail anywhere, their COMMIT's acknowledgement
included, or that take effect and are taken for failed; a table that changes under a
paged walk or between two statements of an audit; jobs that overlap because
nothing locks them; entities loaded before a TSA request and saved after it;
removal of a document meanwhile; TSA failures and retries; answers that break off while they
are streamed; and a database owner who can change rows the application may not, and
change them back.

## Modules

| Module | Models | Used by |
|---|---|---|
| `AuditChain` | rows, their two hashes under schema versions 1 to 4, `stepChain`'s checks, and what a verified chain is, stated without a walk | all audit modules |
| `AuditLedger` | abstract: one sequence of events per scope, appended to atomically | refined by `AuditLog` |
| `AuditLog` | `createChained`, statement by statement | `MCAuditLog`, `AuditLogProofs` |
| `ChainVerifier` | `verifyScope`, page by page, over a changing table | `MCChainVerifier`, `ChainVerifierProofs` |
| `AuditCheckpoint` | the hourly jobs, the audits, the appends and the database owner | `MCAuditCheckpoint`, `AuditCheckpointProofs`, `AuditTamperingProofs` |
| `DocumentAnchoring` | `anchorDocuments` and its two callers, uploads and removals, `verifyDocument` | `DocumentTrees`, `DocumentAnchoringProofs` |
| `Merkle` | `merkle.util.ts`: levels, proofs, verification | `DocumentTrees` |
| `DocumentTrees` | composition: `DocumentAnchoring` against the trees of `Merkle` | `MCDocumentAnchoring`, `DocumentTreesProofs` |
| `DocumentStore` | uploads, downloads, removals, vaults over the tables and the object store | `MCDocumentStore`, `DocumentStoreProofs` |
| `ZeroTrust` | what a signed request carries and what the guards decide of it alone | `RequestPipeline` |
| `RequestPipeline` | a request from its signature to its audit row, with nonces, clocks and the auth directory | `MCRequestPipeline`, `RequestPipelineProofs` |

The audit modules compose by abstraction. `AuditLog` implements `AuditLedger`, in
which an append is one step, and `ChainVerifier` shows that a walk's result is the
verdict (`IsVerdict`) on the rows of one moment. `AuditCheckpoint` builds on both:
its `Append` is one step and its `verifyScope` is one reading of the rows.

**Hashes.** SHA-256 is a free term over the text that is hashed: collision resistance,
on which the code relies, and nothing else. Whether equal texts mean equal events is
another matter. Schema versions 3 and 4 encode canonically; 1 and 2 keep
`legacyStableStringify`, which writes object keys without escapes, so that the metadata
`{'a":1,"b': 2}` and `{a: 1, b: 2}` (`audit-hash.util.spec.ts`) have one text. `TextOf` is
the text of a row: its event, but under versions 1 and 2 whatever the constant
`Unescaped`, any function from events to events, makes of it. The version is no hashed
column, so a row may be set back to one of those. What a hash fixes is therefore
`AsWritten`: every hashed column, and the event itself when the row is under version 3 or
4 both as written and as found. A Merkle
root is the sequence of its leaves, a proof is all of it but the leaf, and a
timestamp token is the hash it attests. Nobody but the TSA makes tokens, so the
actions of the database owner never do.

**`AuditLog`.** `auditLogs` is the committed table, `lock` the holders of each
`hashtext` value, `pc`, `request` and `row` the locals of each call. `AcquireLock`
is `pg_advisory_xact_lock`; `BuildRow` reads the last row (READ COMMITTED: the
committed rows of that moment), normalises the metadata and hashes; `Insert` meets
the unique index on `(scope, seq)`, waiting for an uncommitted row with its key and
failing on a committed one; `Commit` makes the row visible and gives up the lock.
`Abort` is any failure before COMMIT. After COMMIT the answer may be lost, so
`Resolve` may answer "failed" for a row that is in the table. `LockKeys` and
`HashText` are constants and `HashText` need not be injective.

**`ChainVerifier`.** `stored` is the table, `snapshot` what the REPEATABLE READ
transaction sees. `FetchPage` is one query, `StepRow` one `stepChain`. Rows are
appended and deleted meanwhile (`TableChanges`). Histories come from a constant:
the module is about any table whatever with unique positions.

**`AuditCheckpoint`.** One action per database statement or TSA request, since
`createCheckpoint` and `verifyScopeAnchored` hold no transaction across them.
`createdAt` is the rank of the save, which is what `ORDER BY created_at` sees. As in
the code, a SIMULATED checkpoint counts when a job decides whether the head has
advanced, and does not when an audit looks for an anchor. `written`, `edited`, and what an
audit keeps in `found` and `ended`, are history. The owner acts at any moment, also
between two statements of a job or an audit: he deletes the newest row, overwrites any
column of a row (`Overwritten`: event and version, position, id, links and hashes, from
anything the scope holds or held), rewrites the chain from some row on with fresh hashes,
puts rows back that the application wrote (`RestoreRows`), and deletes checkpoints or fits
them to a row with a token there is (`FittedTo`).

**`DocumentAnchoring`.** `documents` holds the four columns anchoring writes. TypeORM's
`save` is modelled as what it does: a SELECT by primary key (`SelectForSave`,
`SelectForPending`), and then an UPDATE of the columns in which the entity differs
from the row *selected*, or an INSERT when none was selected (`SavedOver`,
`Conflict`). The batch and the documents are written in one transaction, so their
visible effect is one step, `CommitAnchor`; the SELECT before it is a step of its
own. `issueDocument` loads its entity, `anchorDocumentById` loads it again
(`Reload`), and the catch block saves the first one as PENDING. That block runs after
everything that throws: a TSA that fails (`TimestampFails`), a rolled back transaction,
a lost connection (`ConnectionFails`), and a COMMIT that took effect unacknowledged
(`CommitLost`), where it undoes what the call itself has just saved; `unconfirmed`
remembers the documents this happened to. Only the end of the process (`Crash`) skips it.

**`Merkle`, `DocumentTrees`.** `BuildMerkleTree` gives the levels, `NextLevel` pairs
neighbours and promotes a lone node, `ProofSteps` is `proofFor` and `Recompute` the loop
of `verifyMerkleProof`. `Levels`, `Climb` (the loop of `proofFor`, with its `idx` and
`steps`) and `Accumulated` are recursive functions over levels and steps. A hash is the
tuple of its prefix byte and what was hashed. `DocumentTrees` justifies what
`DocumentAnchoring` takes for roots and proofs (the list of leaves, the list with a
hole): over all lists of up to five documents, repetitions included, both answer alike;
`DocumentTreesProofs` has the same of all lists.

**`DocumentStore`.** `vaults`, `documents`, `tenantKeys` are the tables, `objects` the
bucket (at most one object per storage key: a PUT replaces), `tempFiles` what multer
wrote. `call` holds the calls in progress in all instances with their locals. Every
statement and every S3 request is an action, since no handler opens a transaction:
`BeginUpload`, `FindTenantKey`, `SaveTenantKey`, `PutObject`, `SaveDocument`;
`BeginDownload`, `GetStream`; `BeginRemove`, `DeleteObject`, `DeleteRow`;
`BeginCreateVault`, `CountVaults`, `FindSlug`, `InsertVault`; `BeginRemoveVault`,
`CountDocuments`, `DeleteVault`. Unique indexes, the foreign key of documents and its
cascade are part of the statement they act on. `Answer` ends a call at any point, as an
error of a statement or of the store does; `Crash` also skips the `finally` that unlinks
the file, and `End`, the `finally`, ignores an unlink that fails. Storage keys are made
of the millisecond and the name, so `StoredNames` has fewer values than there are
uploads and two may share one. `stored`, `saved`, `removing` and `spilled` are history
variables.

**`ZeroTrust`, `RequestPipeline`.** A request is a record: its URL in the parts that `?`
separates, the path and query that were signed, whether the other claims and the body
are those that were signed, the kind of body, the key, and its route. The guard
recomputes path and query from the first two parts (`PathAndQuery`) and hashes a body
only if Nest kept its raw bytes (`RawBody`); a handler sees a parsed body, and a multipart
one where its route takes it (`SeesBody`). `Deliver` is `verifyZtRequest` on one instance's
clock; what it refuses has no effect and is not a step. `RecordNonce`, `RejectReplay`
and `NonceFails` are the three outcomes of `INSERT ... ON CONFLICT DO NOTHING`,
`PruneExpired` is the minute cron of one instance, `CheckMembership` and
`DirectoryFails` the GET to the auth directory, `HandlerReturns` and `HandlerThrows`
the handler, `AuditSuccess`, `AuditFailure`, `AuditDenied` the rows; `StreamBegins` is
the answer of a download, which is written before the interceptor's row, and
`StreamFails` the stream's error handler: a 500 before the first byte, a 200 that breaks
off after it (`truncated`), and in either case the interceptor goes on as before. An append is
one step here: that it takes effect once or not at all is `AuditLog`'s business. `now`
is real time; an instance's clock is `now + Skew[i]`.

Every definition that models code is in `map` in `PROJECT.json` with its lines.
Definitions marked `Mutant` in a comment are not part of any specification: they
are what a plausible mistake would turn the definition below them into, and
`PROJECT.json` names, for every property of every passing run, the mutant under
which TLC finds the property violated.

## Runs, bounds and fairness

To run one: `tlc -config AuditLog.cfg MCAuditLog`.

| Run | Question and result |
|---|---|
| `AuditLog.cfg` | Do concurrent, failing calls on scopes that share a lock key keep one chain each, are all of them answered, and do they implement `AuditLedger`? Yes. |
| `ChainVerifier.cfg` | Is the result of a walk over untouched and tampered tables the verdict on the moment it began, does a head hash fix the history, does the walk end? Yes; of a row under schema v1 or v2 the hash fixes the text. |
| `AuditCheckpoint.cfg` | Without tampering: do checkpoints name rows of the log, is there no alarm over a chain that had reached its anchors, is every row anchored in the end? Yes, with two overlapping jobs. |
| `AuditTampering.cfg` | With an owner who intervenes up to twice, whenever and as he likes, and one job: does ANCHORED_OK mean an authentic history if he rests during the audit and, as long as no checkpoint of the scope is edited, one not behind any anchor? Yes. |
| `DocumentAnchoring.cfg` | One cron and one notary call at a time: is what is ANCHORED timestamped and verifiable, through TSA failures, lost connections and acknowledgements and crashes, are pending documents anchored or removed in the end, do the Merkle trees prove exactly their leaves? Yes. |
| `DocumentStore.cfg` | Concurrent uploads, downloads, removals and vault operations that fail or crash anywhere, unlinks included: do rows, keys, objects and files stay consistent? Yes, with the exceptions the properties name. |
| `RequestPipeline.cfg` | Signed requests delivered again, to instances with different clocks, while memberships change and streams, appends and processes fail: is each accepted once, authorised and recorded, and do nonces leave the table? Yes, within the bound `AcceptedOnce` names. |
| `AuditFalseTruncated.cfg`, `AuditReanchored.cfg`, `AuditOutOfOrder.cfg`, `AnchoringRace.cfg`, `RemovedReappears.cfg` | Does the code do what its comments or tests say in these respects? No: see [Findings](#findings). |

What the properties say is in the comment above each of them. Some draw the exact
boundary of a claim in the code, and are violated as soon as the exception is taken out:

- `AcceptedOnce`: "correct across restarts and horizontally-scaled instances"
  (`infra/postgres/init/058_replay_nonces.sql`) holds for requests whose timestamp was,
  on the clock that checked it, at least as old as an INSERT takes plus the difference of
  the instances' clocks. A fresher one (its signer's clock is ahead) stays in the window
  until after its row may be pruned, because the row expires `maxSkewMs` after the check
  and not after the timestamp.
- `VaultRemovalSparesDocuments`: "Vault cannot be deleted while it still contains
  documents" holds for the documents that were there when the removal began; one that is
  saved between the count and the DELETE goes with the vault.
- `LimitOverrunBounded`: the plan's limit is counted, not locked. It is passed by at most
  one vault per further creation in progress.
- `RowHasObject`, `DownloadGivesUpload`: uploads of one name to one vault in one
  millisecond share an object. Both name this exception and no other.
- `OrphansExplained`: the only objects without rows are those of uploads that failed
  before their row, and those whose rows went with their vault.
- `SuccessIsRecorded` excepts streamed downloads, whose status is sent before the row, and
  `OneRowPerRequest` says of their row only that the stream was opened: it is SUCCESS
  beside a 500, or beside a 200 that broke off, when the stream fails later.
- `ExecutedIsAuthorised` says of the URL what the guard compares, the path and the query
  up to a second `?`. What follows reaches Express, which parses it, and is not signed; nor
  is the content of an upload, whose raw bytes the guard never has. The instance holds an
  upload with both altered, and it is executed.
- `TempFilesAccounted` excepts, besides crashes and refusals before the `try`, uploads whose
  unlink failed, which the handler ignores.
- `HeadHashCommitsHistory`, `AnchoredOkIsAuthentic` speak of equal events only where no
  version 1 or 2 is involved (`AsWritten`). Both instances hold two events with one
  unescaped text.
- `AnchoredOkIsAuthentic` has the proviso that the owner rests during the audit
  (`Undisturbed`). `verifyScopeAnchored` walks the chain in one transaction and reads the
  anchored row in another, and compares the checkpoint with the second reading only: a
  chain forged before the first and put back before the second is answered ANCHORED_OK.
  Without the proviso TLC finds such an audit, with two interventions. "A chain that
  verifies internally but is behind (or inconsistent with) the latest anchored head is
  reported as TRUNCATED / DIVERGED" (`audit-checkpoint.service.ts:83-85`) needs a database
  at rest.
- `NotBehindAnyAnchor` excepts scopes with an edited checkpoint (`edited`). A job and an
  audit only ask about the *latest* checkpoint; with a higher one gone, or lowered, a chain
  that ends before it passes. Without the exception TLC finds the chain cut, and the
  checkpoint changed while a job and an audit are under way.
- `IssuedVerifies` excepts `unconfirmed` documents. When the COMMIT of a notary call is not
  acknowledged, its catch block saves PENDING over the row it committed; a cron that
  selected that row in its own `save` finds status and proof of it unchanged and writes the
  rest, and the row is PENDING with evidence that verifies. Without the exception TLC finds
  this with one cron and one notary call, both with a TSA.

The bounds:

| Bound | Value | Why it is enough |
|---|---|---|
| `Writers`, `Scopes`, `MaxCalls` | 2, 3, 3 | two calls race on one scope, on two scopes with one key, and on different keys; a third call follows a call that failed or appends to a chain that has rows, in either writer's slot |
| page size, rows, `MaxChanges` | 2, 3 (up to 5 in `stored`), 2 | full pages, a short page, an empty last page, a page boundary inside every tampering; each row is of another schema version |
| `MaxRows` | 2, or 3 in `AuditReanchored` | a chain that is extended after it was anchored, and, with 3, cut below an anchor and grown beyond it again |
| `Instances`, `Auditors` | 1 or 2, 1 | two jobs overlap; audits change nothing, so one is enough |
| `MaxFaults` | 0, 1 or 2 | two interventions combine, as truncating the log and editing the checkpoint, or forging a row and putting the genuine one back |
| `Contents`, `Unescaped` | 2 events, 1 pair | the event as written, and one that is different but has its text without escapes; under v3 and v4 they are told apart |
| `MaxAborts` | 0 or 1 | a run or call that fails, loses its connection or its acknowledgement, or dies, between two successful ones; without a bound nothing has to be anchored, as with a TSA that never answers |
| `Docs`, `MaxLeaves` | 2, 2 (1 document in `RemovedReappears`) | batches of one and of two documents, in either order of upload |
| `MaxBatches` | 9 | bounds only when `issueDocument` may begin; a failed notary call that demotes an anchored document makes the number of batches unbounded otherwise. The cron is never held back by it |
| removals | one per document | a document that reappears is not removed again |
| `MaxTreeLeaves` | 5 | trees of one to four levels, with a lone node promoted once (3 leaves) and twice (5), over two documents, so that leaves repeat |
| `Calls`, `Tenants`, `StoredNames` | 2, 2, 2 (and `Slugs` 2, `MaxVaults` 1, `MaxCalls` 4) | two calls at once race on keys, slugs, the limit, a document and its vault; tenants meet each other's ids; two uploads of one stored name share an object |
| `Deliveries`, `Requests`, `Instances` | 2, 4, 2 | one request delivered twice, to one instance or to two; each request takes another way through the guards: an upload altered where the guard does not look (its content, and what follows a second `?`), a streamed download with a body nobody parses, a request whose body was altered, a route closed to its API client |
| `MaxSkewMs`, `MaxDelay`, `Spread`, `MaxTime` | 2, 1, 1, 5 | the whole window passes, and a nonce expires and is pruned, with time left; the bound of `AcceptedOnce` is tight here (one less and TLC finds a replay) |
| `MaxChanges`, `MaxFaulty` | 1, 1 | a membership changes before, between or after the reads; one of two deliveries is failed while the other is not |

Deadlock is checked in `AuditLog` (`Quiescent` is the end of a run within the bound)
and in `ChainVerifier` (`Finished`). It is off in the checkpoint and anchoring
configurations, where nobody waits for anybody: there a state without a step is
one in which every bound is used up. The same goes for `DocumentStore` (the number of
calls is bounded) and `RequestPipeline` (time and deliveries are).

Every instance in the anchoring runs has a TSA, so `AnchoredIsTimestamped` meets no
SIMULATED batch there. That one never makes a document ANCHORED, whichever workers have a
TSA and however their saves mix, is what the theorem `AnchoredAlwaysTimestamped` adds.

Fairness:

- `AuditLog`: a call's own steps are weakly fair (the process goes on running it).
  `AcquireLock` is strongly fair: PostgreSQL grants an advisory lock in the order of
  the requests, so a waiter whose key is free again and again gets it. No failure
  and no new call is fair.
- `ChainVerifier`: the walk is weakly fair; it waits for nobody.
- `AuditCheckpoint`: each hourly job is weakly fair, as its schedule fires for ever
  and no statement of it waits for another job. Failures are bounded, not fair.
- `DocumentAnchoring`: the cron only. It fires every minute and a TSA request ends,
  by its timeout if need be. Notary calls may stop anywhere. Failures (`Fail`) are bounded
  and never fair.
- `RequestPipeline`: time passes, each instance's prune fires every minute, and the
  INSERT of a nonce ends, one way or another. `MaxDelay`, that it ends in time, is an
  assumption about the database and not in the code; `AcceptedOnce` says what it costs.

## Findings

Each is a run in which TLC violates one property that quotes the repository.

1. **A false TRUNCATED** (`AuditFalseTruncated.cfg`). `verifyScopeAnchored` verifies the
   chain first and reads the checkpoint later, in another transaction. Rows appended
   and checkpointed in between put the anchor ahead of the verified head, which the
   code calls "newest rows deleted". `NoFalseAlarm` states, and the proof shows, that
   this is the only false alarm: the checkpoint was saved after the chain was read.
2. **A truncation that is forgotten** (`AuditReanchored.cfg`). A new checkpoint is made of
   any chain that verifies by itself and is longer than the last anchored one;
   earlier anchors are never looked at again. When the newest rows are deleted and as
   many others appended, the next hourly run makes the audit ANCHORED_OK.
3. **Checkpoints out of order** (`AuditOutOfOrder.cfg`). A slow job saves an older head
   after a newer one; audits go by `created_at`, so a chain cut below the newer anchor
   is not behind the "latest" one. With one job this cannot happen: `NotBehindAnyAnchor`
   holds in `AuditTampering.cfg`, and `NotBehindWithOneJob` proves it.
4. **A batch and another batch's proof** (`AnchoringRace.cfg`). `save` leaves out columns
   equal to those of the row it selected. With a cron and two notary calls on one
   document, a row can end with the batch of one call and the proof of another, and
   `verifyDocument` calls an untouched document MODIFIED. With at most two
   overlapping calls that have a TSA it cannot happen, but to a document that a notary
   call anchored without being told: `IssuedVerifies` holds in `DocumentAnchoring.cfg`, and
   `IssuedVerifiesWithTwoCalls` proves it.
5. **A removed document reappears** (`RemovedReappears.cfg`). It is loaded by the cron,
   removed while the TSA works, and inserted again by `save`, without its object.

## Proofs

All proofs are checked by TLAPS with its SMT, Zenon and LS4 backends. They hold for
every value of the constants that satisfies the modules' named assumptions:
`HashTextAssumption` (every scope has a key), `UnserializableAssumption`, the bounds
being naturals, `BatchSizeAssumption` (a page holds a row), `HistoriesAssumption`
(positions are unique and positive in the stored table; rows the application wrote
are hashed and linked), `WithTsaAssumption`, `FaultKindsAssumption`,
`WorkersAssumption` (crons and notary calls are different calls), `LeafAssumption` (the
hole in a proof is no document), `TreeBoundsAssumption`, `StoreBoundsAssumption` (finitely many calls) and
`InitialVaultsAssumption` (the unique indexes and the plans' limits hold of the vaults there
are at the start, whose ids are not those of vaults to come).

**`AuditLogProofs`**: `TypeCorrect`, `ChainAlwaysLinked`, `NoCollision`. The chain being
linked is not inductive: an INSERT is safe only because of what the call read long
before it. `ChainInv` adds that a transaction past the lock is the one holder of its
key (`LockHeld`), and that a row about to be inserted continues the committed chain of
its scope (`RowExtendsChain`); two calls of one scope have one key, so they are never
both past the lock (`OneWriterPerScope`), and a commit in another scope does not
disturb the row. Nothing is assumed of `HashText` but its type: collisions cost
waiting, never correctness.
`LedgerImplemented` is the refinement of `AuditLedger`, every step of it. `LedgerInv` adds
what makes a table a ledger: a scope with rows has a last one (`HasLast`), no position
before it is empty (`NoGaps`), and a row about to be inserted records the event of its call
(`RowRecordsRequest`). The INSERT maps to the append of that event, whenever the other
steps happen; all others map to the begin or the end of a call, or to a stutter.

**`ChainVerifierProofs`**: `VerdictCorrect`, `HistoryCommitted`. `WalkInv` says that the rows
up to the cursor are exactly those verified, all linked, and that the page in hand is
the next part of the snapshot; a break at a row means that the verified prefix cannot
be extended (`RejectedRowEndsPrefix`). `HistoryCommitted` follows
from an invariant of its own, `CommitInv`, proved on top of `WalkInv`: while the hash of
the row at the cursor is one the application wrote, so is every row up to the cursor.
The walk thus carries the induction over positions: equal hashes mean equal hashed
columns and equal previous hashes (`ChainHashCommitsRow`), so a row whose hash was
written points at a hash that was written. Nothing is assumed of `Unescaped`.
`TypeCorrect` rests on `WalkInv`: the cursor and the running state take their values
from the rows of the snapshot.

**`AuditCheckpointProofs`**: `TypeCorrect` (the owner's interventions included),
`CheckpointsAlwaysMatch`, `NoAuditAlarms`. `AnchorInv` says of the time before any
tampering that the log is an unbroken chain per scope and only grows, that the head a
job carries through its statements is in the log, and that an audit past its first
statement has a verdict on rows which are all still there. Since nothing ever leaves
the log, a head stays in it however late its checkpoint is saved.

**`AuditTamperingProofs`**: `AnchoredOkAuthentic`, for any number of jobs, audits and
interventions, and `NotBehindWithOneJob`, under the hypothesis that there is one job; two
overlapping jobs refute it (finding 3).
- `AuthInv` keeps what an audit has read: a chain with one row per position and its verdict
  (`ReadThen`), and, *as long as the owner has done nothing since*, that those rows are all
  in the log still (`RowsStay`), to which the application only adds. The anchored row,
  read last, is then one of the rows verified first (`Decided`). Below it everything is as
  written (`HistoryBelow`), by an induction down the chain: take the *least* position that
  can be proved authentic, and step below it, since a hash fixes the hash it was chained
  to. The numbers' being well founded is cited as a set-theoretic fact (`WFMin`), which asks
  for no operator.
- `OrderInv` says of one job that created_at ranks the checkpoints (`Ranked`), that, while
  none of a scope is edited, they are in the order of their heads (`Ascending`), that the
  head about to be saved is past all of them (`HeadAdvances`), that what an audit saw of
  them stays (`SeenStays`), and that a chain which passed the comparison with the latest
  reaches all it saw (`ReachesAnchors`). Here the owner need not rest: what he does to rows
  moves no checkpoint.

**`DocumentAnchoringProofs`**: `TypeCorrect`, `AnchoredAlwaysTimestamped`,
`IssuedVerifiesWithTwoCalls`. The second is inductive together with `TypeOK`: a save gives a
row the status ANCHORED only with its batch in the same commit, or leaves the status of the
row below it, and batches are never removed. The third has two hypotheses: at most two
calls, crons or notary calls, in whatever mix, and that all of them have a TSA. Without
either TLC refutes it: three calls by finding 4, and a cron without a TSA by saving its
SIMULATED columns over a row that a notary call with one has just anchored. `EvidenceInv`
speaks of the documents outside `unconfirmed` (`Confirmed`): the row of one is untouched,
PENDING or entirely of one timestamped batch, at most one call is about an ANCHORED
document (`OneHolder`), and a row selected as ANCHORED is still as selected when it is saved
(`SelectedWhole`): the other of the two calls would have had to be about it as well. A lost
acknowledgement takes its document out of `Confirmed` and leaves the others as they were
(`LostKeepsEvidence`).

**`DocumentStoreProofs`**: every property of the module, for any number of calls, tenants,
names and slugs. What a call carries between its statements is the invariant; a step
touches one slot (`Becomes`), and the steps are sorted once by what they can disturb
(`VaultStep`, `DocumentStep`), so that each theorem has few cases.
- `KeyInv`: a call past `findKey` carries the key in the table, or is about to save one;
  whoever loses the race reads the winner's. `KeyOpensObjects` follows.
- `RowInv`: an id is one upload's from its arrival on, and a row a call has found was
  saved. With `KeyInv` it gives `DownloadGivesUpload`, and with `BackedInv` (a row about to
  be saved has its object already) `RowHasObject`.
- `VaultInv`: a vault id is one tenant's, and no other call is about a vault being
  created. It gives `RowsInOwnVault`, and with `OrphanInv` (an object that a removal has
  deleted does not come back) `OrphansExplained`.
- `CountedInv`: a vault about to be deleted holds no document that was in it when its
  removal began, since they were counted after that and no id is saved twice.
- `LimitInv`: a tenant's vaults and its creations past the count together stay below the
  limit plus the number of calls; this one is about cardinalities.

**`RequestPipelineProofs`**: `TypeCorrect`, `NoReplay`, `Authorised`, `AnswersAreRecorded`,
`RowsAgree`, from `TimesAssumption`, `ClocksAssumption` (no two clocks differ by more than
`Spread`) and `UsersAssumption`, for any number of deliveries and instances. `AcceptedOnce`
speaks of two deliveries and is not inductive: once the row of the first is pruned nothing
in the table tells. `ReplayInv` keeps, for every accepted delivery, that its row is still
there or *some* instance's clock is past the row's expiry (`Remembered`), and, for a
pending INSERT, that it is at most `MaxDelay` older than its check, on the clock of some
instance (`PendingOK`, `WindowOK`). An INSERT that finds no row then adds up to
`LateAcceptance`: the first acceptance was fresher than `MaxDelay + Spread`. The other three
follow from `SoundInv`, one formula per delivery: `Vouched` (from the signature on, the
role the directory has now is among those the request has seen, until it asks) and
`Accounted` (the rows, the handler's end and the answer at every stage). The steps of one
delivery leave the others alone, so each case is about one record (`SoundStep`).

**`DocumentTreesProofs`**: `TreesAreLists`, `NothingForged`, `OnlyLeavesProved`, for trees of
any height and with no bound on a proof. A recursive function has the values its equation
says because finite ones exist for every number of levels or steps; that, and each claim
about levels, is an induction by way of a set of numbers (`AllOfRange`, from the least
number not in the set).
- The proof of a leaf leads to the root: `LeadsUp`, level by level, says that the steps
  collected so far lead to the node above the leaf, and that a tree with another leaf in
  that place differs from this one nowhere else.
- Two lists never have one root. The first leaf lies as deep as the root is high, so the
  trees have one height (`NotHigher`); a promoted node is never made of two nodes of the
  level it is promoted from (`PromotedNode`), so one level fixes the one below.
- Nothing but a leaf can be proved: a hash of the tree is a leaf's, or made of two hashes of
  the tree (`FirstOccurrence`), so that a proof, read backwards from the root, never leaves
  the tree. Its steps may hold any hashes whatever (`OnlyLeavesProved`). The prefix bytes
  enter as `LeafNotNode`.

Only model-checked: liveness (`EveryCallAnswered`, `WalkEnds`, `EveryRowAnchored`,
`EventuallyAnchored`, `NoncesPruned`), which is out of the prover's reach. Every invariant
and every action property of a passing run is the property of a theorem, two of them
(`NotBehindAnyAnchor`, `IssuedVerifies`) under the hypotheses named above.

## What is not modelled

- Cryptography and byte formats: AES-GCM streams, key wrapping, canonical JSON, ASN.1,
  CMS and X.509 checks, the canonical string of a Zero Trust signature. Hashes,
  signatures, cipher texts and tokens are terms (above), and of an encoding the models
  keep only whether two events share a text.
- Rotation of tenant keys: the code never creates a version above 1.
- A configuration that changes between runs (a TSA added later): SIMULATED documents are
  not taken up again, and SIMULATED checkpoints hold back a real one until the head
  advances. This is listed as a hazard.
- Plan checks, paging of lists, DTO validation, wiring, SQL of roles and triggers
  (their effect is: the application never updates or deletes audit rows), seeds, legacy
  tables, and the smart contract, which nothing calls.

Components not yet modelled have their reasons in `PROJECT.json`.

## Plan

Done: `AuditChain`, `AuditLog` with `AuditLedger`, `ChainVerifier`, `AuditCheckpoint`,
`DocumentAnchoring` with `Merkle`, `DocumentStore`, `RequestPipeline` with `ZeroTrust`, and
the proofs above.

Left: a TSA that is configured between two runs of the cron, as a variable of
`AuditCheckpoint` and `DocumentAnchoring` (a hazard without a property); an hourly job over
two scopes, of which the first fails (another: a run with two scopes takes too long).
