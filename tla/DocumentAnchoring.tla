------------------------- MODULE DocumentAnchoring -------------------------
(***************************************************************************)
(* Merkle-batch anchoring of documents (modules/anchor/anchor.service.ts)  *)
(* with its two callers: the cron of every API instance (processPending)   *)
(* and the notary endpoint (modules/notary, issueDocument), while users    *)
(* upload and remove documents (modules/documents).                        *)
(*                                                                         *)
(* Nobody locks a document.  A caller loads entities, waits for the TSA    *)
(* and then saves what it loaded.  TypeORM's save is two statements: a     *)
(* SELECT of the rows by primary key, then an UPDATE of the columns that   *)
(* differ from the row selected, or an INSERT when no row was selected.    *)
(*                                                                         *)
(* A leaf value (the hash of the stored bytes) is the document itself and  *)
(* a Merkle root is the sequence of its leaves: hashes do not collide, and *)
(* DocumentTrees compares this with the trees themselves.                  *)
(***************************************************************************)
EXTENDS Naturals, Sequences, FiniteSets

CONSTANTS
    Docs,        \* document ids
    Crons,       \* processPending runs that may overlap (one per instance)
    Issuers,     \* concurrent calls of issueDocument
    WithTsa,     \* the workers whose instance has a TSA; the others simulate
    MaxLeaves,   \* MAX_LEAVES_PER_BATCH
    MaxBatches,  \* bound: no issueDocument begins once this many batches exist
    MaxAborts    \* bound on TSA failures, lost connections and crashes

Workers == Crons \union Issuers
Leaf == "leaf"    \* the place of the running leaf in an inclusion proof

ASSUME WorkersAssumption == Crons \intersect Issuers = {} /\ WithTsa \subseteq Workers
ASSUME LeafAssumption == Leaf \notin Docs
ASSUME AnchoringBoundsAssumption ==
    MaxLeaves \in Nat \ {0} /\ MaxBatches \in Nat /\ MaxAborts \in Nat

VARIABLES
    documents,  \* document -> its row in table documents, or Absent
    uploaded,   \* the documents uploaded, oldest first (created_at)
    blobs,      \* document -> the content of its object in storage
    removing,   \* documents whose object is deleted and whose row is about to be
    removed,    \* documents whose removal was answered (history)
    batches,    \* the rows of table anchor_batches, in the order of their commits
    worker,     \* worker -> its call
    unconfirmed, \* documents of notary calls whose COMMIT took effect unacknowledged (history)
    aborts      \* number of TSA failures, lost connections and crashes

vars == <<documents, uploaded, blobs, removing, removed, batches, worker, unconfirmed, aborts>>

-----------------------------------------------------------------------------
(***************************************************************************)
(* Rows and proofs.                                                        *)
(***************************************************************************)

\* The columns of a document that anchoring writes; 0 and <<>> are NULL.
\* anchored_at is the time of a batch's token, hence the number of that batch.
RowOf(status, at, batch, proof) ==
    [status |-> status, at |-> at, batch |-> batch, proof |-> proof]
Absent == RowOf("none", 0, 0, <<>>)
Pending == RowOf("PENDING", 0, 0, <<>>)
Columns == DOMAIN Pending

\* tree.proofFor(index): everything the root needs but the leaf.
ProofFor(leaves, index) == [leaves EXCEPT ![index] = Leaf]

\* verifyMerkleProof: putting the leaf in its place gives the root.
VerifyMerkleProof(leaf, proof, root) ==
    \E i \in DOMAIN proof : proof[i] = Leaf /\ [proof EXCEPT ![i] = leaf] = root

Elements(s) == {s[i] : i \in DOMAIN s}

\* Mutant: every document gets the proof of the first leaf.
IndexOfFirst(s, d) == 1

IndexOf(s, d) == CHOOSE i \in DOMAIN s : s[i] = d

\* Mutant: the batch's status does not depend on the kind of the timestamp.
BatchAlwaysSimulated(w, docs) == [root |-> docs, status |-> "SIMULATED", token |-> docs]

\* The batch a worker saves for the documents it timestamped.
BatchOf(w, docs) ==
    IF w \in WithTsa THEN [root |-> docs, status |-> "TIMESTAMPED", token |-> docs]
                     ELSE [root |-> docs, status |-> "SIMULATED", token |-> <<>>]

\* The fields that worker w gives to document d when its batch gets number b.
AnchoredRow(w, docs, d, b) ==
    IF w \in WithTsa THEN RowOf("ANCHORED", b, b, ProofFor(docs, IndexOf(docs, d)))
                     ELSE RowOf("SIMULATED", 0, b, ProofFor(docs, IndexOf(docs, d)))

\* What save leaves in a row that is now `row`, for an entity `mine`, when its SELECT
\* returned `selected`.  An UPDATE of a row removed meanwhile affects nothing.
SavedOver(row, selected, mine) ==
    IF selected = Absent THEN mine
    ELSE IF row = Absent THEN Absent
    ELSE [c \in Columns |-> IF mine[c] = selected[c] THEN row[c] ELSE mine[c]]

\* An INSERT meets a row with its primary key.
Conflict(row, selected) == selected = Absent /\ row # Absent

\* The local state of a call: the documents it anchors, the row the notary loaded
\* first, and what the SELECT of save returned.
WorkerAt(pc, docs, first, selected) ==
    [pc |-> pc, docs |-> docs, first |-> first, selected |-> selected]
IdleWorker == WorkerAt("idle", <<>>, Absent, <<>>)
Goto(w, pc, selected) ==
    worker' = [worker EXCEPT ![w] = WorkerAt(pc, @.docs, @.first, selected)]

Init ==
    /\ documents = [d \in Docs |-> Absent]
    /\ uploaded = <<>>
    /\ blobs = [d \in Docs |-> "none"]
    /\ removing = {}
    /\ removed = {}
    /\ batches = <<>>
    /\ worker = [w \in Workers |-> IdleWorker]
    /\ unconfirmed = {}
    /\ aborts = 0

-----------------------------------------------------------------------------
(***************************************************************************)
(* The users' side: upload stores the object and then the row; remove      *)
(* deletes the object and then the row.                                    *)
(***************************************************************************)
Upload(d) ==
    /\ d \notin Elements(uploaded)
    /\ documents' = [documents EXCEPT ![d] = Pending]
    /\ uploaded' = Append(uploaded, d)
    /\ blobs' = [blobs EXCEPT ![d] = "original"]
    /\ UNCHANGED <<removing, removed, batches, worker, unconfirmed, aborts>>

\* Each document is removed at most once (a bound).
RemoveObject(d) ==
    /\ documents[d] # Absent
    /\ d \notin removing \union removed
    /\ blobs' = [blobs EXCEPT ![d] = "none"]
    /\ removing' = removing \union {d}
    /\ UNCHANGED <<documents, uploaded, removed, batches, worker, unconfirmed, aborts>>

RemoveRow(d) ==
    /\ d \in removing
    /\ documents' = [documents EXCEPT ![d] = Absent]
    /\ removing' = removing \ {d}
    /\ removed' = removed \union {d}
    /\ UNCHANGED <<uploaded, blobs, batches, worker, unconfirmed, aborts>>

\* Whoever has access to the storage alters an object.
AlterObject(d) ==
    /\ blobs[d] = "original"
    /\ blobs' = [blobs EXCEPT ![d] = "altered"]
    /\ UNCHANGED <<documents, uploaded, removing, removed, batches, worker, unconfirmed, aborts>>

-----------------------------------------------------------------------------
(***************************************************************************)
(* The callers of anchorDocuments.                                         *)
(***************************************************************************)

IsPending(d) == documents[d].status = "PENDING"
Older(d, e) == \E i, j \in DOMAIN uploaded : i < j /\ uploaded[i] = d /\ uploaded[j] = e

\* ORDER BY created_at, LIMIT MaxLeaves.
AreOldestPending(docs) ==
    /\ \A i \in DOMAIN docs : IsPending(docs[i])
    /\ \A i, j \in DOMAIN docs : i < j => Older(docs[i], docs[j])
    /\ \A d \in Docs \ Elements(docs) : IsPending(d) =>
           Len(docs) = MaxLeaves /\ \A i \in DOMAIN docs : Older(docs[i], d)

\* processPending loads the oldest pending documents; with none it returns.
FindPending(w) ==
    /\ w \in Crons
    /\ worker[w].pc = "idle"
    /\ \E n \in 1 .. MaxLeaves : \E docs \in [1 .. n -> Docs] :
           /\ AreOldestPending(docs)
           /\ worker' = [worker EXCEPT ![w] = WorkerAt("stamp", docs, Absent, <<>>)]
    /\ UNCHANGED <<documents, uploaded, blobs, removing, removed, batches, unconfirmed, aborts>>

\* issueDocument loads the document: a missing one is answered 404, an anchored one
\* is returned as it is.
IsIssued(row) == row.status = "ANCHORED" /\ row.batch # 0 /\ row.at # 0

IssueDocument(w, d) ==
    /\ w \in Issuers
    /\ worker[w].pc = "idle"
    /\ documents[d] # Absent
    /\ ~ IsIssued(documents[d])
    /\ Len(batches) < MaxBatches
    /\ worker' = [worker EXCEPT ![w] = WorkerAt("reload", <<d>>, documents[d], <<>>)]
    /\ UNCHANGED <<documents, uploaded, blobs, removing, removed, batches, unconfirmed, aborts>>

\* The error handlers: processPending logs, issueDocument saves the entity it loaded.
AfterError(w) == IF w \in Issuers THEN "selectPending" ELSE "idle"

\* anchorDocumentById loads the document again, or throws NotFound.
Reload(w) ==
    /\ worker[w].pc = "reload"
    /\ Goto(w, IF documents[worker[w].docs[1]] = Absent THEN AfterError(w) ELSE "stamp", <<>>)
    /\ UNCHANGED <<documents, uploaded, blobs, removing, removed, batches, unconfirmed, aborts>>

-----------------------------------------------------------------------------
(***************************************************************************)
(* anchorDocuments: timestampRoot, then one transaction that saves the     *)
(* batch and the documents.                                                *)
(***************************************************************************)
TimestampRoot(w) ==
    /\ worker[w].pc = "stamp"
    /\ Goto(w, "select", <<>>)
    /\ UNCHANGED <<documents, uploaded, blobs, removing, removed, batches, unconfirmed, aborts>>

\* Mutant: a failure marks the documents FAILED, and nobody tries them again.
TimestampFailsForGood(w) ==
    /\ worker[w].pc = "stamp"
    /\ w \in WithTsa
    /\ aborts < MaxAborts
    /\ aborts' = aborts + 1
    /\ documents' = [d \in Docs |->
           IF d \in Elements(worker[w].docs) /\ documents[d] # Absent
           THEN [documents[d] EXCEPT !.status = "FAILED"] ELSE documents[d]]
    /\ worker' = [worker EXCEPT ![w] = IdleWorker]
    /\ UNCHANGED <<uploaded, blobs, removing, removed, batches, unconfirmed>>

\* The TSA does not answer within its timeout, or refuses.
TimestampFails(w) ==
    /\ worker[w].pc = "stamp"
    /\ w \in WithTsa
    /\ aborts < MaxAborts
    /\ aborts' = aborts + 1
    /\ Goto(w, AfterError(w), <<>>)
    /\ UNCHANGED <<documents, uploaded, blobs, removing, removed, batches, unconfirmed>>

\* The SELECT of docRepo.save.
SelectForSave(w) ==
    /\ worker[w].pc = "select"
    /\ Goto(w, "write", [d \in Elements(worker[w].docs) |-> documents[d]])
    /\ UNCHANGED <<documents, uploaded, blobs, removing, removed, batches, unconfirmed, aborts>>

\* The writes of the transaction, and its commit.
SaveAnchor(w) ==
    LET docs == worker[w].docs
        selected == worker[w].selected
        b == Len(batches) + 1
    IN  /\ worker[w].pc = "write"
        /\ \A d \in Elements(docs) : ~ Conflict(documents[d], selected[d])
        /\ batches' = Append(batches, BatchOf(w, docs))
        /\ documents' = [d \in Docs |->
               IF d \in Elements(docs)
               THEN SavedOver(documents[d], selected[d], AnchoredRow(w, docs, d, b))
               ELSE documents[d]]
        /\ UNCHANGED <<uploaded, blobs, removing, removed>>

CommitAnchor(w) ==
    /\ SaveAnchor(w)
    /\ worker' = [worker EXCEPT ![w] = IdleWorker]
    /\ UNCHANGED <<unconfirmed, aborts>>

\* The COMMIT takes effect and its acknowledgement is lost: the notary call goes on as
\* after a failure.  The cron only logs one, which is a CommitAnchor.
CommitLost(w) ==
    /\ SaveAnchor(w)
    /\ w \in Issuers
    /\ aborts < MaxAborts
    /\ aborts' = aborts + 1
    /\ Goto(w, AfterError(w), <<>>)
    /\ unconfirmed' = unconfirmed \union Elements(worker[w].docs)

\* The transaction meets an existing primary key and rolls back.
RollbackAnchor(w) ==
    /\ worker[w].pc = "write"
    /\ \E d \in Elements(worker[w].docs) : Conflict(documents[d], worker[w].selected[d])
    /\ Goto(w, AfterError(w), <<>>)
    /\ UNCHANGED <<documents, uploaded, blobs, removing, removed, batches, unconfirmed, aborts>>

\* The catch block of issueDocument: the entity loaded first is saved as PENDING.
SelectForPending(w) ==
    /\ worker[w].pc = "selectPending"
    /\ Goto(w, "writePending", [d \in Elements(worker[w].docs) |-> documents[d]])
    /\ UNCHANGED <<documents, uploaded, blobs, removing, removed, batches, unconfirmed, aborts>>

\* Mutant: the notary's failed attempt is recorded as FAILED.
DemotedRowToFailed(first) == [first EXCEPT !.status = "FAILED", !.at = 0]

DemotedRow(first) == [first EXCEPT !.status = "PENDING", !.at = 0]

SavePending(w) ==
    LET d == worker[w].docs[1]
        selected == worker[w].selected[d]
    IN  /\ worker[w].pc = "writePending"
        /\ documents' = [documents EXCEPT ![d] =
               IF Conflict(@, selected) THEN @
               ELSE SavedOver(@, selected, DemotedRow(worker[w].first))]
        /\ worker' = [worker EXCEPT ![w] = IdleWorker]
        /\ UNCHANGED <<uploaded, blobs, removing, removed, batches, unconfirmed, aborts>>

\* The database connection is lost before a statement took effect: an exception, which
\* the call handles, but in the catch block of issueDocument.
ConnectionFails(w) ==
    /\ worker[w].pc \in {"reload", "select", "write", "selectPending", "writePending"}
    /\ aborts < MaxAborts
    /\ aborts' = aborts + 1
    /\ Goto(w, IF worker[w].pc \in {"selectPending", "writePending"}
               THEN "idle" ELSE AfterError(w), <<>>)
    /\ UNCHANGED <<documents, uploaded, blobs, removing, removed, batches, unconfirmed>>

\* The process of the instance ends during a call, without running any handler.
Crash(w) ==
    /\ worker[w].pc # "idle"
    /\ aborts < MaxAborts
    /\ aborts' = aborts + 1
    /\ worker' = [worker EXCEPT ![w] = IdleWorker]
    /\ UNCHANGED <<documents, uploaded, blobs, removing, removed, batches, unconfirmed>>

-----------------------------------------------------------------------------
Anchor(w) ==
    \/ Reload(w) \/ TimestampRoot(w)
    \/ SelectForSave(w) \/ CommitAnchor(w) \/ RollbackAnchor(w)
    \/ SelectForPending(w) \/ SavePending(w)

Fail(w) == TimestampFails(w) \/ ConnectionFails(w) \/ CommitLost(w) \/ Crash(w)

Next ==
    \/ \E d \in Docs : Upload(d) \/ RemoveObject(d) \/ RemoveRow(d) \/ AlterObject(d)
    \/ \E w \in Workers : FindPending(w) \/ Anchor(w) \/ Fail(w)
    \/ \E w \in Workers, d \in Docs : IssueDocument(w, d)

Spec == Init /\ [][Next]_vars

\* The cron fires every minute and its calls return: the TSA request has a timeout.
FairSpec == Spec /\ \A w \in Crons : WF_vars(FindPending(w) \/ Anchor(w))

-----------------------------------------------------------------------------
(***************************************************************************)
(* verifyDocument, on one reading of the row, its batch and its object.    *)
(***************************************************************************)
IsAnchored(row) ==
    /\ row.batch # 0
    /\ batches[row.batch].status = "TIMESTAMPED"
    /\ row.proof # <<>>
    /\ row.at # 0

VerifyDocument(d) ==
    LET row == documents[d]
    IN  IF ~ IsAnchored(row) THEN "NOT_ANCHORED"
        ELSE IF /\ blobs[d] = "original"
                /\ VerifyMerkleProof(d, row.proof, batches[row.batch].root)
                /\ batches[row.batch].token = batches[row.batch].root
             THEN "VALID" ELSE "MODIFIED"

\* A document can be verified when its row exists and its object can be read.
Verifiable == {d \in Docs : documents[d] # Absent /\ blobs[d] # "none"}

-----------------------------------------------------------------------------
(***************************************************************************)
(* Properties.                                                             *)
(***************************************************************************)

\* The types of the variables: a row's batch exists, and a call that is going to write
\* remembers a row for each of its documents (anchor.service.ts, document.entity.ts).
Rows == [status : {"none", "PENDING", "ANCHORED", "SIMULATED"},
         at     : 0 .. Len(batches),
         batch  : 0 .. Len(batches),
         proof  : Seq(Docs \union {Leaf})]
BatchRows == [root : Seq(Docs), status : {"TIMESTAMPED", "SIMULATED"}, token : Seq(Docs)]
CallOK(c) ==
    /\ c.pc \in {"idle", "reload", "stamp", "select", "write", "selectPending", "writePending"}
    /\ c.docs \in Seq(Docs)
    /\ c.pc # "idle" => c.docs # <<>>
    /\ c.first \in Rows
    /\ c.pc \in {"write", "writePending"} => c.selected \in [Elements(c.docs) -> Rows]
TypeOK ==
    /\ documents \in [Docs -> Rows]
    /\ uploaded \in Seq(Docs)
    /\ blobs \in [Docs -> {"none", "original", "altered"}]
    /\ removing \subseteq Docs
    /\ removed \subseteq Docs
    /\ batches \in Seq(BatchRows)
    /\ DOMAIN worker = Workers
    /\ \A w \in Workers : CallOK(worker[w])
    /\ unconfirmed \subseteq Docs
    /\ aborts \in 0 .. MaxAborts

\* "A simulated timestamp never yields a real anchor": whatever saves interleave, a
\* document is ANCHORED only if a batch the TSA timestamped holds its leaf
\* (anchorDocuments saves both in one transaction).
AnchoredIsTimestamped ==
    \A d \in Docs : documents[d].status = "ANCHORED" =>
        \E b \in DOMAIN batches :
            batches[b].status = "TIMESTAMPED" /\ d \in Elements(batches[b].root)

\* The columns of a document belong together: verification finds evidence exactly for a
\* document shown as ANCHORED, and calls it MODIFIED only if its object was altered.
Coherent(d) ==
    /\ documents[d].status = "ANCHORED" <=> VerifyDocument(d) # "NOT_ANCHORED"
    /\ VerifyDocument(d) = "MODIFIED" => blobs[d] = "altered"

\* The columns of every document that can be verified belong together (anchorDocuments
\* against verifyDocument), but of those that a notary call anchored without being told:
\* the catch block of issueDocument saves such a one as PENDING over the row it committed
\* itself, and a cron that selected that row writes its batch and proof, not its status.
IssuedVerifies == \A d \in Verifiable \ unconfirmed : Coherent(d)

\* Once a removal is answered the document does not come back (documents.service.ts,
\* remove): DELETE is followed by 404.
RemovedStaysRemoved == \A d \in removed : documents[d] = Absent

\* Every document uploaded is in the end anchored or removed, TSA failures, crashes
\* and stale saves notwithstanding (processPending retries what is PENDING).
EventuallyAnchored ==
    \A d \in Docs : documents[d].status = "PENDING" ~> [](documents[d].status \in {"ANCHORED", "none"})
=============================================================================
