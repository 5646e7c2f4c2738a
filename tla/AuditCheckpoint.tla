-------------------------- MODULE AuditCheckpoint --------------------------
(***************************************************************************)
(* Anchored checkpoints of the audit chain (modules/audit/audit-checkpoint *)
(* .service.ts, audit-checkpoint.cron.ts): an hourly job in every instance *)
(* of the API timestamps the heads of the chains, and an auditor compares  *)
(* a chain with the latest anchored head.  Neither takes a lock, and each  *)
(* reads the database in several statements, so jobs, auditors, appends    *)
(* and the database owner interleave.                                      *)
(*                                                                         *)
(* Appends are atomic (AuditLog implements AuditLedger) and the result of  *)
(* verifyScope is the verdict on the rows of one moment (ChainVerifier).   *)
(* A timestamp token is the hash it attests: only the TSA issues one.      *)
(***************************************************************************)
EXTENDS AuditChain, FiniteSets

CONSTANTS
    Scopes,      \* tenant ids and 'GLOBAL'
    Instances,   \* running hourly jobs (instances of the API, or a run that overlaps the next)
    WithTsa,     \* the instances configured with a TSA; the others only simulate
    Auditors,    \* concurrent calls of verifyScopeAnchored
    FaultKinds,  \* what the database owner may do
    Contents,    \* what he may write into the event of a row ("event" is what the
                 \* application records)
    MaxRows,     \* bound on the rows written per scope
    MaxAborts,   \* bound on the job runs that fail
    MaxFaults    \* bound on the owner's interventions

ASSUME WithTsaAssumption == WithTsa \subseteq Instances
ASSUME FaultKindsAssumption ==
    FaultKinds \subseteq {"delete newest", "edit row", "rewrite", "restore", "edit checkpoint"}
ASSUME BoundsAssumption == MaxRows \in Nat /\ MaxAborts \in Nat /\ MaxFaults \in Nat

VARIABLES
    auditLogs,    \* the rows of table audit_logs
    written,      \* every row createChained ever committed (history)
    checkpoints,  \* the rows of table audit_checkpoints
    saves,        \* number of checkpoints the jobs saved: the clock of created_at
    edited,       \* the scopes of which the owner changed a checkpoint (history)
    job,          \* instance -> its run of checkpointAllScopes
    audit,        \* auditor -> its call of verifyScopeAnchored
    aborts,       \* number of runs that failed
    faults        \* number of interventions of the owner

tables == <<auditLogs, written, checkpoints, saves, edited>>
vars == <<tables, job, audit, aborts, faults>>

-----------------------------------------------------------------------------
(***************************************************************************)
(* Data.                                                                   *)
(***************************************************************************)

\* computeCheckpointHash: the value that is timestamped.
ComputeCheckpointHash(scope, headSeq, headHash) == <<"checkpoint", scope, headSeq, headHash>>

NoToken == <<>>

\* What verifyScope reports on these rows.
Verdicts(rows) ==
    {v \in [status   : {"EMPTY", "VALID", "BROKEN"},
            headSeq  : {0} \union {r.seq : r \in rows},
            headHash : {NoHash} \union {r.chainHash : r \in rows}] :
        IsVerdict(rows, v.status, v.headSeq, v.headHash)}

NoVerdict == [status |-> "NONE", headSeq |-> 0, headHash |-> NoHash]

\* ORDER BY created_at: createdAt is the rank of the insertion.
LatestOf(cs) == {c \in cs : \A d \in cs : d.createdAt <= c.createdAt}

CheckpointsOf(s) == {c \in checkpoints : c.scope = s}
TimestampedOf(s) == {c \in CheckpointsOf(s) : c.status = "TIMESTAMPED"}

\* The checkpoint's fields give its hash; a token is present and attests it.
FieldsMatch(c) ==
    /\ c.checkpointHash = ComputeCheckpointHash(c.scope, c.headSeq, c.headHash)
    /\ c.token # NoToken
TokenValid(c) == c.token = c.checkpointHash

\* The local state of a job: the scopes still to do, and the head it is anchoring.
JobAt(pc, todo, scope, head, token) ==
    [pc |-> pc, todo |-> todo, scope |-> scope, head |-> head, token |-> token]
IdleJob == JobAt("idle", {}, "none", NoVerdict, NoToken)
BetweenScopes(todo) == JobAt("next", todo, "none", NoVerdict, NoToken)

\* What an audit finds when it reads the chain of a scope.  All but the chain is
\* history: the rows, the TIMESTAMPED checkpoints, and the interventions so far.
FoundNow(scope, chain) ==
    [scope |-> scope, chain |-> chain, rows |-> RowsOf(auditLogs, scope),
     seen |-> TimestampedOf(scope), faults |-> faults]
NothingFound == [scope |-> "none", chain |-> NoVerdict, rows |-> {}, seen |-> {}, faults |-> 0]

\* The local state of an audit: what it found first, the checkpoint and its answer, and
\* (history) the interventions up to its latest step.
AuditAt(pc, found, checkpoint, anchorStatus, ended) ==
    [pc |-> pc, found |-> found, checkpoint |-> checkpoint, anchorStatus |-> anchorStatus,
     ended |-> ended]
NoCheckpoint == [scope |-> "none", createdAt |-> 0]
IdleAudit == AuditAt("idle", NothingFound, NoCheckpoint, "NONE", 0)
AuditGoesOn(a, pc, checkpoint, anchorStatus) ==
    audit' = [audit EXCEPT ![a] = AuditAt(pc, audit[a].found, checkpoint, anchorStatus, faults)]

Init ==
    /\ auditLogs = {}
    /\ written = {}
    /\ checkpoints = {}
    /\ saves = 0
    /\ edited = {}
    /\ job = [i \in Instances |-> IdleJob]
    /\ audit = [a \in Auditors |-> IdleAudit]
    /\ aborts = 0
    /\ faults = 0

-----------------------------------------------------------------------------
(***************************************************************************)
(* The application appends.                                                *)
(***************************************************************************)
Newest(s) == {r \in RowsOf(auditLogs, s) : \A q \in RowsOf(auditLogs, s) : q.seq <= r.seq}

\* A committed createChained; its id is fresh.
Append(s) ==
    LET id == <<Cardinality(RowsOf(written, s)) + 1>>
    IN  /\ Cardinality(RowsOf(written, s)) < MaxRows
        /\ \E row \in IF Newest(s) = {}
                      THEN {MakeRow(CurrentSchemaVersion, s, 1, id, "event", NoHash)}
                      ELSE {MakeRow(CurrentSchemaVersion, s, last.seq + 1, id, "event",
                                    last.chainHash) : last \in Newest(s)} :
               /\ auditLogs' = auditLogs \union {row}
               /\ written' = written \union {row}
        /\ UNCHANGED <<checkpoints, saves, edited, job, audit, aborts, faults>>

-----------------------------------------------------------------------------
(***************************************************************************)
(* The hourly job: checkpointAllScopes calls createCheckpoint on one scope *)
(* after the other.                                                        *)
(*   "idle" -> "next" -> "latest" -> "timestamp" -> "save" -> "next" ...   *)
(***************************************************************************)

\* The cron fires; listScopes.
StartRun(i) ==
    /\ job[i].pc = "idle"
    /\ job' = [job EXCEPT ![i] = BetweenScopes({r.scope : r \in auditLogs})]
    /\ UNCHANGED <<tables, audit, aborts, faults>>

\* Mutant: broken chains are anchored too.
AnchorableUnlessEmpty(v) == v.status # "EMPTY"

\* A chain that is empty or broken is skipped.
Anchorable(v) == v.status = "VALID"

\* createCheckpoint on the next scope begins with verifyScope.
VerifyNextScope(i) ==
    /\ job[i].pc = "next"
    /\ \E s \in job[i].todo : \E v \in Verdicts(RowsOf(auditLogs, s)) :
           job' = [job EXCEPT ![i] = IF Anchorable(v)
                                     THEN JobAt("latest", job[i].todo \ {s}, s, v, NoToken)
                                     ELSE BetweenScopes(job[i].todo \ {s})]
    /\ UNCHANGED <<tables, audit, aborts, faults>>

\* Mutant: an advance by one row is not anchored.
UnchangedWithinOne(latest, head) == latest.headSeq + 1 >= head.headSeq

\* The head has not advanced beyond the checkpoint.
UnchangedSince(latest, head) == latest.headSeq >= head.headSeq

\* Read the latest checkpoint of the scope, of any status: skip the scope when the
\* head has not advanced.
ReadLatest(i) ==
    /\ job[i].pc = "latest"
    /\ job' = [job EXCEPT ![i] =
                  IF \E latest \in LatestOf(CheckpointsOf(job[i].scope)) :
                         UnchangedSince(latest, job[i].head)
                  THEN BetweenScopes(job[i].todo)
                  ELSE JobAt("timestamp", job[i].todo, job[i].scope, job[i].head, NoToken)]
    /\ UNCHANGED <<tables, audit, aborts, faults>>

\* timestampRoot: a token of the TSA, or none from the simulated client.
TokenFor(i) ==
    IF i \in WithTsa
    THEN ComputeCheckpointHash(job[i].scope, job[i].head.headSeq, job[i].head.headHash)
    ELSE NoToken

TimestampRoot(i) ==
    /\ job[i].pc = "timestamp"
    /\ job' = [job EXCEPT ![i] =
                  JobAt("save", job[i].todo, job[i].scope, job[i].head, TokenFor(i))]
    /\ UNCHANGED <<tables, audit, aborts, faults>>

\* Mutant: the seq of the head is read again when saving.
CheckpointOfCurrentHead(i) ==
    LET seq == IF Newest(job[i].scope) = {} THEN 0
               ELSE (CHOOSE r \in Newest(job[i].scope) : TRUE).seq
    IN  [scope |-> job[i].scope, headSeq |-> seq, headHash |-> job[i].head.headHash,
         checkpointHash |-> ComputeCheckpointHash(job[i].scope, seq, job[i].head.headHash),
         status |-> IF i \in WithTsa THEN "TIMESTAMPED" ELSE "SIMULATED",
         token |-> job[i].token, createdAt |-> saves + 1]

\* The row createCheckpoint saves.
CheckpointOf(i) ==
    [scope |-> job[i].scope, headSeq |-> job[i].head.headSeq, headHash |-> job[i].head.headHash,
     checkpointHash |-> ComputeCheckpointHash(job[i].scope, job[i].head.headSeq,
                                              job[i].head.headHash),
     status |-> IF i \in WithTsa THEN "TIMESTAMPED" ELSE "SIMULATED",
     token |-> job[i].token,
     createdAt |-> saves + 1]

SaveCheckpoint(i) ==
    /\ job[i].pc = "save"
    /\ checkpoints' = checkpoints \union {CheckpointOf(i)}
    /\ saves' = saves + 1
    /\ job' = [job EXCEPT ![i] = BetweenScopes(job[i].todo)]
    /\ UNCHANGED <<auditLogs, written, edited, audit, aborts, faults>>

EndRun(i) ==
    /\ job[i].pc = "next"
    /\ job[i].todo = {}
    /\ job' = [job EXCEPT ![i] = IdleJob]
    /\ UNCHANGED <<tables, audit, aborts, faults>>

\* The TSA refuses or times out, a query fails, or the process dies: the error
\* leaves the loop over the scopes and the rest of the run is lost.
AbortRun(i) ==
    /\ job[i].pc # "idle"
    /\ aborts < MaxAborts
    /\ aborts' = aborts + 1
    /\ job' = [job EXCEPT ![i] = IdleJob]
    /\ UNCHANGED <<tables, audit, faults>>

-----------------------------------------------------------------------------
(***************************************************************************)
(* verifyScopeAnchored: "idle" -> "chain" -> "row" -> "done".              *)
(***************************************************************************)

\* verifyScope.
VerifyChain(a) ==
    /\ audit[a].pc = "idle"
    /\ \E s \in Scopes : \E v \in Verdicts(RowsOf(auditLogs, s)) :
           audit' = [audit EXCEPT ![a] =
                        AuditAt("chain", FoundNow(s, v), NoCheckpoint, "NONE", faults)]
    /\ UNCHANGED <<tables, job, aborts, faults>>

\* Mutants: <= for <; the comparison is dropped.
BehindOrEqual(chain, checkpoint) == chain.headSeq <= checkpoint.headSeq
NeverBehind(chain, checkpoint) == FALSE

\* The chain verified no further than before the anchored head.
Behind(chain, checkpoint) == chain.headSeq < checkpoint.headSeq

\* Read the latest TIMESTAMPED checkpoint, and decide what needs no further query.
ReadCheckpoint(a) ==
    /\ audit[a].pc = "chain"
    /\ \/ /\ TimestampedOf(audit[a].found.scope) = {}
          /\ AuditGoesOn(a, "done", NoCheckpoint, "NO_CHECKPOINT")
       \/ \E c \in LatestOf(TimestampedOf(audit[a].found.scope)) :
             IF ~FieldsMatch(c) \/ ~TokenValid(c)
             THEN AuditGoesOn(a, "done", c, "CHECKPOINT_UNVERIFIED")
             ELSE IF Behind(audit[a].found.chain, c)
             THEN AuditGoesOn(a, "done", c, "TRUNCATED")
             ELSE AuditGoesOn(a, "row", c, "NONE")
    /\ UNCHANGED <<tables, job, aborts, faults>>

\* Mutant: the hash at the anchored position is not compared.
AnchoredRowExists(scope, c) ==
    IF \E r \in RowsOf(auditLogs, scope) : r.seq = c.headSeq THEN "ANCHORED_OK" ELSE "TRUNCATED"

\* What the row at the anchored position says.
AnchorStatusOf(scope, c) ==
    LET at == {r \in RowsOf(auditLogs, scope) : r.seq = c.headSeq}
    IN  IF at = {} THEN "TRUNCATED"
        ELSE IF \E r \in at : r.chainHash # c.headHash THEN "DIVERGED"
        ELSE "ANCHORED_OK"

ReadAnchoredRow(a) ==
    /\ audit[a].pc = "row"
    /\ AuditGoesOn(a, "done", audit[a].checkpoint,
                   AnchorStatusOf(audit[a].found.scope, audit[a].checkpoint))
    /\ UNCHANGED <<tables, job, aborts, faults>>

\* The auditor has the answer; it may ask again.
AnswerAudit(a) ==
    /\ audit[a].pc = "done"
    /\ audit' = [audit EXCEPT ![a] = IdleAudit]
    /\ UNCHANGED <<tables, job, aborts, faults>>

-----------------------------------------------------------------------------
(***************************************************************************)
(* The owner of the database, whom the triggers of 050_audit_append_only   *)
(* .sql do not stop.  He may change any row or checkpoint, to anything he  *)
(* can compute, and change it back; he cannot make the TSA attest an older *)
(* moment, so every token is one that the jobs obtained.                   *)
(***************************************************************************)
Intervention(kind) ==
    /\ kind \in FaultKinds
    /\ faults < MaxFaults
    /\ faults' = faults + 1
    /\ UNCHANGED <<written, saves, job, audit, aborts>>
ChangesRows == UNCHANGED <<checkpoints, edited>>

DeleteNewestRow ==
    /\ Intervention("delete newest")
    /\ \E s \in Scopes : Newest(s) # {} /\ auditLogs' = auditLogs \ Newest(s)
    /\ ChangesRows

\* Row r with its event overwritten, together with the version it is hashed under, with
\* another position, or with a column taken from a row that the scope holds or held.
Known(s) == RowsOf(auditLogs \union written, s)
WithEvent(r) ==
    {[r EXCEPT !.event = to[1], !.schemaVersion = to[2]] : to \in Contents \X SchemaVersions}
WithSeq(r) == {[r EXCEPT !.seq = n] : n \in 1..MaxRows}
WithId(r) == {[r EXCEPT !.id = q.id] : q \in Known(r.scope)}
WithPrevHash(r) == {[r EXCEPT !.prevHash = q.prevHash] : q \in Known(r.scope)}
WithHashes(r) ==
    {[r EXCEPT !.eventHash = q.eventHash, !.chainHash = q.chainHash] : q \in Known(r.scope)}
Overwritten(r) ==
    WithEvent(r) \union WithSeq(r) \union WithId(r) \union WithPrevHash(r) \union WithHashes(r)

\* A row is overwritten and its hashes are left as they were.
EditRow ==
    /\ Intervention("edit row")
    /\ \E r \in auditLogs : \E q \in Overwritten(r) :
           /\ \A p \in RowsOf(auditLogs, r.scope) \ {r} : p.seq # q.seq
           /\ auditLogs' = (auditLogs \ {r}) \union {q}
    /\ ChangesRows

\* The rows from some row on are replaced by that row, overwritten, hashed and linked as
\* it should be; the application goes on appending to it.
RewriteHistory ==
    /\ Intervention("rewrite")
    /\ \E r \in auditLogs : \E q \in Overwritten(r) :
           /\ q.seq = r.seq
           /\ auditLogs' = {p \in auditLogs : p.scope # r.scope \/ p.seq < r.seq}
                             \union {Rehashed(q)}
    /\ ChangesRows

\* The rows of a scope are replaced by rows the application once wrote.
RestoreRows ==
    /\ Intervention("restore")
    /\ \E s \in Scopes : \E rows \in SUBSET RowsOf(written, s) :
           /\ UniqueSeq(rows)
           /\ auditLogs' = (auditLogs \ RowsOf(auditLogs, s)) \union rows
    /\ ChangesRows

\* Checkpoint c made to fit the head r, its hash recomputed, and passed off as
\* timestamped with the given token.
FittedTo(c, r, token) ==
    [c EXCEPT !.headSeq = r.seq, !.headHash = r.chainHash, !.status = "TIMESTAMPED",
              !.checkpointHash = ComputeCheckpointHash(c.scope, r.seq, r.chainHash),
              !.token = token]

\* A checkpoint is deleted, or made to fit a row that is or was in the log, with any
\* token there is.
EditCheckpoint ==
    /\ Intervention("edit checkpoint")
    /\ \E c \in checkpoints :
           /\ \/ checkpoints' = checkpoints \ {c}
              \/ \E r \in Known(c.scope), d \in checkpoints :
                     checkpoints' = (checkpoints \ {c}) \union {FittedTo(c, r, d.token)}
           /\ edited' = edited \union {c.scope}
    /\ UNCHANGED auditLogs

-----------------------------------------------------------------------------
JobStep(i) ==
    \/ StartRun(i)
    \/ VerifyNextScope(i)
    \/ ReadLatest(i)
    \/ TimestampRoot(i)
    \/ SaveCheckpoint(i)
    \/ EndRun(i)

AuditStep(a) ==
    \/ VerifyChain(a)
    \/ ReadCheckpoint(a)
    \/ ReadAnchoredRow(a)
    \/ AnswerAudit(a)

Next ==
    \/ \E s \in Scopes : Append(s)
    \/ \E i \in Instances : JobStep(i) \/ AbortRun(i)
    \/ \E a \in Auditors : AuditStep(a)
    \/ DeleteNewestRow
    \/ EditRow
    \/ RewriteHistory
    \/ RestoreRows
    \/ EditCheckpoint

\* The cron fires every hour and its run goes on until it ends or fails; only
\* MaxAborts runs fail (a TSA that never answers again anchors nothing).
Spec == Init /\ [][Next]_vars
FairSpec == Spec /\ \A i \in Instances : WF_vars(JobStep(i))

-----------------------------------------------------------------------------
(***************************************************************************)
(* Properties.                                                             *)
(***************************************************************************)

\* A token really attests the checkpoint's fields.
Attested(c) == FieldsMatch(c) /\ TokenValid(c)

CheckpointType(c) ==
    /\ c.scope \in Scopes
    /\ c.headSeq \in Nat \ {0}
    /\ c.status \in {"TIMESTAMPED", "SIMULATED"}
    /\ c.createdAt \in Nat

IsRow(r) == DOMAIN r = {"scope", "seq", "id", "event", "prevHash", "eventHash", "chainHash",
                        "schemaVersion", "hashAlg"}

\* Type correctness: a checkpoint is of a scope at a position from 1 on, and jobs
\* and auditors are at one of the points of their code.
TypeOK ==
    /\ \A r \in auditLogs \union written :
           IsRow(r) /\ r.scope \in Scopes /\ r.seq \in Nat \ {0}
    /\ saves \in Nat /\ \A c \in checkpoints : CheckpointType(c)
    /\ DOMAIN job = Instances /\ DOMAIN audit = Auditors
    /\ \A i \in Instances :
           /\ job[i].pc \in {"idle", "next", "latest", "timestamp", "save"}
           /\ job[i].todo \subseteq Scopes
           /\ job[i].pc \in {"latest", "timestamp", "save"} =>
                  job[i].scope \in Scopes /\ job[i].head.headSeq \in Nat \ {0}
    /\ \A a \in Auditors :
           /\ audit[a].pc \in {"idle", "chain", "row", "done"}
           /\ audit[a].pc # "idle" => audit[a].found.scope \in Scopes
    /\ aborts \in Nat /\ faults \in Nat

\* The row that the head (seq, hash) of a scope names is in the log.
InLog(scope, seq, hash) ==
    \E r \in auditLogs : r.scope = scope /\ r.seq = seq /\ r.chainHash = hash

\* As long as nobody tampers, every checkpoint names a row of the log, however long
\* after its head was read it is saved, and it is TIMESTAMPED exactly when a token
\* attests it.
CheckpointsMatchLog ==
    faults = 0 =>
        \A c \in checkpoints :
            /\ InLog(c.scope, c.headSeq, c.headHash)
            /\ c.status = "TIMESTAMPED" <=> Attested(c)

\* No false alarm: as long as nobody tampers, an audit never reports a broken
\* chain, a diverged one or an untrusted checkpoint; and it reports TRUNCATED only
\* on account of a checkpoint saved after it had read the chain.
NoFalseAlarm ==
    faults = 0 =>
        \A a \in Auditors : audit[a].pc = "done" =>
            /\ audit[a].found.chain.status # "BROKEN"
            /\ audit[a].anchorStatus \notin {"DIVERGED", "CHECKPOINT_UNVERIFIED"}
            /\ audit[a].anchorStatus = "TRUNCATED" => audit[a].checkpoint \notin audit[a].found.seen

\* The chains the application wrote: every row on top of a row it wrote.
WrittenHistories ==
    {h \in SUBSET written :
        \A w \in h : w.prevHash # NoHash =>
            \E p \in h : p.scope = w.scope /\ p.chainHash = w.prevHash}

AnchoredOk(a) == audit[a].anchorStatus = "ANCHORED_OK"

\* The owner did nothing between the first and the last query of the audit.
Undisturbed(a) == audit[a].found.faults = audit[a].ended

\* ANCHORED_OK against a checkpoint whose head the application wrote means that the rows
\* up to the anchored head are the rows the application wrote, whatever the owner did
\* before, also with recomputed hashes and to the checkpoints: provided he does nothing
\* while the audit is between its queries, which are no transaction.  Rows forged before
\* the first and put back before the last are not noticed.
AnchoredOkIsAuthentic ==
    \A a \in Auditors :
        LET c == audit[a].checkpoint
        IN  AnchoredOk(a) /\ Undisturbed(a) =>
                \A h \in WrittenHistories :
                    (\E w \in h : w.scope = c.scope /\ w.chainHash = c.headHash) =>
                        \A r \in audit[a].found.rows : r.seq <= c.headSeq =>
                            \E w \in h : AsWritten(r, w)

\* The rows the audit found hold the head that checkpoint c names.
HeadFound(a, c) ==
    \E r \in audit[a].found.rows : r.seq = c.headSeq /\ r.chainHash = c.headHash

\* The anchors there were when auditor a read the chain.
AnchorsSeen(a) == {c \in audit[a].found.seen : Attested(c)}

\* A chain reported ANCHORED_OK is not behind any anchored head there was when the
\* chain was read ("cannot be behind an anchored head", 056_audit_checkpoints.sql:4-5),
\* whatever the owner does to the log, as long as he changes no checkpoint of the scope.
NotBehindAnyAnchor ==
    \A a \in Auditors : AnchoredOk(a) /\ audit[a].found.scope \notin edited =>
        \A c \in AnchorsSeen(a) : c.headSeq <= audit[a].found.chain.headSeq

\* A chain reported ANCHORED_OK still has every head that was ever anchored: what
\* was truncated or rewritten after it was anchored does not pass as OK.
EveryAnchorKept ==
    \A a \in Auditors : AnchoredOk(a) =>
        \A c \in AnchorsSeen(a) : HeadFound(a, c)

\* TRUNCATED is reported only of a chain from which the owner deleted rows
\* (audit-checkpoint.service.ts:41).
TruncatedMeansDeleted ==
    \A a \in Auditors : audit[a].anchorStatus = "TRUNCATED" => faults > 0

\* Every row is sooner or later covered by a timestamped checkpoint at or after it,
\* so that deleting it would be noticed.
EveryRowAnchored ==
    \A s \in Scopes : \A n \in 1..MaxRows :
        (\E r \in RowsOf(auditLogs, s) : r.seq = n)
            ~> (\E c \in TimestampedOf(s) : c.headSeq >= n)
=============================================================================
