----------------------- MODULE AuditCheckpointProofs -----------------------
(***************************************************************************)
(* Theorems about AuditCheckpoint, for every set of scopes, instances and  *)
(* auditors and every bound: what the hourly jobs save and what the        *)
(* auditors report as long as nobody tampers with the database.            *)
(***************************************************************************)
EXTENDS AuditCheckpoint, FiniteSetTheorems, TLAPS

-----------------------------------------------------------------------------
(***************************************************************************)
(* The inductive invariant.                                                *)
(***************************************************************************)

\* Without tampering the log is unbroken: every position up to a row is held by a
\* linked row, and by one row only.
Unbroken(table) ==
    /\ \A r, q \in table : r.scope = q.scope /\ r.seq = q.seq => r = q
    /\ \A r \in table : \A n \in 1..r.seq : LinkedAt(RowsOf(table, r.scope), n)
    /\ \A r \in table : \E last \in RowsOf(table, r.scope) :
           \A q \in RowsOf(table, r.scope) : q.seq <= last.seq
LogUnbroken == faults = 0 => Unbroken(auditLogs)

\* A job holds the head of a row that is in the log,
HeadsInLog ==
    faults = 0 => \A i \in Instances : job[i].pc \in {"latest", "timestamp", "save"} =>
                      InLog(job[i].scope, job[i].head.headSeq, job[i].head.headHash)

\* and, when it has been to the TSA, the token for that head.
TokenOfHead ==
    \A i \in Instances : job[i].pc = "save" => job[i].token = TokenFor(i)

\* An audit has read an unbroken chain that reaches every anchor it could see then.
AuditSound(a) ==
    /\ audit[a].pc # "idle" =>
           /\ audit[a].found.chain.status # "BROKEN"
           /\ \A c \in audit[a].found.seen : ~Behind(audit[a].found.chain, c)
    /\ audit[a].pc = "row" =>
           InLog(audit[a].found.scope, audit[a].checkpoint.headSeq, audit[a].checkpoint.headHash)
    /\ audit[a].pc = "done" =>
           /\ audit[a].anchorStatus \notin {"DIVERGED", "CHECKPOINT_UNVERIFIED"}
           /\ audit[a].anchorStatus = "TRUNCATED" => audit[a].checkpoint \notin audit[a].found.seen
AuditsSound == faults = 0 => \A a \in Auditors : AuditSound(a)

AnchorInv ==
    /\ TypeOK
    /\ LogUnbroken /\ HeadsInLog /\ TokenOfHead /\ CheckpointsMatchLog /\ AuditsSound

-----------------------------------------------------------------------------
(***************************************************************************)
(* Lemmas about rows and verdicts.                                         *)
(***************************************************************************)

\* What MakeRow returns: the fields it was given, and hashes that verify.
LEMMA MakeRowFields ==
    ASSUME NEW scope, NEW seq, NEW id, NEW event, NEW prevHash
    PROVE  LET r == MakeRow(CurrentSchemaVersion, scope, seq, id, event, prevHash)
           IN  /\ r.scope = scope
               /\ r.seq = seq
               /\ r.prevHash = prevHash
               /\ SelfConsistent(r)
               /\ IsRow(r)
  <1> DEFINE r == MakeRow(CurrentSchemaVersion, scope, seq, id, event, prevHash)
  <1>1. r.scope = scope /\ r.seq = seq /\ r.prevHash = prevHash /\ SelfConsistent(r)
    BY DEF MakeRow, Rehashed, SelfConsistent, EventHashOf, CurrentSchemaVersion,
           SchemaVersions, Hashed, TextOf
  <1>2. IsRow(r)
    BY DEF MakeRow, Rehashed, IsRow
  <1> QED
    BY <1>1, <1>2

\* An overwritten row is a row of the same scope, at a position there is.
LEMMA OverwrittenRow ==
    ASSUME NEW r, IsRow(r), r.seq \in Nat \ {0}, NEW q \in Overwritten(r)
    PROVE  /\ IsRow(q) /\ q.scope = r.scope
           /\ q.seq = r.seq \/ q.seq \in 1..MaxRows
           /\ IsRow(Rehashed(q)) /\ Rehashed(q).scope = r.scope /\ Rehashed(q).seq = q.seq
  <1>1. IsRow(q) /\ q.scope = r.scope /\ (q.seq = r.seq \/ q.seq \in 1..MaxRows)
    <2>1. CASE q \in WithEvent(r)
      BY <2>1 DEF WithEvent, IsRow
    <2>2. CASE q \in WithSeq(r)
      BY <2>2 DEF WithSeq, IsRow
    <2>3. CASE q \in WithId(r)
      BY <2>3 DEF WithId, IsRow
    <2>4. CASE q \in WithPrevHash(r)
      BY <2>4 DEF WithPrevHash, IsRow
    <2>5. CASE q \in WithHashes(r)
      BY <2>5 DEF WithHashes, IsRow
    <2>. QED  BY <2>1, <2>2, <2>3, <2>4, <2>5 DEF Overwritten
  <1>2. IsRow(Rehashed(q)) /\ Rehashed(q).scope = q.scope /\ Rehashed(q).seq = q.seq
    BY <1>1 DEF IsRow, Rehashed
  <1>. QED  BY <1>1, <1>2

\* A verdict of VALID names the last row of a chain that is not empty.
LEMMA ValidVerdict ==
    ASSUME NEW rows, \A r \in rows : r.seq \in Nat \ {0}, NEW v \in Verdicts(rows)
    PROVE  /\ v.headSeq \in Nat
           /\ v.status # "BROKEN" => \A r \in rows : r.seq <= v.headSeq
           /\ v.status = "VALID" =>
                  /\ v.headSeq # 0
                  /\ \E r \in rows : r.seq = v.headSeq /\ r.chainHash = v.headHash
  <1>1. IsVerdict(rows, v.status, v.headSeq, v.headHash)
    BY DEF Verdicts
  <1>2. v.headSeq \in {0} \union {r.seq : r \in rows}
    BY DEF Verdicts
  <1>3. v.headSeq \in Nat
    BY <1>2
  <1>4. v.status # "BROKEN" => \A r \in rows : r.seq <= v.headSeq
    BY <1>1 DEF IsVerdict
  <1>5. v.status = "VALID" => v.headSeq # 0
    BY <1>1, <1>4 DEF IsVerdict
  <1>6. v.status = "VALID" => \E r \in rows : r.seq = v.headSeq /\ r.chainHash = v.headHash
    BY <1>1, <1>5 DEF IsVerdict, IsHashAt
  <1> QED
    BY <1>3, <1>4, <1>5, <1>6

\* The verdict on an unbroken chain is not BROKEN.
LEMMA UnbrokenVerdict ==
    ASSUME NEW rows, \A r \in rows : r.seq \in Nat \ {0},
           \A r \in rows : \A n \in 1..r.seq : LinkedAt(rows, n),
           NEW v \in Verdicts(rows)
    PROVE  v.status # "BROKEN"
  <1>1. IsVerdict(rows, v.status, v.headSeq, v.headHash) /\ v.headSeq \in Nat
    BY ValidVerdict DEF Verdicts
  <1>2. ~LinkedAt(rows, v.headSeq + 1)
    BY <1>1 DEF IsVerdict, IsVerifiedHead
  <1>3. ASSUME NEW r \in rows PROVE r.seq <= v.headSeq
    <2>1. v.headSeq + 1 \notin 1..r.seq
      BY <1>2
    <2> QED
      BY <1>1, <2>1
  <1> QED
    BY <1>1, <1>3 DEF IsVerdict

\* A linked position stays linked when rows are added.
LEMMA LinkedAtGrows ==
    ASSUME NEW rows, NEW more, rows \subseteq more, NEW n, LinkedAt(rows, n)
    PROVE  LinkedAt(more, n)
  BY DEF LinkedAt

-----------------------------------------------------------------------------
(***************************************************************************)
(* Type correctness.                                                       *)
(***************************************************************************)
\* Type correctness holds initially ...
LEMMA TypeInit == Init => TypeOK
  BY DEF Init, TypeOK, IdleJob, IdleAudit, JobAt, AuditAt, NothingFound

\* ... and every step of a job,
LEMMA TypeJobStep ==
    ASSUME TypeOK, NEW i \in Instances, JobStep(i) \/ AbortRun(i)
    PROVE  TypeOK'
  <1> USE DEF TypeOK, CheckpointType, tables
  <1>1. CASE StartRun(i)
    BY <1>1 DEF StartRun, BetweenScopes, JobAt
  <1>2. CASE VerifyNextScope(i)
    <2>0. PICK s \in job[i].todo : \E v \in Verdicts(RowsOf(auditLogs, s)) :
              job' = [job EXCEPT ![i] = IF Anchorable(v)
                                        THEN JobAt("latest", job[i].todo \ {s}, s, v, NoToken)
                                        ELSE BetweenScopes(job[i].todo \ {s})]
      BY <1>2 DEF VerifyNextScope
    <2>1. PICK v \in Verdicts(RowsOf(auditLogs, s)) :
              job' = [job EXCEPT ![i] = IF Anchorable(v)
                                        THEN JobAt("latest", job[i].todo \ {s}, s, v, NoToken)
                                        ELSE BetweenScopes(job[i].todo \ {s})]
      BY <2>0
    <2>2. \A r \in RowsOf(auditLogs, s) : r.seq \in Nat \ {0}
      BY DEF RowsOf
    <2>3. Anchorable(v) => v.headSeq \in Nat \ {0}
      BY <2>2, ValidVerdict DEF Anchorable
    <2> QED
      BY <1>2, <2>1, <2>3 DEF VerifyNextScope, BetweenScopes, JobAt
  <1>3. CASE ReadLatest(i)
    BY <1>3 DEF ReadLatest, BetweenScopes, JobAt
  <1>4. CASE TimestampRoot(i)
    BY <1>4 DEF TimestampRoot, JobAt
  <1>5. CASE SaveCheckpoint(i)
    <2>1. CheckpointType(CheckpointOf(i))
      BY <1>5 DEF SaveCheckpoint, CheckpointOf
    <2> QED
      BY <1>5, <2>1 DEF SaveCheckpoint, BetweenScopes, JobAt
  <1>6. CASE EndRun(i)
    BY <1>6 DEF EndRun, IdleJob, JobAt
  <1>7. CASE AbortRun(i)
    BY <1>7 DEF AbortRun, IdleJob, JobAt
  <1> QED
    BY <1>1, <1>2, <1>3, <1>4, <1>5, <1>6, <1>7 DEF JobStep

\* of an audit,
LEMMA TypeAuditStep ==
    ASSUME TypeOK, NEW a \in Auditors, AuditStep(a)
    PROVE  TypeOK'
  <1> USE DEF TypeOK, CheckpointType, tables
  <1>1. CASE VerifyChain(a)
    BY <1>1 DEF VerifyChain, AuditAt, FoundNow
  <1>2. CASE ReadCheckpoint(a)
    BY <1>2 DEF ReadCheckpoint, AuditGoesOn, AuditAt
  <1>3. CASE ReadAnchoredRow(a)
    BY <1>3 DEF ReadAnchoredRow, AuditGoesOn, AuditAt
  <1>4. CASE AnswerAudit(a)
    BY <1>4 DEF AnswerAudit, IdleAudit, AuditAt
  <1> QED
    BY <1>1, <1>2, <1>3, <1>4 DEF AuditStep

GoodRow(r) == IsRow(r) /\ r.scope \in Scopes /\ r.seq \in Nat \ {0}

\* of the application,
LEMMA TypeAppend ==
    ASSUME TypeOK, NEW s \in Scopes, Append(s)
    PROVE  TypeOK'
  <1> DEFINE Row(seq, prevHash) ==
                 MakeRow(CurrentSchemaVersion, s, seq,
                         <<Cardinality(RowsOf(written, s)) + 1>>, "event", prevHash)
  <1>1. PICK seq, prevHash : /\ seq \in Nat \ {0}
                             /\ auditLogs' = auditLogs \union {Row(seq, prevHash)}
                             /\ written' = written \union {Row(seq, prevHash)}
    <2>1. CASE Newest(s) = {}
      BY <2>1 DEF Append
    <2>2. CASE Newest(s) # {}
      <3>1. PICK last \in Newest(s) :
                /\ auditLogs' = auditLogs \union {Row(last.seq + 1, last.chainHash)}
                /\ written' = written \union {Row(last.seq + 1, last.chainHash)}
        BY <2>2 DEF Append
      <3>2. last.seq + 1 \in Nat \ {0}
        BY DEF Newest, RowsOf, TypeOK
      <3> QED
        BY <3>1, <3>2
    <2> QED
      BY <2>1, <2>2
  <1> HIDE DEF Row
  <1>2. Row(seq, prevHash).scope = s /\ Row(seq, prevHash).seq = seq /\ IsRow(Row(seq, prevHash))
    BY MakeRowFields DEF Row
  <1> QED
    BY <1>1, <1>2 DEF Append, TypeOK, CheckpointType

\* and of the owner keeps it.
LEMMA TypeIntervention ==
    ASSUME TypeOK, DeleteNewestRow \/ EditRow \/ RewriteHistory \/ RestoreRows \/ EditCheckpoint
    PROVE  TypeOK'
  <1>1. UNCHANGED <<job, audit, aborts, saves, written>> /\ faults' \in Nat
    <2>1. faults \in Nat
      BY DEF TypeOK
    <2>2. \E kind : Intervention(kind)
      BY DEF DeleteNewestRow, EditRow, RewriteHistory, RestoreRows, EditCheckpoint
    <2> QED
      BY <2>1, <2>2 DEF Intervention
  <1>2. SUFFICES /\ \A r \in auditLogs' : GoodRow(r)
                 /\ \A c \in checkpoints' : CheckpointType(c)
    BY <1>1 DEF TypeOK, CheckpointType, GoodRow
  <1>3. /\ \A r \in auditLogs \union written : GoodRow(r)
        /\ \A c \in checkpoints : CheckpointType(c)
    BY DEF TypeOK, GoodRow
  <1>4. CASE DeleteNewestRow
    BY <1>3, <1>4 DEF DeleteNewestRow, ChangesRows
  <1>5. ASSUME NEW r \in auditLogs, NEW q \in Overwritten(r)
        PROVE  GoodRow(q) /\ (q.seq = r.seq => GoodRow(Rehashed(q)))
    BY <1>3, BoundsAssumption, OverwrittenRow DEF GoodRow
  <1>6. CASE EditRow
    BY <1>3, <1>5, <1>6 DEF EditRow, ChangesRows
  <1>7. CASE RewriteHistory
    BY <1>3, <1>5, <1>7 DEF RewriteHistory, ChangesRows
  <1>8. CASE RestoreRows
    BY <1>3, <1>8 DEF RestoreRows, ChangesRows, RowsOf
  <1>9. CASE EditCheckpoint
    <2>1. PICK c \in checkpoints :
              \/ checkpoints' = checkpoints \ {c}
              \/ \E r \in Known(c.scope), d \in checkpoints :
                     checkpoints' = (checkpoints \ {c}) \union {FittedTo(c, r, d.token)}
      BY <1>9 DEF EditCheckpoint
    <2>2. ASSUME NEW r \in auditLogs \union written, NEW token
          PROVE  CheckpointType(FittedTo(c, r, token))
      BY <1>3 DEF FittedTo, CheckpointType, GoodRow
    <2> QED
      BY <1>3, <1>9, <2>1, <2>2 DEF EditCheckpoint, Known, RowsOf
  <1> QED
    BY <1>4, <1>6, <1>7, <1>8, <1>9

LEMMA TypeStep == TypeOK /\ [Next]_vars => TypeOK'
  <1> SUFFICES ASSUME TypeOK, [Next]_vars PROVE TypeOK'
    OBVIOUS
  <1>1. CASE UNCHANGED vars
    BY <1>1 DEF vars, tables, TypeOK, CheckpointType
  <1> QED
    BY <1>1, TypeJobStep, TypeAuditStep, TypeAppend, TypeIntervention DEF Next

\* Type correctness of every reachable state: what the jobs save is a checkpoint of a
\* scope at a position from 1 on, even while the owner changes the tables.
THEOREM TypeCorrect == Spec => []TypeOK
  BY TypeInit, TypeStep, PTL DEF Spec

-----------------------------------------------------------------------------
(***************************************************************************)
(* Checkpoints match the log, and audits raise no false alarm.             *)
(***************************************************************************)

\* The verdict on an unbroken log is that its last row is verified.
LEMMA SoundVerdict ==
    ASSUME TypeOK, Unbroken(auditLogs), NEW s, NEW v \in Verdicts(RowsOf(auditLogs, s))
    PROVE  /\ v.status # "BROKEN"
           /\ v.headSeq \in Nat
           /\ \A r \in auditLogs : r.scope = s => r.seq <= v.headSeq
           /\ v.status = "VALID" => InLog(s, v.headSeq, v.headHash)
  <1> DEFINE rows == RowsOf(auditLogs, s)
  <1>1. \A r \in rows : r.seq \in Nat \ {0}
    BY DEF TypeOK, RowsOf
  <1>2. \A r \in rows : \A n \in 1..r.seq : LinkedAt(rows, n)
    BY DEF Unbroken, RowsOf
  <1> HIDE DEF rows
  <1>3. v \in Verdicts(rows)
    BY DEF rows
  <1>4. v.status # "BROKEN"
    BY <1>1, <1>2, <1>3, UnbrokenVerdict
  <1>5. /\ v.headSeq \in Nat
        /\ \A r \in rows : r.seq <= v.headSeq
        /\ v.status = "VALID" => \E r \in rows : r.seq = v.headSeq /\ r.chainHash = v.headHash
    BY <1>1, <1>3, <1>4, ValidVerdict
  <1> QED
    BY <1>4, <1>5 DEF rows, RowsOf, InLog

\* An append leaves the log unbroken.
LEMMA AppendUnbroken ==
    ASSUME TypeOK, Unbroken(auditLogs), NEW s \in Scopes, Append(s)
    PROVE  auditLogs \subseteq auditLogs' /\ Unbroken(auditLogs')
  <1> DEFINE Row(seq, prevHash) ==
                 MakeRow(CurrentSchemaVersion, s, seq,
                         <<Cardinality(RowsOf(written, s)) + 1>>, "event", prevHash)
  <1>0. \A r \in auditLogs : r.seq \in Nat \ {0}
    BY DEF TypeOK
  <1>1. PICK row :
            /\ auditLogs' = auditLogs \union {row}
            /\ row.scope = s /\ SelfConsistent(row) /\ row.seq \in Nat \ {0}
            /\ \A q \in RowsOf(auditLogs, s) : q.seq < row.seq
            /\ \A n \in 1..(row.seq - 1) : LinkedAt(RowsOf(auditLogs, s), n)
            /\ IF row.seq = 1 THEN row.prevHash = NoHash
               ELSE \E p \in RowsOf(auditLogs, s) : p.seq = row.seq - 1
                                                    /\ row.prevHash = p.chainHash
    <2>1. CASE Newest(s) = {}
      <3>1. auditLogs' = auditLogs \union {Row(1, NoHash)}
        BY <2>1 DEF Append
      <3>2. RowsOf(auditLogs, s) = {}
        BY <2>1 DEF Newest, Unbroken, RowsOf
      <3> HIDE DEF Row
      <3>3. /\ Row(1, NoHash).scope = s /\ Row(1, NoHash).seq = 1
            /\ Row(1, NoHash).prevHash = NoHash /\ SelfConsistent(Row(1, NoHash))
        BY MakeRowFields DEF Row
      <3> QED
        BY <3>1, <3>2, <3>3
    <2>2. CASE Newest(s) # {}
      <3>1. PICK last \in Newest(s) :
                auditLogs' = auditLogs \union {Row(last.seq + 1, last.chainHash)}
        BY <2>2 DEF Append
      <3> HIDE DEF Row
      <3>2. /\ Row(last.seq + 1, last.chainHash).scope = s
            /\ Row(last.seq + 1, last.chainHash).seq = last.seq + 1
            /\ Row(last.seq + 1, last.chainHash).prevHash = last.chainHash
            /\ SelfConsistent(Row(last.seq + 1, last.chainHash))
        BY MakeRowFields DEF Row
      <3>3. /\ last \in RowsOf(auditLogs, s) /\ last.seq \in Nat \ {0}
            /\ \A q \in RowsOf(auditLogs, s) : q.seq <= last.seq /\ q.seq \in Nat
            /\ \A n \in 1..last.seq : LinkedAt(RowsOf(auditLogs, s), n)
        BY <1>0 DEF Newest, RowsOf, Unbroken
      <3> QED
        BY <3>1, <3>2, <3>3
    <2> QED
      BY <2>1, <2>2
  <1>2. /\ RowsOf(auditLogs', s) = RowsOf(auditLogs, s) \union {row}
        /\ \A t : t # s => RowsOf(auditLogs', t) = RowsOf(auditLogs, t)
    BY <1>1 DEF RowsOf
  <1>3. \A n \in 1..row.seq : LinkedAt(RowsOf(auditLogs', s), n)
    <2> SUFFICES ASSUME NEW n \in 1..row.seq PROVE LinkedAt(RowsOf(auditLogs', s), n)
      OBVIOUS
    <2>1. CASE n = row.seq
      BY <1>1, <1>2, <2>1 DEF LinkedAt
    <2>2. CASE n # row.seq
      <3>1. n \in 1..(row.seq - 1)
        BY <1>1, <2>2
      <3>2. LinkedAt(RowsOf(auditLogs, s), n)
        BY <1>1, <3>1
      <3> QED
        BY <1>2, <3>2, LinkedAtGrows
    <2> QED
      BY <2>1, <2>2
  <1>4. ASSUME NEW r \in auditLogs', NEW q \in auditLogs', r.scope = q.scope, r.seq = q.seq
        PROVE  r = q
    BY <1>0, <1>1, <1>4 DEF Unbroken, RowsOf
  <1>5. ASSUME NEW r \in auditLogs', NEW n \in 1..r.seq
        PROVE  LinkedAt(RowsOf(auditLogs', r.scope), n)
    <2>1. CASE r = row
      BY <1>1, <1>3, <2>1
    <2>2. CASE r # row
      <3>1. LinkedAt(RowsOf(auditLogs, r.scope), n)
        BY <1>1, <2>2 DEF Unbroken
      <3> QED
        BY <1>2, <3>1, LinkedAtGrows
    <2> QED
      BY <2>1, <2>2
  <1>6. ASSUME NEW r \in auditLogs'
        PROVE  \E last \in RowsOf(auditLogs', r.scope) :
                   \A q \in RowsOf(auditLogs', r.scope) : q.seq <= last.seq
    <2>1. CASE r.scope = s
      BY <1>0, <1>1, <1>2, <2>1 DEF RowsOf
    <2>2. CASE r.scope # s
      BY <1>1, <1>2, <2>2 DEF Unbroken
    <2> QED
      BY <2>1, <2>2
  <1> QED
    BY <1>1, <1>4, <1>5, <1>6 DEF Unbroken

\* Nothing else changes the log while nobody tampers.
LEMMA LogStep ==
    AnchorInv /\ [Next]_vars =>
        /\ LogUnbroken'
        /\ faults' = 0 => faults = 0 /\ auditLogs \subseteq auditLogs'
  <1> SUFFICES ASSUME AnchorInv, [Next]_vars
               PROVE  /\ LogUnbroken'
                      /\ faults' = 0 => faults = 0 /\ auditLogs \subseteq auditLogs'
    OBVIOUS
  <1>1. ASSUME NEW s \in Scopes, Append(s), faults = 0
        PROVE  auditLogs \subseteq auditLogs' /\ Unbroken(auditLogs')
    BY <1>1, AppendUnbroken DEF AnchorInv, LogUnbroken
  <1>2. \/ \E s \in Scopes : Append(s)
        \/ UNCHANGED <<auditLogs, faults>>
        \/ \E kind : Intervention(kind)
    BY DEF Next, JobStep, StartRun, VerifyNextScope, ReadLatest, TimestampRoot,
           SaveCheckpoint, EndRun, AbortRun, AuditStep, VerifyChain, ReadCheckpoint,
           ReadAnchoredRow, AnswerAudit, DeleteNewestRow, EditRow, RewriteHistory,
           RestoreRows, EditCheckpoint, vars, tables
  <1>3. CASE \E s \in Scopes : Append(s)
    BY <1>1, <1>3 DEF Append, LogUnbroken
  <1>4. CASE UNCHANGED <<auditLogs, faults>>
    BY <1>4 DEF AnchorInv, LogUnbroken
  <1>5. CASE \E kind : Intervention(kind)
    <2>1. faults \in Nat
      BY DEF AnchorInv, TypeOK
    <2> QED
      BY <1>5, <2>1 DEF Intervention, LogUnbroken
  <1> QED
    BY <1>2, <1>3, <1>4, <1>5

\* The jobs: heads are in the log, tokens are for them, and so are the checkpoints.
LEMMA JobInvStep ==
    AnchorInv /\ [Next]_vars => HeadsInLog' /\ TokenOfHead' /\ CheckpointsMatchLog'
  <1> SUFFICES ASSUME AnchorInv, [Next]_vars
               PROVE  HeadsInLog' /\ TokenOfHead' /\ CheckpointsMatchLog'
    OBVIOUS
  <1> USE DEF AnchorInv
  <1>1. faults' = 0 => faults = 0 /\ auditLogs \subseteq auditLogs'
    BY LogStep
  <1>2. ASSUME NEW scope, NEW seq, NEW hash, InLog(scope, seq, hash), faults' = 0
        PROVE  InLog(scope, seq, hash)'
    BY <1>1, <1>2 DEF InLog
  <1>3. DOMAIN job = Instances
    BY DEF TypeOK
  <1>4. CASE UNCHANGED <<job, checkpoints>>
    <2>1. HeadsInLog'
      BY <1>1, <1>2, <1>4 DEF HeadsInLog
    <2>2. TokenOfHead'
      BY <1>4 DEF TokenOfHead, TokenFor
    <2>3. CheckpointsMatchLog'
      BY <1>1, <1>2, <1>4 DEF CheckpointsMatchLog
    <2> QED
      BY <2>1, <2>2, <2>3
  <1>5. ASSUME NEW i \in Instances, JobStep(i) \/ AbortRun(i)
        PROVE  HeadsInLog' /\ TokenOfHead' /\ CheckpointsMatchLog'
    <2>0. UNCHANGED <<auditLogs, faults>>
      BY <1>5 DEF JobStep, StartRun, VerifyNextScope, ReadLatest, TimestampRoot,
                  SaveCheckpoint, EndRun, AbortRun, tables
    <2>1. CASE StartRun(i) \/ EndRun(i) \/ AbortRun(i)
      BY <1>3, <2>0, <2>1 DEF StartRun, EndRun, AbortRun, BetweenScopes, IdleJob, JobAt,
                              HeadsInLog, TokenOfHead, TokenFor, CheckpointsMatchLog, InLog, tables
    <2>2. CASE VerifyNextScope(i)
      <3>1. PICK s \in job[i].todo : \E v \in Verdicts(RowsOf(auditLogs, s)) :
                job' = [job EXCEPT ![i] = IF Anchorable(v)
                                          THEN JobAt("latest", job[i].todo \ {s}, s, v, NoToken)
                                          ELSE BetweenScopes(job[i].todo \ {s})]
        BY <2>2 DEF VerifyNextScope
      <3>2. PICK v \in Verdicts(RowsOf(auditLogs, s)) :
                job' = [job EXCEPT ![i] = IF Anchorable(v)
                                          THEN JobAt("latest", job[i].todo \ {s}, s, v, NoToken)
                                          ELSE BetweenScopes(job[i].todo \ {s})]
        BY <3>1
      <3>3. faults = 0 /\ Anchorable(v) => InLog(s, v.headSeq, v.headHash)
        BY SoundVerdict DEF LogUnbroken, Anchorable
      <3> QED
        BY <1>3, <2>0, <2>2, <3>2, <3>3
        DEF VerifyNextScope, BetweenScopes, JobAt, HeadsInLog, TokenOfHead, TokenFor,
            CheckpointsMatchLog, InLog, tables
    <2>3. CASE ReadLatest(i)
      BY <1>3, <2>0, <2>3 DEF ReadLatest, BetweenScopes, JobAt, HeadsInLog, TokenOfHead,
                              TokenFor, CheckpointsMatchLog, InLog, tables
    <2>4. CASE TimestampRoot(i)
      BY <1>3, <2>0, <2>4 DEF TimestampRoot, JobAt, HeadsInLog, TokenOfHead, TokenFor,
                              CheckpointsMatchLog, InLog, tables
    <2>5. CASE SaveCheckpoint(i)
      <3>1. HeadsInLog' /\ TokenOfHead'
        BY <1>3, <2>0, <2>5 DEF SaveCheckpoint, BetweenScopes, JobAt, HeadsInLog,
                                TokenOfHead, TokenFor, InLog
      <3>2. ASSUME faults = 0
            PROVE  /\ InLog(CheckpointOf(i).scope, CheckpointOf(i).headSeq,
                            CheckpointOf(i).headHash)
                   /\ CheckpointOf(i).status = "TIMESTAMPED" <=> Attested(CheckpointOf(i))
        <4>1. InLog(CheckpointOf(i).scope, CheckpointOf(i).headSeq, CheckpointOf(i).headHash)
          BY <2>5, <3>2 DEF SaveCheckpoint, CheckpointOf, HeadsInLog
        <4>2. job[i].token = TokenFor(i)
          BY <2>5 DEF SaveCheckpoint, TokenOfHead
        <4>3. CheckpointOf(i).status = "TIMESTAMPED" <=> Attested(CheckpointOf(i))
          BY <4>2 DEF CheckpointOf, TokenFor, Attested, FieldsMatch, TokenValid, NoToken,
                      ComputeCheckpointHash
        <4> QED
          BY <4>1, <4>3
      <3>3. CheckpointsMatchLog'
        BY <2>0, <2>5, <3>2 DEF SaveCheckpoint, CheckpointsMatchLog, InLog, tables
      <3> QED
        BY <3>1, <3>3
    <2> QED
      BY <1>5, <2>1, <2>2, <2>3, <2>4, <2>5 DEF JobStep
  <1>6. ASSUME NEW kind, Intervention(kind)
        PROVE  HeadsInLog' /\ TokenOfHead' /\ CheckpointsMatchLog'
    <2>1. faults \in Nat
      BY DEF TypeOK
    <2>2. faults' # 0 /\ job' = job
      BY <1>6, <2>1 DEF Intervention
    <2> QED
      BY <2>2 DEF HeadsInLog, TokenOfHead, TokenFor, CheckpointsMatchLog
  <1>7. \/ UNCHANGED <<job, checkpoints>>
        \/ \E i \in Instances : JobStep(i) \/ AbortRun(i)
        \/ \E kind : Intervention(kind)
    BY DEF Next, Append, AuditStep, VerifyChain, ReadCheckpoint, ReadAnchoredRow,
           AnswerAudit, DeleteNewestRow, EditRow, RewriteHistory, RestoreRows, EditCheckpoint, vars, tables
  <1> QED
    BY <1>4, <1>5, <1>6, <1>7

\* The audits: none is about to report anything false.
LEMMA AuditInvStep == AnchorInv /\ [Next]_vars => AuditsSound'
  <1> SUFFICES ASSUME AnchorInv, [Next]_vars, faults' = 0, NEW b \in Auditors
               PROVE  AuditSound(b)'
    BY DEF AuditsSound
  <1> USE DEF AnchorInv
  <1>1. /\ faults = 0 /\ auditLogs \subseteq auditLogs'
        /\ Unbroken(auditLogs) /\ AuditSound(b)
    BY LogStep DEF LogUnbroken, AuditsSound
  <1>2. DOMAIN audit = Auditors
    BY DEF TypeOK
  <1>3. \A c \in checkpoints : /\ InLog(c.scope, c.headSeq, c.headHash)
                               /\ c.status = "TIMESTAMPED" => Attested(c)
                               /\ c.headSeq \in Nat
    BY <1>1 DEF CheckpointsMatchLog, TypeOK, CheckpointType
  <1>4. CASE audit'[b] = audit[b]
    BY <1>1, <1>4 DEF AuditSound, InLog, Behind
  <1>5. CASE VerifyChain(b)
    <2>1. PICK s \in Scopes : \E v \in Verdicts(RowsOf(auditLogs, s)) :
              audit' = [audit EXCEPT ![b] = AuditAt("chain", FoundNow(s, v), NoCheckpoint, "NONE", faults)]
      BY <1>5 DEF VerifyChain
    <2>2. PICK v \in Verdicts(RowsOf(auditLogs, s)) :
              audit' = [audit EXCEPT ![b] = AuditAt("chain", FoundNow(s, v), NoCheckpoint, "NONE", faults)]
      BY <2>1
    <2>3. /\ v.status # "BROKEN" /\ v.headSeq \in Nat
          /\ \A r \in auditLogs : r.scope = s => r.seq <= v.headSeq
      BY <1>1, SoundVerdict
    <2>4. \A c \in TimestampedOf(s) : ~Behind(v, c)
      BY <1>3, <2>3 DEF TimestampedOf, CheckpointsOf, InLog, Behind
    <2> QED
      BY <1>2, <2>2, <2>3, <2>4 DEF AuditSound, AuditAt, FoundNow, Behind
  <1>6. CASE ReadCheckpoint(b)
    <2>0. /\ audit[b].pc = "chain" /\ audit[b].found.chain.status # "BROKEN"
          /\ \A c \in audit[b].found.seen : ~Behind(audit[b].found.chain, c)
      BY <1>1, <1>6 DEF ReadCheckpoint, AuditSound
    <2>1. CASE AuditGoesOn(b, "done", NoCheckpoint, "NO_CHECKPOINT")
      BY <1>2, <2>0, <2>1 DEF AuditGoesOn, AuditAt, AuditSound, Behind
    <2>2. CASE \E c \in LatestOf(TimestampedOf(audit[b].found.scope)) :
                   IF ~FieldsMatch(c) \/ ~TokenValid(c)
                   THEN AuditGoesOn(b, "done", c, "CHECKPOINT_UNVERIFIED")
                   ELSE IF Behind(audit[b].found.chain, c)
                   THEN AuditGoesOn(b, "done", c, "TRUNCATED")
                   ELSE AuditGoesOn(b, "row", c, "NONE")
      <3>1. PICK c \in LatestOf(TimestampedOf(audit[b].found.scope)) :
                   IF ~FieldsMatch(c) \/ ~TokenValid(c)
                   THEN AuditGoesOn(b, "done", c, "CHECKPOINT_UNVERIFIED")
                   ELSE IF Behind(audit[b].found.chain, c)
                   THEN AuditGoesOn(b, "done", c, "TRUNCATED")
                   ELSE AuditGoesOn(b, "row", c, "NONE")
        BY <2>2
      <3>2. /\ c.scope = audit[b].found.scope /\ FieldsMatch(c) /\ TokenValid(c)
            /\ InLog(c.scope, c.headSeq, c.headHash)
        BY <1>3 DEF LatestOf, TimestampedOf, CheckpointsOf, Attested
      <3>3. CASE Behind(audit[b].found.chain, c)
        <4>1. AuditGoesOn(b, "done", c, "TRUNCATED") /\ c \notin audit[b].found.seen
          BY <2>0, <3>1, <3>2, <3>3
        <4> QED
          BY <1>2, <2>0, <4>1 DEF AuditGoesOn, AuditAt, AuditSound, Behind
      <3>4. CASE ~Behind(audit[b].found.chain, c)
        <4>1. AuditGoesOn(b, "row", c, "NONE")
          BY <3>1, <3>2, <3>4
        <4>2. InLog(audit[b].found.scope, c.headSeq, c.headHash)'
          BY <1>1, <1>2, <3>2, <4>1 DEF AuditGoesOn, AuditAt, InLog
        <4> QED
          BY <1>2, <2>0, <4>1, <4>2 DEF AuditGoesOn, AuditAt, AuditSound, Behind
      <3> QED
        BY <3>3, <3>4
    <2> QED
      BY <1>6, <2>1, <2>2 DEF ReadCheckpoint
  <1>7. CASE ReadAnchoredRow(b)
    <2> DEFINE c == audit[b].checkpoint
    <2>1. /\ audit[b].found.chain.status # "BROKEN"
          /\ \A d \in audit[b].found.seen : ~Behind(audit[b].found.chain, d)
          /\ InLog(audit[b].found.scope, c.headSeq, c.headHash)
      BY <1>1, <1>7 DEF ReadAnchoredRow, AuditSound
    <2>2. AnchorStatusOf(audit[b].found.scope, c) = "ANCHORED_OK"
      BY <1>1, <2>1 DEF AnchorStatusOf, InLog, RowsOf, Unbroken
    <2>3. AuditGoesOn(b, "done", c, "ANCHORED_OK")
      BY <1>7, <2>2 DEF ReadAnchoredRow
    <2> QED
      BY <1>2, <2>1, <2>3 DEF AuditGoesOn, AuditAt, AuditSound, Behind
  <1>8. CASE AnswerAudit(b)
    BY <1>2, <1>8 DEF AnswerAudit, IdleAudit, AuditAt, AuditSound
  <1>9. \/ audit'[b] = audit[b]
        \/ AuditStep(b)
    <2>1. ASSUME NEW a \in Auditors, AuditStep(a), a # b PROVE audit'[b] = audit[b]
      BY <1>2, <2>1 DEF AuditStep, VerifyChain, ReadCheckpoint, ReadAnchoredRow, AnswerAudit,
                        AuditGoesOn
    <2>2. \/ UNCHANGED audit
          \/ \E a \in Auditors : AuditStep(a)
      BY DEF Next, Append, JobStep, StartRun, VerifyNextScope, ReadLatest, TimestampRoot,
             SaveCheckpoint, EndRun, AbortRun, DeleteNewestRow, EditRow, RewriteHistory,
             RestoreRows, EditCheckpoint, Intervention, vars, tables
    <2> QED
      BY <2>1, <2>2
  <1> QED
    BY <1>4, <1>5, <1>6, <1>7, <1>8, <1>9 DEF AuditStep

LEMMA AnchorInit == Init => AnchorInv
  <1> SUFFICES ASSUME Init PROVE AnchorInv
    OBVIOUS
  <1>1. TypeOK
    BY TypeInit
  <1>2. LogUnbroken /\ CheckpointsMatchLog
    BY DEF Init, LogUnbroken, Unbroken, CheckpointsMatchLog
  <1>3. HeadsInLog /\ TokenOfHead /\ AuditsSound
    BY DEF Init, HeadsInLog, TokenOfHead, AuditsSound, AuditSound, IdleJob, IdleAudit, JobAt,
           AuditAt
  <1> QED
    BY <1>1, <1>2, <1>3 DEF AnchorInv

\* The inductive invariant of jobs and auditors.
THEOREM AnchorInvariant == Spec => []AnchorInv
  <1>1. AnchorInv /\ [Next]_vars => AnchorInv'
    BY TypeStep, LogStep, JobInvStep, AuditInvStep DEF AnchorInv
  <1> QED
    BY <1>1, AnchorInit, PTL DEF Spec

\* While nobody tampers, every checkpoint names a row of the log and a token attests it
\* exactly when it is TIMESTAMPED: the steps of createCheckpoint may be as far apart as
\* they like, and any number of instances may run them at once.
THEOREM CheckpointsAlwaysMatch == Spec => []CheckpointsMatchLog
  BY AnchorInvariant, PTL DEF AnchorInv

\* While nobody tampers, no audit reports BROKEN, DIVERGED or CHECKPOINT_UNVERIFIED, and
\* one that reports TRUNCATED does so for a checkpoint newer than the chain it read.
THEOREM NoAuditAlarms == Spec => []NoFalseAlarm
  <1>1. AnchorInv => NoFalseAlarm
    BY DEF AnchorInv, AuditsSound, AuditSound, NoFalseAlarm
  <1> QED
    BY <1>1, AnchorInvariant, PTL
=============================================================================
