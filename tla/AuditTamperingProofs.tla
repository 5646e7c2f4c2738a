------------------------ MODULE AuditTamperingProofs ------------------------
(***************************************************************************)
(* Theorems about AuditCheckpoint for every set of scopes, instances and   *)
(* auditors, every bound and every intervention of the database owner:     *)
(* what ANCHORED_OK means when the log and the checkpoints may have been   *)
(* tampered with.                                                          *)
(*                                                                         *)
(* While the owner does nothing the log only grows, so the row an audit    *)
(* reads last is one of those it verified first; from there down, every    *)
(* row is the one whose hash the row above it contains.                    *)
(***************************************************************************)
EXTENDS AuditCheckpointProofs, WellFoundedInduction

-----------------------------------------------------------------------------
(***************************************************************************)
(* Least and greatest numbers, from the well-foundedness of < on Nat.      *)
(***************************************************************************)
LEMMA LeastNumber ==
    ASSUME NEW T, T \subseteq Nat, T # {}
    PROVE  \E n \in T : \A m \in T : n <= m
  <1>1. IsWellFoundedOn(OpToRel(<, Nat), Nat)
    BY NatLessThanWellFounded
  <1>2. PICK n \in T : \A m \in T : ~(<<m, n>> \in OpToRel(<, Nat))
    BY <1>1, WFMin
  <1>3. \A m \in T : ~(m < n)
    BY <1>2 DEF OpToRel
  <1>. QED  BY <1>3

LEMMA GreatestNumber ==
    ASSUME NEW T, T \subseteq Nat, T # {}, NEW bound \in Nat, \A n \in T : n <= bound
    PROVE  \E n \in T : \A m \in T : m <= n
  <1>. DEFINE Below == {d \in 0..bound : bound - d \in T}
  <1>1. PICK t \in T : TRUE
    OBVIOUS
  <1>2. bound - (bound - t) = t /\ bound - t \in 0..bound
    <2>1. t \in Nat /\ t <= bound
      BY <1>1
    <2>. QED  BY <2>1
  <1>3. Below \subseteq Nat /\ Below # {}
    <2>1. bound - t \in Below
      <3>1. bound - (bound - t) \in T
        BY <1>2
      <3>. QED  BY <1>2, <3>1
    <2>2. \A d \in Below : d \in Nat
      OBVIOUS
    <2>. HIDE DEF Below
    <2>. QED  BY <2>1, <2>2
  <1>4. PICK d \in Below : \A e \in Below : d <= e
    BY <1>3, LeastNumber
  <1>5. ASSUME NEW m \in T PROVE m <= bound - d
    <2>1. m \in Nat /\ m <= bound /\ bound - (bound - m) = m /\ bound - m \in 0..bound
      OBVIOUS
    <2>2. d <= bound - m
      BY <1>4, <2>1
    <2>. QED  BY <1>4, <2>1, <2>2
  <1>. QED  BY <1>4, <1>5

-----------------------------------------------------------------------------
(***************************************************************************)
(* The inductive invariant of authenticity.                                *)
(***************************************************************************)
OnePerPosition(table) == \A r, q \in table : r.scope = q.scope /\ r.seq = q.seq => r = q

\* Positions are bounded, so that every scope with rows has a newest one.
BoundedBy(bound) == bound \in Nat /\ \A r \in auditLogs \union written : r.seq <= bound

RowsInv ==
    /\ \E bound : BoundedBy(bound)
    /\ \A w \in written : SelfConsistent(w)
    /\ OnePerPosition(auditLogs)

IsCheckpoint(c) == DOMAIN c = {"scope", "headSeq", "headHash", "checkpointHash", "status",
                               "token", "createdAt"}
CheckpointRecords == \A c \in checkpoints : IsCheckpoint(c)

\* What an audit has read of the chain and of the checkpoints there were then.
ReadThen(a) ==
    audit[a].pc # "idle" =>
        /\ OnePerPosition(audit[a].found.rows)
        /\ \A r \in audit[a].found.rows : r.scope = audit[a].found.scope /\ r.seq \in Nat \ {0}
        /\ audit[a].found.chain \in Verdicts(audit[a].found.rows)
        /\ \A c \in audit[a].found.seen : c.scope = audit[a].found.scope

\* As long as the owner does nothing, the rows an audit has read stay in the log.
RowsStay(a) ==
    audit[a].pc \in {"chain", "row"} =>
        /\ audit[a].found.faults \in Nat /\ audit[a].found.faults <= faults
        /\ audit[a].found.faults = faults => audit[a].found.rows \subseteq auditLogs

\* The checkpoint an audit goes on with, and what it has found of it.
Decided(a) ==
    (audit[a].pc = "row" \/ AnchoredOk(a)) =>
        LET c == audit[a].checkpoint
        IN  /\ audit[a].pc # "idle"
            /\ c.scope = audit[a].found.scope /\ c.headSeq \in Nat
            /\ ~Behind(audit[a].found.chain, c)
            /\ AnchoredOk(a) /\ Undisturbed(a) => HeadFound(a, c)

AuthInv ==
    /\ RowsInv /\ CheckpointRecords
    /\ \A a \in Auditors : ReadThen(a) /\ RowsStay(a) /\ Decided(a)

-----------------------------------------------------------------------------
(***************************************************************************)
(* The rows.                                                               *)
(***************************************************************************)

\* What an append does: a row that verifies, after the last one.
Appends(s, row) ==
    /\ auditLogs' = auditLogs \union {row} /\ written' = written \union {row}
    /\ UNCHANGED <<checkpoints, saves, edited, job, audit, aborts, faults>>
    /\ SelfConsistent(row) /\ row.scope = s /\ row.seq \in Nat \ {0}
    /\ \A q \in RowsOf(auditLogs, s) : q.seq < row.seq

LEMMA AppendAppends ==
    ASSUME TypeOK, RowsInv, NEW s \in Scopes, Append(s)
    PROVE  \E row : Appends(s, row)
  <1>. DEFINE Row(seq, prevHash) ==
                  MakeRow(CurrentSchemaVersion, s, seq,
                          <<Cardinality(RowsOf(written, s)) + 1>>, "event", prevHash)
  <1>0. \A q \in RowsOf(auditLogs, s) : q.seq \in Nat \ {0}
    BY DEF TypeOK, RowsOf
  <1>1. \E seq, prevHash :
            /\ seq \in Nat \ {0}
            /\ auditLogs' = auditLogs \union {Row(seq, prevHash)}
            /\ written' = written \union {Row(seq, prevHash)}
            /\ \A q \in RowsOf(auditLogs, s) : q.seq < seq
    <2>1. CASE Newest(s) = {}
      <3>1. ASSUME RowsOf(auditLogs, s) # {} PROVE FALSE
        <4>. DEFINE Seqs == {q.seq : q \in RowsOf(auditLogs, s)}
        <4>1. PICK bound \in Nat : \A q \in RowsOf(auditLogs, s) : q.seq <= bound
          BY DEF RowsInv, BoundedBy, RowsOf
        <4>2. Seqs \subseteq Nat /\ Seqs # {} /\ \A n \in Seqs : n <= bound
          BY <1>0, <3>1, <4>1
        <4>3. PICK n \in Seqs : \A m \in Seqs : m <= n
          BY <4>2, GreatestNumber
        <4>. QED  BY <2>1, <4>3 DEF Newest
      <3>2. /\ auditLogs' = auditLogs \union {Row(1, NoHash)}
            /\ written' = written \union {Row(1, NoHash)}
        BY <2>1 DEF Append
      <3>. HIDE DEF Row
      <3>. QED  BY <3>1, <3>2
    <2>2. CASE Newest(s) # {}
      <3>1. PICK last \in Newest(s) :
                /\ auditLogs' = auditLogs \union {Row(last.seq + 1, last.chainHash)}
                /\ written' = written \union {Row(last.seq + 1, last.chainHash)}
        BY <2>2 DEF Append
      <3>2. last.seq \in Nat \ {0} /\ \A q \in RowsOf(auditLogs, s) : q.seq <= last.seq
        BY <1>0 DEF Newest
      <3>3. /\ last.seq + 1 \in Nat \ {0}
            /\ \A q \in RowsOf(auditLogs, s) : q.seq < last.seq + 1
        BY <1>0, <3>2
      <3>. HIDE DEF Row
      <3>. QED  BY <3>1, <3>3
    <2>. QED  BY <2>1, <2>2
  <1>2. PICK seq, prevHash :
            /\ seq \in Nat \ {0}
            /\ auditLogs' = auditLogs \union {Row(seq, prevHash)}
            /\ written' = written \union {Row(seq, prevHash)}
            /\ \A q \in RowsOf(auditLogs, s) : q.seq < seq
    BY <1>1
  <1>3. /\ SelfConsistent(Row(seq, prevHash))
        /\ Row(seq, prevHash).scope = s /\ Row(seq, prevHash).seq = seq
    BY MakeRowFields
  <1>. HIDE DEF Row
  <1>. QED  BY <1>2, <1>3 DEF Appends, Append

\* An intervention leaves one row per position, none far out.
LEMMA InterventionKeepsRows ==
    ASSUME TypeOK, RowsInv,
           DeleteNewestRow \/ EditRow \/ RewriteHistory \/ RestoreRows \/ EditCheckpoint
    PROVE  RowsInv' /\ \E kind : Intervention(kind)
  <1>1. written' = written /\ \E kind : Intervention(kind)
    BY DEF DeleteNewestRow, EditRow, RewriteHistory, RestoreRows, EditCheckpoint, Intervention
  <1>2. PICK bound : BoundedBy(bound)
    BY DEF RowsInv
  <1>3. /\ \A r \in auditLogs : IsRow(r) /\ r.seq \in Nat \ {0}
        /\ \A r \in auditLogs \union written : r.seq \in Nat /\ r.seq <= bound
        /\ bound \in Nat /\ MaxRows \in Nat
    BY <1>2, BoundsAssumption DEF TypeOK, BoundedBy
  <1>4. ASSUME NEW r \in auditLogs, NEW q \in Overwritten(r)
        PROVE  /\ q.scope = r.scope /\ q.seq \in Nat /\ q.seq <= bound + MaxRows
               /\ Rehashed(q).scope = r.scope /\ Rehashed(q).seq = q.seq
    <2>1. /\ q.scope = r.scope /\ (q.seq = r.seq \/ q.seq \in 1..MaxRows)
          /\ Rehashed(q).scope = r.scope /\ Rehashed(q).seq = q.seq
      BY <1>3, OverwrittenRow
    <2>. QED  BY <1>3, <2>1
  <1>5. SUFFICES /\ \A r \in auditLogs' : r.seq \in Nat /\ r.seq <= bound + MaxRows
                 /\ OnePerPosition(auditLogs')
    <2>1. BoundedBy(bound + MaxRows)'
      BY <1>1, <1>3, <1>5 DEF BoundedBy
    <2>. QED  BY <1>1, <1>5, <2>1 DEF RowsInv
  <1>6. OnePerPosition(auditLogs) /\ \A r \in auditLogs \union written : r.seq <= bound + MaxRows
    BY <1>3 DEF RowsInv
  <1>7. CASE DeleteNewestRow
    BY <1>3, <1>6, <1>7 DEF DeleteNewestRow, OnePerPosition
  <1>8. CASE EditRow
    <2>0. PICK r \in auditLogs : \E q \in Overwritten(r) :
              /\ \A p \in RowsOf(auditLogs, r.scope) \ {r} : p.seq # q.seq
              /\ auditLogs' = (auditLogs \ {r}) \union {q}
      BY <1>8 DEF EditRow
    <2>1. PICK q \in Overwritten(r) :
              /\ \A p \in RowsOf(auditLogs, r.scope) \ {r} : p.seq # q.seq
              /\ auditLogs' = (auditLogs \ {r}) \union {q}
      BY <2>0
    <2>. QED  BY <1>3, <1>4, <1>6, <2>1 DEF OnePerPosition, RowsOf
  <1>9. CASE RewriteHistory
    <2>0. PICK r \in auditLogs : \E q \in Overwritten(r) :
              /\ q.seq = r.seq
              /\ auditLogs' = {p \in auditLogs : p.scope # r.scope \/ p.seq < r.seq}
                                \union {Rehashed(q)}
      BY <1>9 DEF RewriteHistory
    <2>1. PICK q \in Overwritten(r) :
              /\ q.seq = r.seq
              /\ auditLogs' = {p \in auditLogs : p.scope # r.scope \/ p.seq < r.seq}
                                \union {Rehashed(q)}
      BY <2>0
    <2>2. PICK new : new = Rehashed(q)
      OBVIOUS
    <2>3. new.scope = r.scope /\ new.seq = r.seq /\ r.seq \in Nat
      BY <1>3, <1>4, <2>1, <2>2
    <2>4. \A p \in auditLogs' :
              p # new => p \in auditLogs /\ (p.scope # r.scope \/ p.seq < r.seq)
      BY <2>1, <2>2
    <2>. QED  BY <1>3, <1>6, <2>3, <2>4 DEF OnePerPosition
  <1>10. CASE RestoreRows
    <2>0. PICK s \in Scopes : \E rows \in SUBSET RowsOf(written, s) :
              UniqueSeq(rows) /\ auditLogs' = (auditLogs \ RowsOf(auditLogs, s)) \union rows
      BY <1>10 DEF RestoreRows
    <2>1. PICK rows \in SUBSET RowsOf(written, s) :
              UniqueSeq(rows) /\ auditLogs' = (auditLogs \ RowsOf(auditLogs, s)) \union rows
      BY <2>0
    <2>. QED  BY <1>3, <1>6, <2>1 DEF OnePerPosition, UniqueSeq, RowsOf
  <1>11. CASE EditCheckpoint
    BY <1>3, <1>6, <1>11 DEF EditCheckpoint
  <1>. QED  BY <1>7, <1>8, <1>9, <1>10, <1>11

\* Every way in which the rows change.
LEMMA RowsCases ==
    ASSUME TypeOK, RowsInv, [Next]_vars
    PROVE  \/ \E s \in Scopes : \E row : Appends(s, row)
           \/ RowsInv' /\ \E kind : Intervention(kind)
           \/ UNCHANGED <<auditLogs, written, faults>>
  <1>1. CASE \E s \in Scopes : Append(s)
    BY <1>1, AppendAppends
  <1>2. CASE DeleteNewestRow \/ EditRow \/ RewriteHistory \/ RestoreRows \/ EditCheckpoint
    BY <1>2, InterventionKeepsRows
  <1>3. ASSUME NEW i \in Instances, JobStep(i) \/ AbortRun(i)
        PROVE  UNCHANGED <<auditLogs, written, faults>>
    BY <1>3 DEF JobStep, StartRun, VerifyNextScope, ReadLatest, TimestampRoot,
           SaveCheckpoint, EndRun, AbortRun, tables
  <1>4. ASSUME NEW a \in Auditors, AuditStep(a) PROVE UNCHANGED <<auditLogs, written, faults>>
    BY <1>4 DEF AuditStep, VerifyChain, ReadCheckpoint, ReadAnchoredRow, AnswerAudit, tables
  <1>5. CASE UNCHANGED vars
    BY <1>5 DEF vars, tables
  <1>. QED  BY <1>1, <1>2, <1>3, <1>4, <1>5 DEF Next

LEMMA RowsInductive == TypeOK /\ RowsInv /\ [Next]_vars => RowsInv'
  <1>. SUFFICES ASSUME TypeOK, RowsInv, [Next]_vars PROVE RowsInv'
    OBVIOUS
  <1>1. ASSUME NEW s \in Scopes, NEW row, Appends(s, row) PROVE RowsInv'
    <2>1. PICK bound : BoundedBy(bound)
      BY DEF RowsInv
    <2>2. BoundedBy(bound + row.seq)'
      <3>1. \A r \in auditLogs \union written : r.seq \in Nat /\ r.seq <= bound
        BY <2>1 DEF BoundedBy, TypeOK
      <3>2. bound \in Nat /\ row.seq \in Nat
        BY <1>1, <2>1 DEF BoundedBy, Appends
      <3>. QED  BY <1>1, <3>1, <3>2 DEF BoundedBy, Appends
    <2>3. OnePerPosition(auditLogs)'
      <3>1. \A r \in RowsOf(auditLogs, s) : r.seq \in Nat /\ r.seq < row.seq
        BY <1>1 DEF Appends, TypeOK, RowsOf
      <3>. QED  BY <1>1, <3>1 DEF Appends, RowsInv, OnePerPosition, RowsOf
    <2>. QED  BY <1>1, <2>2, <2>3 DEF RowsInv, Appends
  <1>2. CASE UNCHANGED <<auditLogs, written, faults>>
    BY <1>2 DEF RowsInv, BoundedBy
  <1>. QED  BY <1>1, <1>2, RowsCases

-----------------------------------------------------------------------------
(***************************************************************************)
(* The checkpoints.                                                        *)
(***************************************************************************)
LEMMA FittedFields ==
    ASSUME NEW c, IsCheckpoint(c), NEW r, NEW token
    PROVE  /\ IsCheckpoint(FittedTo(c, r, token))
           /\ FittedTo(c, r, token).scope = c.scope
           /\ FittedTo(c, r, token).createdAt = c.createdAt
  BY DEF FittedTo, IsCheckpoint

LEMMA SavedFields ==
    ASSUME NEW i \in Instances
    PROVE  /\ IsCheckpoint(CheckpointOf(i))
           /\ CheckpointOf(i).scope = job[i].scope
           /\ CheckpointOf(i).headSeq = job[i].head.headSeq
           /\ CheckpointOf(i).createdAt = saves + 1
  BY DEF CheckpointOf, IsCheckpoint

\* A checkpoint is saved, deleted, made to fit another head, or all stay as they are.
CheckpointSaved ==
    \E i \in Instances :
        /\ SaveCheckpoint(i)
        /\ checkpoints' = checkpoints \union {CheckpointOf(i)}
        /\ saves' = saves + 1 /\ edited' = edited
CheckpointEdited ==
    /\ saves' = saves
    /\ \E c \in checkpoints :
           /\ edited' = edited \union {c.scope}
           /\ \/ checkpoints' = checkpoints \ {c}
              \/ \E r, token : checkpoints' = (checkpoints \ {c}) \union {FittedTo(c, r, token)}

LEMMA CheckpointCases ==
    ASSUME [Next]_vars
    PROVE  CheckpointSaved \/ CheckpointEdited \/ UNCHANGED <<checkpoints, saves, edited>>
  <1>1. ASSUME NEW i \in Instances, JobStep(i) \/ AbortRun(i)
        PROVE  CheckpointSaved \/ UNCHANGED <<checkpoints, saves, edited>>
    BY <1>1 DEF JobStep, StartRun, VerifyNextScope, ReadLatest, TimestampRoot,
           SaveCheckpoint, EndRun, AbortRun, CheckpointSaved, tables
  <1>2. ASSUME NEW a \in Auditors, AuditStep(a) PROVE UNCHANGED <<checkpoints, saves, edited>>
    BY <1>2 DEF AuditStep, VerifyChain, ReadCheckpoint, ReadAnchoredRow, AnswerAudit, tables
  <1>3. CASE EditCheckpoint
    BY <1>3 DEF EditCheckpoint, Intervention, CheckpointEdited
  <1>4. CASE DeleteNewestRow \/ EditRow \/ RewriteHistory \/ RestoreRows
    BY <1>4 DEF DeleteNewestRow, EditRow, RewriteHistory, RestoreRows, Intervention, ChangesRows
  <1>5. CASE \E s \in Scopes : Append(s)
    BY <1>5 DEF Append
  <1>6. CASE UNCHANGED vars
    BY <1>6 DEF vars, tables
  <1>. QED  BY <1>1, <1>2, <1>3, <1>4, <1>5, <1>6 DEF Next

LEMMA RecordsInductive == CheckpointRecords /\ [Next]_vars => CheckpointRecords'
  <1>. SUFFICES ASSUME CheckpointRecords, [Next]_vars PROVE CheckpointRecords'
    OBVIOUS
  <1>1. CASE CheckpointSaved
    BY <1>1, SavedFields DEF CheckpointSaved, CheckpointRecords
  <1>2. CASE CheckpointEdited
    BY <1>2, FittedFields DEF CheckpointEdited, CheckpointRecords
  <1>3. CASE UNCHANGED <<checkpoints, saves, edited>>
    BY <1>3 DEF CheckpointRecords
  <1>. QED  BY <1>1, <1>2, <1>3, CheckpointCases

-----------------------------------------------------------------------------
(***************************************************************************)
(* The audits.                                                             *)
(***************************************************************************)

\* With every step of somebody else ...
LEMMA AuditWaits ==
    ASSUME TypeOK, RowsInv, [Next]_vars, NEW b \in Auditors, audit'[b] = audit[b],
           ReadThen(b), RowsStay(b), Decided(b)
    PROVE  (ReadThen(b) /\ RowsStay(b) /\ Decided(b))'
  <1>1. ReadThen(b)' /\ Decided(b)'
    BY DEF ReadThen, Decided, AnchoredOk, Undisturbed, HeadFound, Behind
  <1>2. ASSUME NEW s \in Scopes, NEW row, Appends(s, row) PROVE RowsStay(b)'
    BY <1>2 DEF Appends, RowsStay
  <1>3. ASSUME NEW kind, Intervention(kind) PROVE RowsStay(b)'
    BY <1>3 DEF Intervention, RowsStay, TypeOK
  <1>4. ASSUME UNCHANGED <<auditLogs, written, faults>> PROVE RowsStay(b)'
    BY <1>4 DEF RowsStay
  <1>. QED  BY <1>1, <1>2, <1>3, <1>4, RowsCases

\* and with every step of its own, what it has read and found stays so.
LEMMA AuditMoves ==
    ASSUME TypeOK, RowsInv, NEW b \in Auditors, AuditStep(b),
           ReadThen(b), RowsStay(b), Decided(b)
    PROVE  (ReadThen(b) /\ RowsStay(b) /\ Decided(b))'
  <1>0. DOMAIN audit = Auditors /\ UNCHANGED <<tables, faults>> /\ faults \in Nat
    BY DEF TypeOK, AuditStep, VerifyChain, ReadCheckpoint, ReadAnchoredRow, AnswerAudit
  <1>1. CASE VerifyChain(b)
    <2>0. PICK s \in Scopes : \E v \in Verdicts(RowsOf(auditLogs, s)) :
              audit'[b] = AuditAt("chain", FoundNow(s, v), NoCheckpoint, "NONE", faults)
      BY <1>0, <1>1 DEF VerifyChain
    <2>1. PICK v \in Verdicts(RowsOf(auditLogs, s)) :
              audit'[b] = AuditAt("chain", FoundNow(s, v), NoCheckpoint, "NONE", faults)
      BY <2>0
    <2>2. ReadThen(b)'
      <3>1. audit'[b].found = FoundNow(s, v)
        BY <2>1 DEF AuditAt
      <3>2. /\ OnePerPosition(RowsOf(auditLogs, s))
            /\ \A r \in RowsOf(auditLogs, s) : r.scope = s /\ r.seq \in Nat \ {0}
            /\ \A c \in TimestampedOf(s) : c.scope = s
        BY DEF RowsInv, OnePerPosition, RowsOf, TypeOK, TimestampedOf, CheckpointsOf
      <3>. QED  BY <3>1, <3>2 DEF ReadThen, FoundNow
    <2>3. RowsStay(b)'
      BY <1>0, <2>1 DEF RowsStay, AuditAt, FoundNow, RowsOf, tables
    <2>4. Decided(b)'
      BY <2>1 DEF Decided, AnchoredOk, AuditAt
    <2>. QED  BY <2>2, <2>3, <2>4
  <1>2. ASSUME NEW pc, NEW c, NEW anchorStatus, audit[b].pc \in {"chain", "row"},
               AuditGoesOn(b, pc, c, anchorStatus)
        PROVE  /\ ReadThen(b)' /\ RowsStay(b)'
               /\ audit'[b].pc = pc /\ audit'[b].checkpoint = c
               /\ audit'[b].anchorStatus = anchorStatus
               /\ audit'[b].found = audit[b].found /\ audit'[b].ended = faults
    <2>1. audit'[b] = AuditAt(pc, audit[b].found, c, anchorStatus, faults)
      BY <1>0, <1>2 DEF AuditGoesOn
    <2>. QED  BY <1>0, <1>2, <2>1 DEF AuditAt, ReadThen, RowsStay, tables
  <1>3. CASE ReadCheckpoint(b)
    <2>1. ASSUME NEW c, NEW anchorStatus, anchorStatus # "ANCHORED_OK",
                 AuditGoesOn(b, "done", c, anchorStatus)
          PROVE  (ReadThen(b) /\ RowsStay(b) /\ Decided(b))'
      BY <1>2, <1>3, <2>1 DEF ReadCheckpoint, Decided, AnchoredOk
    <2>2. ASSUME NEW c \in LatestOf(TimestampedOf(audit[b].found.scope)),
                 ~Behind(audit[b].found.chain, c), AuditGoesOn(b, "row", c, "NONE")
          PROVE  (ReadThen(b) /\ RowsStay(b) /\ Decided(b))'
      <3>1. c.scope = audit[b].found.scope /\ c.headSeq \in Nat
        BY DEF LatestOf, TimestampedOf, CheckpointsOf, TypeOK, CheckpointType
      <3>2. audit[b].pc = "chain"
        BY <1>3 DEF ReadCheckpoint
      <3>. QED  BY <1>2, <2>2, <3>1, <3>2 DEF Decided, AnchoredOk, Behind
    <2>. QED  BY <1>3, <2>1, <2>2 DEF ReadCheckpoint
  <1>4. CASE ReadAnchoredRow(b)
    <2>. DEFINE status == AnchorStatusOf(audit[b].found.scope, audit[b].checkpoint)
    <2>1. PICK c : c = audit[b].checkpoint
      OBVIOUS
    <2>2. audit[b].pc = "row" /\ AuditGoesOn(b, "done", c, status)
      BY <1>4, <2>1 DEF ReadAnchoredRow
    <2>3. PICK answer : answer = status
      OBVIOUS
    <2>4. /\ ReadThen(b)' /\ RowsStay(b)'
          /\ audit'[b].pc = "done" /\ audit'[b].checkpoint = c
          /\ audit'[b].anchorStatus = answer
          /\ audit'[b].found = audit[b].found /\ audit'[b].ended = faults
      <3>1. AuditGoesOn(b, "done", c, answer)
        BY <2>2, <2>3 DEF AuditGoesOn
      <3>. QED  BY <1>2, <2>2, <3>1
    <2>5. c.scope = audit[b].found.scope /\ c.headSeq \in Nat /\ ~Behind(audit[b].found.chain, c)
      BY <2>1, <2>2 DEF Decided
    <2>6. ASSUME answer = "ANCHORED_OK", audit[b].found.faults = faults
          PROVE  HeadFound(b, c)
      <3>1. PICK r \in RowsOf(auditLogs, audit[b].found.scope) :
                r.seq = c.headSeq /\ r.chainHash = c.headHash
        BY <2>1, <2>3, <2>6 DEF AnchorStatusOf
      <3>2. /\ \A q \in audit[b].found.rows : /\ q \in RowsOf(auditLogs, audit[b].found.scope)
                                             /\ q.seq \in Nat \ {0}
            /\ audit[b].found.chain \in Verdicts(audit[b].found.rows)
        BY <2>2, <2>6 DEF ReadThen, RowsStay, RowsOf
      <3>3. /\ audit[b].found.chain.headSeq \in Nat
            /\ c.headSeq \in 1..audit[b].found.chain.headSeq
        <4>1. audit[b].found.chain.headSeq \in Nat
          BY <3>2, ValidVerdict
        <4>2. r.seq \in Nat \ {0}
          BY DEF TypeOK, RowsOf
        <4>. QED  BY <2>5, <3>1, <4>1, <4>2 DEF Behind
      <3>4. LinkedAt(audit[b].found.rows, c.headSeq)
        BY <3>2, <3>3 DEF Verdicts, IsVerdict, IsVerifiedHead, VerifiedTo
      <3>5. PICK q \in audit[b].found.rows : q.seq = c.headSeq
        BY <3>4 DEF LinkedAt
      <3>6. q = r
        BY <3>1, <3>2, <3>5 DEF RowsInv, OnePerPosition, RowsOf
      <3>. QED  BY <3>1, <3>5, <3>6 DEF HeadFound
    <2>. QED  BY <2>4, <2>5, <2>6 DEF Decided, AnchoredOk, Undisturbed, HeadFound, Behind
  <1>5. CASE AnswerAudit(b)
    <2>1. audit'[b] = IdleAudit
      BY <1>0, <1>5 DEF AnswerAudit
    <2>. QED  BY <2>1 DEF IdleAudit, AuditAt, ReadThen, RowsStay, Decided, AnchoredOk
  <1>. QED  BY <1>1, <1>3, <1>4, <1>5 DEF AuditStep

\* An audit moves by its own steps only.
LEMMA OwnSteps ==
    ASSUME TypeOK, [Next]_vars, NEW b \in Auditors
    PROVE  audit'[b] = audit[b] \/ AuditStep(b)
  <1>1. ASSUME NEW a \in Auditors, AuditStep(a), a # b PROVE audit'[b] = audit[b]
    BY <1>1 DEF TypeOK, AuditStep, VerifyChain, ReadCheckpoint, ReadAnchoredRow, AnswerAudit,
           AuditGoesOn
  <1>2. \/ UNCHANGED audit
        \/ \E a \in Auditors : AuditStep(a)
    BY DEF Next, Append, JobStep, StartRun, VerifyNextScope, ReadLatest, TimestampRoot,
           SaveCheckpoint, EndRun, AbortRun, DeleteNewestRow, EditRow, RewriteHistory,
           RestoreRows, EditCheckpoint, Intervention, vars
  <1>. QED  BY <1>1, <1>2

LEMMA AuthInductive == TypeOK /\ AuthInv /\ [Next]_vars => AuthInv'
  <1>. SUFFICES ASSUME TypeOK, AuthInv, [Next]_vars PROVE AuthInv'
    OBVIOUS
  <1>1. (RowsInv /\ CheckpointRecords)'
    BY RowsInductive, RecordsInductive DEF AuthInv
  <1>2. ASSUME NEW b \in Auditors
        PROVE  (ReadThen(b) /\ RowsStay(b) /\ Decided(b))'
    <2>1. RowsInv /\ ReadThen(b) /\ RowsStay(b) /\ Decided(b)
      BY DEF AuthInv
    <2>. QED  BY <2>1, OwnSteps, AuditWaits, AuditMoves
  <1>. QED  BY <1>1, <1>2 DEF AuthInv

LEMMA AuthInit == Init => AuthInv
  <1>. SUFFICES ASSUME Init PROVE AuthInv
    OBVIOUS
  <1>1. RowsInv /\ CheckpointRecords
    <2>1. BoundedBy(0)
      BY DEF Init, BoundedBy
    <2>. QED  BY <2>1 DEF Init, RowsInv, CheckpointRecords, OnePerPosition
  <1>2. ASSUME NEW b \in Auditors PROVE ReadThen(b) /\ RowsStay(b) /\ Decided(b)
    BY DEF Init, IdleAudit, AuditAt, ReadThen, RowsStay, Decided, AnchoredOk
  <1>. QED  BY <1>1, <1>2 DEF AuthInv

-----------------------------------------------------------------------------
(***************************************************************************)
(* What a verified chain under a written head is.                          *)
(***************************************************************************)

\* Equal chain hashes are hashes of the same columns, under whatever versions.
LEMMA SameColumns ==
    ASSUME NEW r, NEW w, SelfConsistent(r), SelfConsistent(w), r.chainHash = w.chainHash
    PROVE  r.prevHash = w.prevHash /\ r.scope = w.scope /\ AsWritten(r, w)
  <1>1. <<"chain", r.prevHash, EventHashOf(r)>> = <<"chain", w.prevHash, EventHashOf(w)>>
    BY DEF SelfConsistent, ChainHashOf
  <1>2. r.prevHash = w.prevHash /\ EventHashOf(r) = EventHashOf(w)
    BY <1>1
  <1>3. /\ r.scope = w.scope /\ r.seq = w.seq /\ TextOf(r) = TextOf(w)
        /\ Hashed(r).id = Hashed(w).id
    BY <1>2 DEF EventHashOf
  <1>4. Hashed(r) = Hashed(w)
    BY <1>2, <1>3 DEF Hashed
  <1>5. {r.schemaVersion, w.schemaVersion} \cap LegacyVersions = {} => r.event = w.event
    BY <1>3 DEF TextOf
  <1>. QED  BY <1>2, <1>3, <1>4, <1>5 DEF AsWritten

\* Below a row with a written hash, every row of a linked chain is a row of the same
\* written history: a least position from the top that were not could not exist.
LEMMA HistoryBelow ==
    ASSUME NEW rows, NEW h, NEW s, NEW top \in Nat \ {0},
           \A r, q \in rows : r.seq = q.seq => r = q,
           \A r \in rows : r.scope = s /\ r.seq \in Nat \ {0},
           \A n \in 1..top : LinkedAt(rows, n),
           \A w \in h : /\ SelfConsistent(w)
                        /\ w.prevHash # NoHash =>
                               \E p \in h : p.scope = w.scope /\ p.chainHash = w.prevHash,
           \E w \in h, r \in rows : w.scope = s /\ r.seq = top /\ r.chainHash = w.chainHash
    PROVE  \A r \in rows : r.seq <= top => \E w \in h : AsWritten(r, w)
  <1>. DEFINE Same(n) == \E w \in h, r \in rows :
                             w.scope = s /\ r.seq = n /\ r.chainHash = w.chainHash
              Bad == {d \in Nat : d < top /\ ~Same(top - d)}
  <1>1. ASSUME NEW r \in rows, r.seq \in 1..top PROVE SelfConsistent(r)
    <2>1. LinkedAt(rows, r.seq)
      BY <1>1
    <2>. QED  BY <2>1 DEF LinkedAt
  <1>2. ASSUME NEW n \in 2..top, Same(n) PROVE Same(n - 1)
    <2>1. PICK w \in h, r \in rows : w.scope = s /\ r.seq = n /\ r.chainHash = w.chainHash
      BY <1>2
    <2>2. n \in 1..top /\ n # 1 /\ n - 1 \in 1..top
      OBVIOUS
    <2>3. PICK p \in rows : p.seq = n - 1 /\ r.prevHash = p.chainHash
      <3>1. LinkedAt(rows, n)
        BY <2>2
      <3>. QED  BY <2>1, <2>2, <3>1 DEF LinkedAt
    <2>4. SelfConsistent(r) /\ SelfConsistent(p)
      BY <1>1, <2>1, <2>2, <2>3
    <2>5. w.prevHash = p.chainHash
      BY <2>1, <2>3, <2>4, SameColumns
    <2>6. p.chainHash # NoHash
      BY <2>4 DEF SelfConsistent, ChainHashOf, NoHash
    <2>7. PICK v \in h : v.scope = w.scope /\ v.chainHash = w.prevHash
      BY <2>5, <2>6
    <2>. QED  BY <2>1, <2>3, <2>5, <2>7
  <1>3. Same(top)
    OBVIOUS
  <1>. HIDE DEF Same
  <1>4. Bad = {}
    <2>. SUFFICES ASSUME Bad # {} PROVE FALSE
      OBVIOUS
    <2>1. \A d \in Bad : d \in Nat
      OBVIOUS
    <2>2. PICK d \in Bad : \A e \in Bad : d <= e
      <3>. HIDE DEF Bad
      <3>. QED  BY <2>1, LeastNumber
    <2>3. d \in Nat /\ d < top /\ ~Same(top - d)
      OBVIOUS
    <2>4. d # 0
      BY <1>3, <2>3
    <2>5. d - 1 \in Nat /\ d - 1 < top /\ ~(d <= d - 1)
      BY <2>3, <2>4
    <2>6. Same(top - (d - 1))
      BY <2>2, <2>5
    <2>7. top - (d - 1) \in 2..top /\ (top - (d - 1)) - 1 = top - d
      BY <2>3, <2>4
    <2>8. PICK n \in 2..top : n = top - (d - 1)
      BY <2>7
    <2>9. Same(n) /\ n - 1 = top - d
      BY <2>6, <2>7, <2>8
    <2>. QED  BY <1>2, <2>3, <2>9
  <1>5. ASSUME NEW r \in rows, r.seq <= top
        PROVE  \E w \in h : AsWritten(r, w)
    <2>1. r.seq \in 1..top /\ top - r.seq \in Nat /\ top - r.seq < top
          /\ top - (top - r.seq) = r.seq
      <3>1. r.seq \in Nat /\ r.seq # 0
        OBVIOUS
      <3>. QED  BY <1>5, <3>1
    <2>2. Same(r.seq)
      BY <1>4, <2>1
    <2>3. PICK w \in h, q \in rows : w.scope = s /\ q.seq = r.seq /\ q.chainHash = w.chainHash
      BY <2>2 DEF Same
    <2>4. q = r /\ SelfConsistent(r)
      BY <1>1, <2>1, <2>3
    <2>. QED  BY <2>3, <2>4, SameColumns
  <1>. QED  BY <1>5

\* ANCHORED_OK against a checkpoint whose head the application wrote means that every
\* row up to that head is, in every hashed column, the row the application wrote,
\* whatever rows and checkpoints the owner has edited, deleted, rewritten or put back,
\* provided he does nothing between the queries of the audit.
THEOREM AnchoredOkAuthentic == Spec => []AnchoredOkIsAuthentic
  <1>1. TypeOK /\ AuthInv => AnchoredOkIsAuthentic
    <2>. SUFFICES ASSUME TypeOK, AuthInv, NEW a \in Auditors, AnchoredOk(a), Undisturbed(a),
                         NEW h \in WrittenHistories,
                         \E w \in h : w.scope = audit[a].checkpoint.scope
                                      /\ w.chainHash = audit[a].checkpoint.headHash
                  PROVE  \A r \in audit[a].found.rows : r.seq <= audit[a].checkpoint.headSeq =>
                             \E w \in h : AsWritten(r, w)
      BY DEF AnchoredOkIsAuthentic
    <2>. DEFINE c == audit[a].checkpoint
                rows == audit[a].found.rows
                s == audit[a].found.scope
    <2>1. ReadThen(a) /\ Decided(a) /\ \A w \in written : SelfConsistent(w)
      BY DEF AuthInv, RowsInv
    <2>2. h \subseteq written
      BY DEF WrittenHistories
    <2>3. /\ audit[a].pc # "idle" /\ c.scope = s /\ c.headSeq \in Nat
          /\ ~Behind(audit[a].found.chain, c)
          /\ HeadFound(a, c)
      BY <2>1 DEF Decided
    <2>4. /\ \A r, q \in rows : r.seq = q.seq => r = q
          /\ \A r \in rows : r.scope = s /\ r.seq \in Nat \ {0}
          /\ audit[a].found.chain \in Verdicts(rows)
      BY <2>1, <2>3 DEF ReadThen, OnePerPosition
    <2>5. PICK r0 \in rows : r0.seq = c.headSeq /\ r0.chainHash = c.headHash
      BY <2>3 DEF HeadFound
    <2>6. c.headSeq \in Nat \ {0}
      BY <2>4, <2>5
    <2>7. \A n \in 1..c.headSeq : LinkedAt(rows, n)
      <3>1. audit[a].found.chain.headSeq \in Nat
        BY <2>4, ValidVerdict
      <3>2. 1..c.headSeq \subseteq 1..audit[a].found.chain.headSeq
        BY <2>3, <3>1 DEF Behind
      <3>3. VerifiedTo(rows, audit[a].found.chain.headSeq)
        BY <2>4 DEF Verdicts, IsVerdict, IsVerifiedHead
      <3>. QED  BY <3>2, <3>3 DEF VerifiedTo
    <2>8. \A w \in h : /\ SelfConsistent(w)
                       /\ w.prevHash # NoHash =>
                              \E p \in h : p.scope = w.scope /\ p.chainHash = w.prevHash
      BY <2>1, <2>2 DEF WrittenHistories
    <2>9. \E w \in h, r \in rows : w.scope = s /\ r.seq = c.headSeq /\ r.chainHash = w.chainHash
      BY <2>3, <2>5
    <2>. HIDE DEF c, rows, s
    <2>10. \A r \in rows : r.seq <= c.headSeq => \E w \in h : AsWritten(r, w)
      BY <2>4, <2>6, <2>7, <2>8, <2>9, HistoryBelow
    <2>. QED  BY <2>10 DEF c, rows
  <1>. QED  BY <1>1, AuthInit, AuthInductive, TypeCorrect, PTL DEF Spec

-----------------------------------------------------------------------------
(***************************************************************************)
(* The order of the anchors, when one job runs at a time.                  *)
(***************************************************************************)

\* createdAt ranks the checkpoints.
Ranked == \A c \in checkpoints : c.createdAt \in 1..saves

\* While the checkpoints of a scope are as the jobs saved them, a later one is of no
\* earlier head, nor is the head that a job is about to save.
Ascending ==
    \A s : s \notin edited =>
        \A c, d \in CheckpointsOf(s) : c.createdAt <= d.createdAt => c.headSeq <= d.headSeq
HeadAdvances ==
    \A i \in Instances : job[i].pc \in {"timestamp", "save"} /\ job[i].scope \notin edited =>
        \A c \in CheckpointsOf(job[i].scope) : c.headSeq <= job[i].head.headSeq

\* Nor does a checkpoint that an audit saw go away; and the chain of an audit that found
\* it not behind the latest one is not behind any it saw.
SeenStays(a) ==
    audit[a].pc # "idle" /\ audit[a].found.scope \notin edited =>
        audit[a].found.seen \subseteq TimestampedOf(audit[a].found.scope)
ReachesAnchors(a) ==
    (audit[a].pc = "row" \/ AnchoredOk(a)) /\ audit[a].found.scope \notin edited =>
        \A c \in audit[a].found.seen : c.headSeq <= audit[a].found.chain.headSeq

OrderInv ==
    /\ Ranked /\ Ascending /\ HeadAdvances
    /\ \A a \in Auditors : SeenStays(a) /\ ReachesAnchors(a)

LEMMA RankedStep ==
    ASSUME TypeOK, CheckpointRecords, Ranked, [Next]_vars
    PROVE  Ranked'
  <1>1. saves \in Nat
    BY DEF TypeOK
  <1>2. CASE CheckpointSaved
    <2>1. PICK i \in Instances : /\ checkpoints' = checkpoints \union {CheckpointOf(i)}
                                 /\ saves' = saves + 1
      BY <1>2 DEF CheckpointSaved
    <2>2. CheckpointOf(i).createdAt = saves + 1
      BY SavedFields
    <2>. QED  BY <1>1, <2>1, <2>2 DEF Ranked
  <1>3. CASE CheckpointEdited
    <2>1. PICK c \in checkpoints :
              /\ saves' = saves
              /\ \/ checkpoints' = checkpoints \ {c}
                 \/ \E r, token :
                        checkpoints' = (checkpoints \ {c}) \union {FittedTo(c, r, token)}
      BY <1>3 DEF CheckpointEdited
    <2>2. \A r, token : FittedTo(c, r, token).createdAt = c.createdAt
      BY FittedFields DEF CheckpointRecords
    <2>. QED  BY <2>1, <2>2 DEF Ranked
  <1>4. CASE UNCHANGED <<checkpoints, saves, edited>>
    BY <1>4 DEF Ranked
  <1>. QED  BY <1>2, <1>3, <1>4, CheckpointCases

\* As long as the owner leaves them alone, the checkpoints of a scope are only added to.
LEMMA UneditedThen ==
    ASSUME CheckpointRecords, [Next]_vars, NEW s, s \notin edited'
    PROVE  /\ s \notin edited
           /\ \/ CheckpointsOf(s)' = CheckpointsOf(s)
              \/ \E i \in Instances : /\ SaveCheckpoint(i) /\ job[i].scope = s
                                      /\ CheckpointsOf(s)' = CheckpointsOf(s) \union {CheckpointOf(i)}
  <1>1. CASE CheckpointSaved
    <2>1. PICK i \in Instances : /\ SaveCheckpoint(i) /\ edited' = edited
                                 /\ checkpoints' = checkpoints \union {CheckpointOf(i)}
      BY <1>1 DEF CheckpointSaved
    <2>2. CheckpointOf(i).scope = job[i].scope
      BY SavedFields
    <2>3. CASE job[i].scope = s
      BY <2>1, <2>2, <2>3 DEF CheckpointsOf
    <2>4. CASE job[i].scope # s
      BY <2>1, <2>2, <2>4 DEF CheckpointsOf
    <2>. QED  BY <2>3, <2>4
  <1>2. CASE CheckpointEdited
    <2>1. PICK c \in checkpoints :
              /\ edited' = edited \union {c.scope}
              /\ \/ checkpoints' = checkpoints \ {c}
                 \/ \E r, token :
                        checkpoints' = (checkpoints \ {c}) \union {FittedTo(c, r, token)}
      BY <1>2 DEF CheckpointEdited
    <2>2. \A r, token : FittedTo(c, r, token).scope = c.scope
      BY FittedFields DEF CheckpointRecords
    <2>3. s \notin edited /\ c.scope # s
      BY <2>1
    <2>4. CheckpointsOf(s)' = CheckpointsOf(s)
      BY <2>1, <2>2, <2>3 DEF CheckpointsOf
    <2>. QED  BY <2>3, <2>4
  <1>3. CASE UNCHANGED <<checkpoints, saves, edited>>
    BY <1>3 DEF CheckpointsOf
  <1>. QED  BY <1>1, <1>2, <1>3, CheckpointCases

LEMMA AscendingStep ==
    ASSUME TypeOK, CheckpointRecords, Ranked, Ascending, HeadAdvances, [Next]_vars
    PROVE  Ascending'
  <1>. SUFFICES ASSUME NEW s, s \notin edited', NEW c \in CheckpointsOf(s)',
                       NEW d \in CheckpointsOf(s)', c.createdAt <= d.createdAt
                PROVE  c.headSeq <= d.headSeq
    BY DEF Ascending
  <1>1. CASE c \in CheckpointsOf(s) /\ d \in CheckpointsOf(s)
    BY <1>1, UneditedThen DEF Ascending
  <1>2. ASSUME NEW i \in Instances, SaveCheckpoint(i), job[i].scope = s,
               CheckpointsOf(s)' = CheckpointsOf(s) \union {CheckpointOf(i)}
        PROVE  c.headSeq <= d.headSeq
    <2>1. PICK new : new = CheckpointOf(i)
      OBVIOUS
    <2>2. /\ new.headSeq = job[i].head.headSeq /\ new.headSeq \in Nat
          /\ new.createdAt = saves + 1
      BY <1>2, <2>1, SavedFields DEF SaveCheckpoint, TypeOK
    <2>3. s \notin edited
      BY UneditedThen
    <2>4. \A e \in CheckpointsOf(s) : e.headSeq <= new.headSeq
      BY <1>2, <2>2, <2>3 DEF HeadAdvances, SaveCheckpoint
    <2>5. \A e \in CheckpointsOf(s) : ~(new.createdAt <= e.createdAt)
      <3>1. saves \in Nat
        BY DEF TypeOK
      <3>. QED  BY <2>2, <3>1 DEF Ranked, CheckpointsOf
    <2>6. CASE d = new
      BY <1>2, <2>1, <2>2, <2>4, <2>6
    <2>7. CASE d # new
      BY <1>1, <1>2, <2>1, <2>5, <2>7
    <2>. QED  BY <2>6, <2>7
  <1>. QED  BY <1>1, <1>2, UneditedThen

\* A job that goes on to the TSA has just read the latest checkpoint.
LEMMA JobAdvances ==
    ASSUME TypeOK, [Next]_vars, NEW i \in Instances, job'[i].pc \in {"timestamp", "save"}
    PROVE  /\ job'[i].scope = job[i].scope /\ job'[i].head = job[i].head
           /\ ~SaveCheckpoint(i)
           /\ \/ job[i].pc \in {"timestamp", "save"}
              \/ /\ job[i].pc = "latest" /\ UNCHANGED checkpoints
                 /\ \A latest \in LatestOf(CheckpointsOf(job[i].scope)) :
                        ~UnchangedSince(latest, job[i].head)
  <1>0. DOMAIN job = Instances
    BY DEF TypeOK
  <1>. DEFINE Advances ==
                  /\ job'[i].scope = job[i].scope /\ job'[i].head = job[i].head
                  /\ ~SaveCheckpoint(i)
                  /\ \/ job[i].pc \in {"timestamp", "save"}
                     \/ /\ job[i].pc = "latest" /\ UNCHANGED checkpoints
                        /\ \A latest \in LatestOf(CheckpointsOf(job[i].scope)) :
                               ~UnchangedSince(latest, job[i].head)
  <1>1. ~SaveCheckpoint(i)
    BY <1>0 DEF SaveCheckpoint, BetweenScopes, JobAt
  <1>2. ASSUME JobStep(i) \/ AbortRun(i) PROVE Advances
    <2>1. CASE VerifyNextScope(i)
      <3>1. job'[i].pc \in {"latest", "next"}
        BY <1>0, <2>1 DEF VerifyNextScope, BetweenScopes, JobAt
      <3>. QED  BY <3>1
    <2>2. CASE StartRun(i) \/ EndRun(i) \/ AbortRun(i)
      BY <1>0, <2>2 DEF StartRun, EndRun, AbortRun, BetweenScopes, IdleJob, JobAt
    <2>3. CASE ReadLatest(i)
      <3>1. ~ \E latest \in LatestOf(CheckpointsOf(job[i].scope)) :
                  UnchangedSince(latest, job[i].head)
        BY <1>0, <2>3 DEF ReadLatest, BetweenScopes, JobAt
      <3>2. job'[i] = JobAt("timestamp", job[i].todo, job[i].scope, job[i].head, NoToken)
        BY <1>0, <2>3, <3>1 DEF ReadLatest
      <3>. QED  BY <1>1, <2>3, <3>1, <3>2 DEF ReadLatest, JobAt, tables
    <2>4. CASE TimestampRoot(i)
      <3>1. job'[i] = JobAt("save", job[i].todo, job[i].scope, job[i].head, TokenFor(i))
        BY <1>0, <2>4 DEF TimestampRoot
      <3>. QED  BY <1>1, <2>4, <3>1 DEF TimestampRoot, JobAt
    <2>. QED  BY <1>1, <1>2, <2>1, <2>2, <2>3, <2>4 DEF JobStep
  <1>3. ASSUME NEW j \in Instances, j # i, JobStep(j) \/ AbortRun(j) PROVE job'[i] = job[i]
    BY <1>0, <1>3 DEF JobStep, StartRun, VerifyNextScope, ReadLatest, TimestampRoot,
           SaveCheckpoint, EndRun, AbortRun
  <1>4. \/ UNCHANGED job
        \/ \E j \in Instances : JobStep(j) \/ AbortRun(j)
    BY DEF Next, Append, AuditStep, VerifyChain, ReadCheckpoint, ReadAnchoredRow,
           AnswerAudit, DeleteNewestRow, EditRow, RewriteHistory,
           RestoreRows, EditCheckpoint, Intervention, vars, tables
  <1>. QED  BY <1>1, <1>2, <1>3, <1>4

\* A scope with checkpoints has a latest one.
LEMMA LatestExists ==
    ASSUME TypeOK, Ranked, NEW s, CheckpointsOf(s) # {}
    PROVE  LatestOf(CheckpointsOf(s)) # {}
  <1>. DEFINE Ranks == {c.createdAt : c \in CheckpointsOf(s)}
  <1>1. saves \in Nat
    BY DEF TypeOK
  <1>2. Ranks \subseteq Nat /\ Ranks # {} /\ \A n \in Ranks : n <= saves
    BY <1>1 DEF Ranked, CheckpointsOf
  <1>3. PICK n \in Ranks : \A m \in Ranks : m <= n
    BY <1>1, <1>2, GreatestNumber
  <1>. QED  BY <1>3 DEF LatestOf

\* With one job, nobody saves a checkpoint while it is at the TSA.
LEMMA HeadAdvancesStep ==
    ASSUME \A i, j \in Instances : i = j,
           TypeOK, CheckpointRecords, Ranked, Ascending, HeadAdvances, [Next]_vars
    PROVE  HeadAdvances'
  <1>. SUFFICES ASSUME NEW i \in Instances, job'[i].pc \in {"timestamp", "save"},
                       NEW s, s = job'[i].scope, s \notin edited'
                PROVE  \A c \in CheckpointsOf(s)' : c.headSeq <= job'[i].head.headSeq
    BY DEF HeadAdvances, CheckpointsOf
  <1>2. job[i].scope = s /\ job'[i].head = job[i].head /\ ~SaveCheckpoint(i)
    BY JobAdvances
  <1>3. s \notin edited /\ CheckpointsOf(s)' = CheckpointsOf(s)
    BY <1>2, UneditedThen
  <1>4. \A c \in CheckpointsOf(s) : c.headSeq <= job[i].head.headSeq
    <2>1. CASE job[i].pc \in {"timestamp", "save"}
      BY <1>2, <1>3, <2>1 DEF HeadAdvances
    <2>2. ASSUME NEW c \in CheckpointsOf(s), job[i].pc = "latest",
                 \A latest \in LatestOf(CheckpointsOf(s)) : ~UnchangedSince(latest, job[i].head)
          PROVE  c.headSeq <= job[i].head.headSeq
      <3>1. PICK latest \in LatestOf(CheckpointsOf(s)) : ~UnchangedSince(latest, job[i].head)
        BY <2>2, LatestExists
      <3>2. c.headSeq \in Nat /\ latest.headSeq \in Nat /\ job[i].head.headSeq \in Nat
        BY <2>2 DEF TypeOK, CheckpointType, CheckpointsOf, LatestOf
      <3>3. c.headSeq <= latest.headSeq
        BY <1>3 DEF Ascending, LatestOf
      <3>. QED  BY <3>1, <3>2, <3>3 DEF UnchangedSince
    <2>. QED  BY <1>2, <2>1, <2>2, JobAdvances
  <1>. QED  BY <1>2, <1>3, <1>4 DEF CheckpointsOf

\* While an audit waits, what it has seen stays.
LEMMA OrderWaits ==
    ASSUME TypeOK, CheckpointRecords, [Next]_vars, NEW b \in Auditors,
           audit'[b] = audit[b], SeenStays(b), ReachesAnchors(b)
    PROVE  (SeenStays(b) /\ ReachesAnchors(b))'
  <1>1. PICK s : s = audit[b].found.scope
    OBVIOUS
  <1>2. s \notin edited' => s \notin edited /\ TimestampedOf(s) \subseteq TimestampedOf(s)'
    BY UneditedThen DEF TimestampedOf
  <1>3. SeenStays(b)'
    <2>. SUFFICES ASSUME audit[b].pc # "idle", s \notin edited'
                  PROVE  audit[b].found.seen \subseteq TimestampedOf(s)'
      BY <1>1 DEF SeenStays, TimestampedOf, CheckpointsOf
    <2>. QED  BY <1>1, <1>2 DEF SeenStays
  <1>4. ReachesAnchors(b)'
    BY <1>1, <1>2 DEF ReachesAnchors, AnchoredOk
  <1>. QED  BY <1>3, <1>4

\* An audit goes on to the row of the latest checkpoint, of the highest anchored head,
\* only when its chain reaches that head.
LEMMA OrderMoves ==
    ASSUME TypeOK, Ascending, NEW b \in Auditors, AuditStep(b),
           ReadThen(b), SeenStays(b), ReachesAnchors(b)
    PROVE  (SeenStays(b) /\ ReachesAnchors(b))'
  <1>0. /\ DOMAIN audit = Auditors /\ UNCHANGED <<checkpoints, edited>>
        /\ \A s : TimestampedOf(s)' = TimestampedOf(s)
    BY DEF TypeOK, AuditStep, VerifyChain, ReadCheckpoint, ReadAnchoredRow, AnswerAudit,
           tables, TimestampedOf, CheckpointsOf
  <1>1. CASE VerifyChain(b)
    <2>1. PICK s, v : audit'[b] = AuditAt("chain", FoundNow(s, v), NoCheckpoint, "NONE", faults)
      BY <1>0, <1>1 DEF VerifyChain
    <2>2. /\ audit'[b].pc = "chain" /\ ~AnchoredOk(b)'
          /\ audit'[b].found.scope = s /\ audit'[b].found.seen = TimestampedOf(s)
      BY <2>1 DEF AuditAt, FoundNow, AnchoredOk
    <2>3. SeenStays(b)'
      BY <1>0, <2>2 DEF SeenStays, TimestampedOf, CheckpointsOf
    <2>. QED  BY <2>2, <2>3 DEF ReachesAnchors
  <1>2. ASSUME NEW pc, NEW c, NEW anchorStatus, audit[b].pc # "idle",
               AuditGoesOn(b, pc, c, anchorStatus)
        PROVE  /\ SeenStays(b)'
               /\ audit'[b].pc = pc /\ audit'[b].anchorStatus = anchorStatus
               /\ audit'[b].found = audit[b].found
    <2>1. audit'[b] = AuditAt(pc, audit[b].found, c, anchorStatus, faults)
      BY <1>0, <1>2 DEF AuditGoesOn
    <2>2. /\ audit'[b].pc = pc /\ audit'[b].anchorStatus = anchorStatus
          /\ audit'[b].found = audit[b].found
      BY <2>1 DEF AuditAt
    <2>3. SeenStays(b)'
      BY <1>0, <1>2, <2>2 DEF SeenStays, TimestampedOf, CheckpointsOf
    <2>. QED  BY <2>2, <2>3
  <1>3. CASE ReadCheckpoint(b)
    <2>0. audit[b].pc = "chain"
      BY <1>3 DEF ReadCheckpoint
    <2>1. ASSUME NEW c, NEW anchorStatus, anchorStatus # "ANCHORED_OK",
                 AuditGoesOn(b, "done", c, anchorStatus)
          PROVE  (SeenStays(b) /\ ReachesAnchors(b))'
      BY <1>2, <2>0, <2>1 DEF ReachesAnchors, AnchoredOk
    <2>2. ASSUME NEW c \in LatestOf(TimestampedOf(audit[b].found.scope)),
                 ~Behind(audit[b].found.chain, c), AuditGoesOn(b, "row", c, "NONE")
          PROVE  (SeenStays(b) /\ ReachesAnchors(b))'
      <3>1. PICK s : s = audit[b].found.scope
        OBVIOUS
      <3>2. ASSUME s \notin edited, NEW d \in audit[b].found.seen
            PROVE  d.headSeq <= audit[b].found.chain.headSeq
        <4>1. d \in TimestampedOf(s)
          BY <2>0, <3>1, <3>2 DEF SeenStays
        <4>2. c \in CheckpointsOf(s) /\ d \in CheckpointsOf(s) /\ d.createdAt <= c.createdAt
          BY <3>1, <4>1 DEF LatestOf, TimestampedOf
        <4>3. d.headSeq <= c.headSeq
          BY <3>2, <4>2 DEF Ascending
        <4>4. /\ \A r \in audit[b].found.rows : r.seq \in Nat \ {0}
              /\ audit[b].found.chain \in Verdicts(audit[b].found.rows)
          BY <2>0 DEF ReadThen
        <4>5. audit[b].found.chain.headSeq \in Nat
          BY <4>4, ValidVerdict
        <4>6. c.headSeq \in Nat /\ d.headSeq \in Nat
          BY <4>2 DEF CheckpointsOf, TypeOK, CheckpointType
        <4>. QED  BY <2>2, <4>3, <4>5, <4>6 DEF Behind
      <3>3. SeenStays(b)' /\ audit'[b].pc = "row" /\ audit'[b].found = audit[b].found
        BY <1>2, <2>0, <2>2
      <3>. QED  BY <1>0, <3>1, <3>2, <3>3 DEF ReachesAnchors
    <2>. QED  BY <1>3, <2>1, <2>2 DEF ReadCheckpoint
  <1>4. CASE ReadAnchoredRow(b)
    <2>1. PICK c, found : audit[b].pc = "row" /\ AuditGoesOn(b, "done", c, found)
      BY <1>4 DEF ReadAnchoredRow
    <2>2. SeenStays(b)' /\ audit'[b].pc = "done" /\ audit'[b].found = audit[b].found
      BY <1>2, <2>1
    <2>. QED  BY <1>0, <2>1, <2>2 DEF ReachesAnchors
  <1>5. CASE AnswerAudit(b)
    <2>1. audit'[b] = IdleAudit
      BY <1>0, <1>5 DEF AnswerAudit
    <2>. QED  BY <2>1 DEF IdleAudit, AuditAt, SeenStays, ReachesAnchors, AnchoredOk
  <1>. QED  BY <1>1, <1>3, <1>4, <1>5 DEF AuditStep

LEMMA OrderInductive ==
    ASSUME \A i, j \in Instances : i = j, TypeOK, AuthInv, OrderInv, [Next]_vars
    PROVE  OrderInv'
  <1>0. CheckpointRecords /\ Ranked /\ Ascending /\ HeadAdvances
    BY DEF AuthInv, OrderInv
  <1>1. Ranked' /\ Ascending' /\ HeadAdvances'
    BY <1>0, RankedStep, AscendingStep, HeadAdvancesStep
  <1>2. ASSUME NEW b \in Auditors PROVE (SeenStays(b) /\ ReachesAnchors(b))'
    <2>1. ReadThen(b) /\ SeenStays(b) /\ ReachesAnchors(b)
      BY DEF AuthInv, OrderInv
    <2>. QED  BY <1>0, <2>1, OwnSteps, OrderWaits, OrderMoves
  <1>. QED  BY <1>1, <1>2 DEF OrderInv

LEMMA OrderInit == Init => OrderInv
  BY DEF Init, OrderInv, Ranked, Ascending, HeadAdvances, SeenStays,
     ReachesAnchors, CheckpointsOf, AnchoredOk, IdleJob, JobAt, IdleAudit, AuditAt

\* With one job, a chain reported ANCHORED_OK is not behind any anchored head there was
\* when it was read, whatever the owner does to the log, as long as he changes no
\* checkpoint of the scope.  Two jobs that overlap refute it (run out_of_order).
THEOREM NotBehindWithOneJob ==
    ASSUME \A i, j \in Instances : i = j
    PROVE  Spec => []NotBehindAnyAnchor
  <1>1. OrderInv => NotBehindAnyAnchor
    BY DEF OrderInv, NotBehindAnyAnchor, ReachesAnchors, AnchorsSeen
  <1>2. TypeOK /\ AuthInv /\ OrderInv /\ [Next]_vars => OrderInv'
    BY OrderInductive
  <1>. QED  BY <1>1, <1>2, OrderInit, AuthInit, AuthInductive, TypeCorrect, PTL DEF Spec
=============================================================================
