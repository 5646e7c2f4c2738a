---------------------- MODULE DocumentAnchoringProofs ----------------------
(***************************************************************************)
(* Theorems about DocumentAnchoring for every number of documents, crons   *)
(* and notary calls, with and without a TSA: type correctness, and that an *)
(* ANCHORED document has a timestamped batch.                              *)
(***************************************************************************)
EXTENDS DocumentAnchoring, TLAPS

-----------------------------------------------------------------------------
(***************************************************************************)
(* Rows.                                                                   *)
(***************************************************************************)

\* Batches are only ever added, so rows stay rows.
LEMMA RowsGrow ==
  ASSUME batches \in Seq(BatchRows), NEW e \in BatchRows,
         batches' = batches \/ batches' = Append(batches, e)
  PROVE  /\ Rows \subseteq Rows'
         /\ \A c : CallOK(c) => CallOK(c)'
         /\ batches' \in Seq(BatchRows)
  <1>1. Len(batches) \in Nat /\ Len(batches') \in Nat /\ Len(batches) <= Len(batches')
    OBVIOUS
  <1>2. Rows \subseteq Rows'
    BY <1>1 DEF Rows
  <1>3. \A c : CallOK(c) => CallOK(c)'
    BY <1>2 DEF CallOK
  <1>4. batches' \in Seq(BatchRows)
    OBVIOUS
  <1>. QED  BY <1>2, <1>3, <1>4 DEF BatchRows

\* A worker saves a well-formed batch.
LEMMA BatchType ==
  ASSUME NEW w, NEW docs \in Seq(Docs)
  PROVE  BatchOf(w, docs) \in BatchRows
  BY DEF BatchOf, BatchRows

\* The place of a document in a batch that holds it.
LEMMA IndexType ==
  ASSUME NEW docs \in Seq(Docs), NEW d \in Elements(docs)
  PROVE  IndexOf(docs, d) \in DOMAIN docs
  BY DEF IndexOf, Elements

\* The proof of a leaf is a sequence.
LEMMA ProofType ==
  ASSUME NEW docs \in Seq(Docs), NEW i \in DOMAIN docs
  PROVE  ProofFor(docs, i) \in Seq(Docs \union {Leaf})
  <1>1. DOMAIN ProofFor(docs, i) = 1 .. Len(docs) /\ Len(docs) \in Nat
    BY DEF ProofFor
  <1>2. \A k \in 1 .. Len(docs) : ProofFor(docs, i)[k] \in Docs \union {Leaf}
    BY DEF ProofFor
  <1>3. ProofFor(docs, i) = [k \in 1 .. Len(docs) |-> ProofFor(docs, i)[k]]
    BY <1>1 DEF ProofFor
  <1>. QED  BY <1>1, <1>2, <1>3

\* What save makes of a row is a row.
LEMMA SavedOverType ==
  ASSUME NEW row \in Rows, NEW selected \in Rows, NEW mine \in Rows
  PROVE  SavedOver(row, selected, mine) \in Rows
  <1>1. Columns = {"status", "at", "batch", "proof"}
    BY DEF Columns, Pending, RowOf
  <1>2. Absent \in Rows
    BY DEF Absent, RowOf, Rows
  <1>. QED  BY <1>1, <1>2 DEF SavedOver, Rows

-----------------------------------------------------------------------------
(***************************************************************************)
(* Type correctness.                                                       *)
(***************************************************************************)
LEMMA IdleType == CallOK(IdleWorker)
  <1>1. <<>> \in Seq(Docs) /\ <<>> \in Seq(Docs \union {Leaf})
    OBVIOUS
  <1>. QED  BY <1>1 DEF CallOK, IdleWorker, WorkerAt, Absent, RowOf, Rows

LEMMA InitType == Init => TypeOK
  <1>. SUFFICES ASSUME Init PROVE TypeOK
    OBVIOUS
  <1>1. <<>> \in Seq(Docs) /\ <<>> \in Seq(BatchRows) /\ <<>> \in Seq(Docs \union {Leaf})
    OBVIOUS
  <1>2. documents \in [Docs -> Rows]
    BY <1>1 DEF Init, Rows, Absent, RowOf
  <1>3. DOMAIN worker = Workers /\ \A w \in Workers : CallOK(worker[w])
    BY IdleType DEF Init
  <1>4. aborts \in 0 .. MaxAborts
    BY AnchoringBoundsAssumption DEF Init
  <1>. QED  BY <1>1, <1>2, <1>3, <1>4 DEF Init, TypeOK

\* A step that only moves one call, to a well-formed call.
LEMMA CallMoves ==
  ASSUME TypeOK, NEW w \in Workers, NEW c, CallOK(c),
         worker' = [worker EXCEPT ![w] = c],
         UNCHANGED <<documents, uploaded, blobs, removing, removed, batches, unconfirmed>>,
         aborts' \in 0 .. MaxAborts
  PROVE  TypeOK'
  BY DEF TypeOK, Rows, BatchRows, CallOK

\* What the SELECT of save returns.
LEMMA SelectedType ==
  ASSUME TypeOK, NEW w \in Workers
  PROVE  [d \in Elements(worker[w].docs) |-> documents[d]]
            \in [Elements(worker[w].docs) -> Rows]
  <1>1. worker[w].docs \in Seq(Docs)
    BY DEF TypeOK, CallOK
  <1>2. \A d \in Elements(worker[w].docs) : d \in Docs
    BY <1>1 DEF Elements
  <1>. QED  BY <1>2 DEF TypeOK

LEMMA NextType == TypeOK /\ [Next]_vars => TypeOK'
  <1>. SUFFICES ASSUME TypeOK, [Next]_vars PROVE TypeOK'
    OBVIOUS
  <1>. USE DEF TypeOK
  <1>1. ASSUME NEW d \in Docs, Upload(d) PROVE TypeOK'
    <2>1. Pending \in Rows
      <3>1. <<>> \in Seq(Docs \union {Leaf})
        OBVIOUS
      <3>. QED  BY <3>1 DEF Pending, RowOf, Rows
    <2>2. documents' \in [Docs -> Rows] /\ uploaded' \in Seq(Docs)
      BY <1>1, <2>1 DEF Upload
    <2>. QED  BY <1>1, <2>2 DEF Upload, Rows, CallOK, BatchRows
  <1>2. ASSUME NEW d \in Docs, RemoveObject(d) PROVE TypeOK'
    BY <1>2 DEF RemoveObject, Rows, CallOK, BatchRows
  <1>3. ASSUME NEW d \in Docs, RemoveRow(d) PROVE TypeOK'
    <2>1. Absent \in Rows
      BY IdleType DEF CallOK, IdleWorker, WorkerAt
    <2>. QED  BY <1>3, <2>1 DEF RemoveRow, Rows, CallOK, BatchRows
  <1>4. ASSUME NEW d \in Docs, AlterObject(d) PROVE TypeOK'
    BY <1>4 DEF AlterObject, Rows, CallOK, BatchRows
  <1>5. ASSUME NEW w \in Workers, FindPending(w) PROVE TypeOK'
    <2>1. PICK n \in 1 .. MaxLeaves : \E docs \in [1 .. n -> Docs] :
             worker' = [worker EXCEPT ![w] = WorkerAt("stamp", docs, Absent, <<>>)]
      BY <1>5 DEF FindPending
    <2>2. PICK docs \in [1 .. n -> Docs] :
             worker' = [worker EXCEPT ![w] = WorkerAt("stamp", docs, Absent, <<>>)]
      BY <2>1
    <2>3. docs \in Seq(Docs) /\ docs # <<>>
      BY AnchoringBoundsAssumption
    <2>4. CallOK(WorkerAt("stamp", docs, Absent, <<>>))
      BY <2>3, IdleType DEF CallOK, WorkerAt, IdleWorker
    <2>. QED  BY <1>5, <2>2, <2>4, CallMoves DEF FindPending
  <1>6. ASSUME NEW w \in Workers, NEW d \in Docs, IssueDocument(w, d) PROVE TypeOK'
    <2>1. <<d>> \in Seq(Docs) /\ <<d>> # <<>>
      OBVIOUS
    <2>2. CallOK(WorkerAt("reload", <<d>>, documents[d], <<>>))
      BY <2>1 DEF CallOK, WorkerAt
    <2>. QED  BY <1>6, <2>2, CallMoves DEF IssueDocument
  <1>7. ASSUME NEW w \in Workers, worker[w].pc # "idle",
               NEW pc \in {"idle", "stamp", "select", "selectPending"}, Goto(w, pc, <<>>),
               UNCHANGED <<documents, uploaded, blobs, removing, removed, batches, unconfirmed>>,
               aborts' \in 0 .. MaxAborts
        PROVE  TypeOK'
    <2>1. CallOK(WorkerAt(pc, worker[w].docs, worker[w].first, <<>>))
      BY <1>7 DEF CallOK, WorkerAt
    <2>. QED  BY <1>7, <2>1, CallMoves DEF Goto
  <1>8. ASSUME NEW w \in Workers PROVE AfterError(w) \in {"idle", "selectPending"}
    BY DEF AfterError
  <1>9. ASSUME NEW w \in Workers, Reload(w) PROVE TypeOK'
    BY <1>7, <1>8, <1>9 DEF Reload
  <1>10. ASSUME NEW w \in Workers, TimestampRoot(w) PROVE TypeOK'
    BY <1>7, <1>10 DEF TimestampRoot
  <1>11. ASSUME NEW w \in Workers, TimestampFails(w) PROVE TypeOK'
    <2>1. aborts' \in 0 .. MaxAborts
      BY <1>11, AnchoringBoundsAssumption DEF TimestampFails
    <2>. QED  BY <1>7, <1>8, <1>11, <2>1 DEF TimestampFails
  <1>11a. ASSUME NEW w \in Workers, ConnectionFails(w) PROVE TypeOK'
    <2>1. aborts' \in 0 .. MaxAborts /\ worker[w].pc # "idle"
      BY <1>11a, AnchoringBoundsAssumption DEF ConnectionFails
    <2>. QED  BY <1>7, <1>8, <1>11a, <2>1 DEF ConnectionFails
  <1>12. ASSUME NEW w \in Workers, RollbackAnchor(w) PROVE TypeOK'
    BY <1>7, <1>8, <1>12 DEF RollbackAnchor
  <1>13. ASSUME NEW w \in Workers, NEW pc \in {"write", "writePending"}, worker[w].pc # "idle",
                Goto(w, pc, [d \in Elements(worker[w].docs) |-> documents[d]]),
                UNCHANGED <<documents, uploaded, blobs, removing, removed, batches, unconfirmed, aborts>>
         PROVE  TypeOK'
    <2>1. CallOK(WorkerAt(pc, worker[w].docs, worker[w].first,
                          [d \in Elements(worker[w].docs) |-> documents[d]]))
      BY <1>13, SelectedType DEF CallOK, WorkerAt
    <2>. QED  BY <1>13, <2>1, CallMoves DEF Goto
  <1>14. ASSUME NEW w \in Workers, SelectForSave(w) PROVE TypeOK'
    BY <1>13, <1>14 DEF SelectForSave
  <1>15. ASSUME NEW w \in Workers, SelectForPending(w) PROVE TypeOK'
    BY <1>13, <1>15 DEF SelectForPending
  <1>16. ASSUME NEW w \in Workers, SaveAnchor(w), NEW c, CallOK(c),
                worker' = [worker EXCEPT ![w] = c],
                unconfirmed' \subseteq Docs, aborts' \in 0 .. MaxAborts
         PROVE  TypeOK'
    <2>. DEFINE docs == worker[w].docs
                selected == worker[w].selected
                b == Len(batches) + 1
    <2>1. docs \in Seq(Docs) /\ selected \in [Elements(docs) -> Rows]
      BY <1>16 DEF SaveAnchor, CallOK
    <2>2. BatchOf(w, docs) \in BatchRows /\ batches' = Append(batches, BatchOf(w, docs))
      BY <1>16, <2>1, BatchType DEF SaveAnchor
    <2>3. /\ Rows \subseteq Rows'
          /\ \A call : CallOK(call) => CallOK(call)'
          /\ batches' \in Seq(BatchRows)
      BY <2>2, RowsGrow
    <2>4. b \in 0 .. Len(batches')
      BY <2>2
    <2>5. ASSUME NEW d \in Docs PROVE documents'[d] \in Rows'
      <3>1. CASE d \in Elements(docs)
        <4>1. documents'[d] = SavedOver(documents[d], selected[d], AnchoredRow(w, docs, d, b))
          BY <1>16, <3>1 DEF SaveAnchor
        <4>2. AnchoredRow(w, docs, d, b) \in Rows'
          <5>1. ProofFor(docs, IndexOf(docs, d)) \in Seq(Docs \union {Leaf})
            BY <2>1, <3>1, IndexType, ProofType
          <5>. QED  BY <2>4, <5>1 DEF AnchoredRow, RowOf, Rows
        <4>3. documents[d] \in Rows' /\ selected[d] \in Rows'
          BY <2>1, <2>3, <3>1
        <4>4. Columns = {"status", "at", "batch", "proof"}
          BY DEF Columns, Pending, RowOf
        <4>5. Absent \in Rows'
          BY <2>3, IdleType DEF CallOK, IdleWorker, WorkerAt
        <4>. QED  BY <4>1, <4>2, <4>3, <4>4, <4>5 DEF SavedOver, Rows
      <3>2. CASE d \notin Elements(docs)
        BY <1>16, <2>3, <3>2 DEF SaveAnchor
      <3>. QED  BY <3>1, <3>2
    <2>6. documents' \in [Docs -> Rows']
      BY <1>16, <2>5 DEF SaveAnchor
    <2>7. ASSUME NEW v \in Workers PROVE CallOK(worker[v])'
      <3>1. worker'[v] = worker[v] \/ worker'[v] = c
        BY <1>16
      <3>. QED  BY <1>16, <2>3, <3>1 DEF CallOK
    <2>. QED  BY <1>16, <2>3, <2>6, <2>7 DEF SaveAnchor, CallOK, Rows, BatchRows
  <1>16a. ASSUME NEW w \in Workers, CommitAnchor(w) PROVE TypeOK'
    BY <1>16, <1>16a, IdleType DEF CommitAnchor
  <1>16b. ASSUME NEW w \in Workers, CommitLost(w) PROVE TypeOK'
    <2>1. aborts' \in 0 .. MaxAborts /\ worker[w].pc # "idle"
      BY <1>16b, AnchoringBoundsAssumption DEF CommitLost, SaveAnchor
    <2>2. worker[w].docs \in Seq(Docs) /\ Elements(worker[w].docs) \subseteq Docs
      <3>1. worker[w].docs \in Seq(Docs)
        BY DEF CallOK
      <3>. QED  BY <3>1 DEF Elements
    <2>3. CallOK(WorkerAt(AfterError(w), worker[w].docs, worker[w].first, <<>>))
      BY <1>8, <2>1 DEF CallOK, WorkerAt
    <2>. QED  BY <1>16, <1>16b, <2>1, <2>2, <2>3 DEF CommitLost, Goto
  <1>17. ASSUME NEW w \in Workers, SavePending(w) PROVE TypeOK'
    <2>. DEFINE d == worker[w].docs[1]
                selected == worker[w].selected[d]
    <2>0. worker[w].pc = "writePending"
      BY <1>17 DEF SavePending
    <2>1. d \in Elements(worker[w].docs) /\ d \in Docs
      <3>1. worker[w].docs \in Seq(Docs) /\ worker[w].docs # <<>>
        BY <2>0 DEF CallOK
      <3>2. 1 \in DOMAIN worker[w].docs
        BY <3>1
      <3>. QED  BY <3>1, <3>2 DEF Elements
    <2>2. selected \in Rows /\ documents[d] \in Rows
      <3>1. worker[w].selected \in [Elements(worker[w].docs) -> Rows]
        BY <2>0 DEF CallOK
      <3>. QED  BY <2>1, <3>1
    <2>3. DemotedRow(worker[w].first) \in Rows
      <3>1. worker[w].first \in Rows
        BY DEF CallOK
      <3>2. 0 \in 0 .. Len(batches)
        OBVIOUS
      <3>. QED  BY <3>1, <3>2 DEF DemotedRow, Rows
    <2>4. SavedOver(documents[d], selected, DemotedRow(worker[w].first)) \in Rows
      BY <2>2, <2>3, SavedOverType
    <2>5. documents' \in [Docs -> Rows]
      BY <1>17, <2>1, <2>2, <2>4 DEF SavePending
    <2>6. UNCHANGED <<uploaded, blobs, removing, removed, batches, unconfirmed, aborts>>
      BY <1>17 DEF SavePending
    <2>7. worker' = [worker EXCEPT ![w] = IdleWorker]
      BY <1>17 DEF SavePending
    <2>8. DOMAIN worker' = Workers /\ \A v \in Workers : CallOK(worker'[v])
      BY <2>7, IdleType
    <2>9. \A v \in Workers : CallOK(worker[v])'
      BY <2>6, <2>8 DEF CallOK, Rows
    <2>10. documents' \in [Docs -> Rows']
      BY <2>5, <2>6 DEF Rows
    <2>. QED  BY <2>6, <2>8, <2>9, <2>10 DEF BatchRows
  <1>18. ASSUME NEW w \in Workers, Crash(w) PROVE TypeOK'
    <2>1. aborts' \in 0 .. MaxAborts
      BY <1>18, AnchoringBoundsAssumption DEF Crash
    <2>. QED  BY <1>18, <2>1, IdleType, CallMoves DEF Crash
  <1>19. CASE UNCHANGED vars
    BY <1>19 DEF vars, Rows, CallOK, BatchRows
  <1>. QED
    BY <1>1, <1>2, <1>3, <1>4, <1>5, <1>6, <1>9, <1>10, <1>11, <1>11a, <1>12, <1>14, <1>15,
       <1>16a, <1>16b, <1>17, <1>18, <1>19 DEF Next, Anchor, Fail

\* Rows, batches and calls keep their types (document.entity.ts, anchor.service.ts).
THEOREM TypeCorrect == Spec => []TypeOK
  BY InitType, NextType, PTL DEF Spec

-----------------------------------------------------------------------------
(***************************************************************************)
(* An ANCHORED document has a timestamped batch.  With the types this is   *)
(* inductive: a save gives a column either the value the row has, or the   *)
(* value of the entity saved, and only a worker with a TSA saves ANCHORED, *)
(* in the transaction that adds its batch.                                 *)
(***************************************************************************)
\* Some timestamped batch holds the leaf of d.
HasTimestamp(d) ==
    \E b \in DOMAIN batches :
        batches[b].status = "TIMESTAMPED" /\ d \in Elements(batches[b].root)

\* Adding a batch loses no timestamp.
LEMMA TimestampsStay ==
  ASSUME batches \in Seq(BatchRows), NEW e \in BatchRows, batches' = Append(batches, e),
         NEW d, HasTimestamp(d)
  PROVE  HasTimestamp(d)'
  <1>1. PICK b \in DOMAIN batches :
           batches[b].status = "TIMESTAMPED" /\ d \in Elements(batches[b].root)
    BY DEF HasTimestamp
  <1>2. b \in DOMAIN batches' /\ batches'[b] = batches[b]
    BY <1>1
  <1>. QED  BY <1>1, <1>2 DEF HasTimestamp

\* The status a save leaves is the row's, the entity's, or that of no row.
LEMMA SavedStatus ==
  ASSUME NEW row, NEW selected, NEW mine
  PROVE  SavedOver(row, selected, mine).status \in {row.status, mine.status, "none"}
  BY DEF SavedOver, Columns, Pending, Absent, RowOf

\* The commit of a worker that anchors.
LEMMA CommitKeepsTimestamps ==
  ASSUME TypeOK, AnchoredIsTimestamped, NEW w \in Workers, SaveAnchor(w)
  PROVE  AnchoredIsTimestamped'
  <1>. DEFINE docs == worker[w].docs
              selected == worker[w].selected
              b == Len(batches) + 1
  <1>1. docs \in Seq(Docs) /\ batches \in Seq(BatchRows)
    BY DEF TypeOK, CallOK
  <1>2. BatchOf(w, docs) \in BatchRows /\ batches' = Append(batches, BatchOf(w, docs))
    BY <1>1, BatchType DEF SaveAnchor
  <1>. SUFFICES ASSUME NEW d \in Docs, documents'[d].status = "ANCHORED"
                PROVE  HasTimestamp(d)'
    BY DEF AnchoredIsTimestamped, HasTimestamp
  <1>3. CASE documents[d].status = "ANCHORED"
    <2>1. HasTimestamp(d)
      BY <1>3 DEF AnchoredIsTimestamped, HasTimestamp
    <2>. QED  BY <1>1, <1>2, <2>1, TimestampsStay
  <1>4. CASE documents[d].status # "ANCHORED"
    <2>1. d \in Elements(docs)
      BY <1>4 DEF SaveAnchor
    <2>2. documents'[d] = SavedOver(documents[d], selected[d], AnchoredRow(w, docs, d, b))
      BY <2>1 DEF SaveAnchor
    <2>3. AnchoredRow(w, docs, d, b).status = "ANCHORED"
      BY <1>4, <2>2, SavedStatus
    <2>4. w \in WithTsa
      BY <2>3 DEF AnchoredRow, RowOf
    <2>5. BatchOf(w, docs).status = "TIMESTAMPED" /\ BatchOf(w, docs).root = docs
      BY <2>4 DEF BatchOf
    <2>6. b \in DOMAIN batches' /\ batches'[b] = BatchOf(w, docs)
      BY <1>1, <1>2
    <2>. QED  BY <2>1, <2>5, <2>6 DEF HasTimestamp
  <1>. QED  BY <1>3, <1>4

\* The catch block of issueDocument.
LEMMA PendingKeepsTimestamps ==
  ASSUME TypeOK, AnchoredIsTimestamped, NEW w \in Workers, SavePending(w)
  PROVE  AnchoredIsTimestamped'
  <1>. DEFINE d == worker[w].docs[1]
              selected == worker[w].selected[d]
              mine == DemotedRow(worker[w].first)
  <1>1. worker[w].first \in Rows
    BY DEF TypeOK, CallOK
  <1>2. mine.status = "PENDING"
    BY <1>1 DEF DemotedRow, Rows
  <1>3. SavedOver(documents[d], selected, mine).status \in {documents[d].status, "PENDING", "none"}
    BY <1>2, SavedStatus
  <1>4. \A e \in Docs : documents'[e] = documents[e]
                       \/ (e = d /\ documents'[e] = SavedOver(documents[e], selected, mine))
    <2>1. DOMAIN documents = Docs
      BY DEF TypeOK
    <2>. QED  BY <2>1 DEF SavePending
  <1>5. \A e \in Docs : documents'[e].status = "ANCHORED" => documents[e].status = "ANCHORED"
    BY <1>3, <1>4
  <1>6. batches' = batches
    BY DEF SavePending
  <1>. QED  BY <1>5, <1>6 DEF AnchoredIsTimestamped, HasTimestamp

\* "A simulated timestamp never yields a real anchor": a document is ANCHORED only if
\* a batch the TSA timestamped holds its leaf, however the saves of stale entities by
\* processPending and issueDocument interleave (anchor.service.ts, notary.service.ts).
THEOREM AnchoredAlwaysTimestamped == Spec => []AnchoredIsTimestamped
  <1>1. Init => AnchoredIsTimestamped
    BY DEF Init, AnchoredIsTimestamped, Absent, RowOf
  <1>2. TypeOK /\ AnchoredIsTimestamped /\ [Next]_vars => AnchoredIsTimestamped'
    <2>. SUFFICES ASSUME TypeOK, AnchoredIsTimestamped, [Next]_vars
                  PROVE  AnchoredIsTimestamped'
      OBVIOUS
    <2>1. ASSUME batches' = batches,
                 \A d \in Docs : documents'[d].status = "ANCHORED" =>
                                     documents[d].status = "ANCHORED"
          PROVE  AnchoredIsTimestamped'
      BY <2>1 DEF AnchoredIsTimestamped
    <2>2. ASSUME NEW d \in Docs, Upload(d) PROVE AnchoredIsTimestamped'
      BY <2>1, <2>2 DEF Upload, TypeOK, Pending, RowOf
    <2>3. ASSUME NEW d \in Docs, RemoveRow(d) PROVE AnchoredIsTimestamped'
      BY <2>1, <2>3 DEF RemoveRow, TypeOK, Absent, RowOf
    <2>4. ASSUME NEW d \in Docs, RemoveObject(d) \/ AlterObject(d) PROVE AnchoredIsTimestamped'
      BY <2>1, <2>4 DEF RemoveObject, AlterObject
    <2>5. ASSUME NEW w \in Workers,
                 FindPending(w) \/ Reload(w) \/ TimestampRoot(w) \/ TimestampFails(w)
                 \/ ConnectionFails(w) \/ SelectForSave(w) \/ RollbackAnchor(w)
                 \/ SelectForPending(w) \/ Crash(w)
          PROVE  AnchoredIsTimestamped'
      BY <2>1, <2>5 DEF FindPending, Reload, TimestampRoot, TimestampFails, SelectForSave,
                        RollbackAnchor, SelectForPending, Crash, ConnectionFails
    <2>6. ASSUME NEW w \in Workers, NEW d \in Docs, IssueDocument(w, d)
          PROVE  AnchoredIsTimestamped'
      BY <2>1, <2>6 DEF IssueDocument
    <2>7. CASE UNCHANGED vars
      BY <2>1, <2>7 DEF vars
    <2>. QED
      BY <2>2, <2>3, <2>4, <2>5, <2>6, <2>7, CommitKeepsTimestamps, PendingKeepsTimestamps
         DEF Next, Anchor, Fail, CommitAnchor, CommitLost
  <1>. QED  BY <1>1, <1>2, TypeCorrect, PTL DEF Spec

-----------------------------------------------------------------------------
(***************************************************************************)
(* The columns of a row belong together, as long as no more than two calls *)
(* overlap and both have a TSA.  A save writes the columns that differ     *)
(* from the row selected, so a row stays whole if it is still the row      *)
(* selected, or if every column differs from it.  The other call can       *)
(* change a row under a save only while it is PENDING: nobody takes up a   *)
(* document that is ANCHORED, and the call that anchored it has ended,     *)
(* unless it was not told of its COMMIT: such documents are left out.      *)
(***************************************************************************)

Confirmed == Docs \ unconfirmed

\* Call w is about document d.
Holds(w, d) == worker[w].pc # "idle" /\ d \in Elements(worker[w].docs)
Saving(w) == worker[w].pc \in {"write", "writePending"}

\* The row is the evidence of one batch.
IsEvidence(d, row) ==
    /\ row.status = "ANCHORED"
    /\ row.batch \in DOMAIN batches /\ row.at = row.batch
    /\ batches[row.batch].status = "TIMESTAMPED"
    /\ batches[row.batch].token = batches[row.batch].root
    /\ row.proof # <<>> /\ VerifyMerkleProof(d, row.proof, batches[row.batch].root)
WholeRow(d, row) == row = Absent \/ row = Pending \/ IsEvidence(d, row)

\* Calls are about uploaded documents; the notary calls have loaded a PENDING row; an
\* ANCHORED document is held by one call at most; and a call about to save an ANCHORED
\* row again is the only one, and the row is still as selected, or removed.
HeldUploaded ==
    /\ \A d \in Docs, w \in Workers : Holds(w, d) => d \in Elements(uploaded)
    /\ \A d \in Docs : documents[d] # Absent => d \in Elements(uploaded)
FirstPending ==
    \A w \in Workers :
        /\ worker[w].pc # "idle" /\ w \in Issuers /\ worker[w].docs[1] \in Confirmed =>
               worker[w].first = Pending
        /\ worker[w].pc \in {"selectPending", "writePending"} => w \in Issuers
OneHolder ==
    \A d \in Confirmed, v, w \in Workers :
        documents[d].status = "ANCHORED" /\ Holds(v, d) /\ Holds(w, d) => v = w
SelectedWhole(w) ==
    Saving(w) => \A d \in Elements(worker[w].docs) \ unconfirmed :
        /\ WholeRow(d, worker[w].selected[d])
        /\ worker[w].selected[d].status = "ANCHORED" =>
               /\ documents[d] = worker[w].selected[d] \/ documents[d] = Absent
               /\ \A v \in Workers : Holds(v, d) => v = w
EvidenceInv ==
    /\ \A d \in Confirmed : WholeRow(d, documents[d])
    /\ HeldUploaded /\ FirstPending /\ OneHolder
    /\ \A w \in Workers : SelectedWhole(w)

\* The rows there may be are told apart by their status.
LEMMA Statuses ==
    /\ Absent.status = "none" /\ Pending.status = "PENDING" /\ Pending.batch = 0
    /\ Pending.at = 0 /\ Pending.proof = <<>> /\ Absent # Pending
  BY DEF Absent, Pending, RowOf

\* A save leaves the entity when the row is as selected, or all of it is new,
LEMMA SaveWhole ==
  ASSUME NEW row, NEW selected, NEW status, NEW at, NEW b, NEW p,
         row # Absent, selected # Absent,
         \/ row = selected
         \/ /\ selected.status # status /\ selected.at # at
            /\ selected.batch # b /\ selected.proof # p
  PROVE  SavedOver(row, selected, RowOf(status, at, b, p)) = RowOf(status, at, b, p)
  <1>1. Columns = {"status", "at", "batch", "proof"}
    BY DEF Columns, Pending, RowOf
  <1>2. PICK mine : mine = RowOf(status, at, b, p)
    OBVIOUS
  <1>3. /\ mine = [c \in Columns |-> mine[c]]
        /\ mine.status = status /\ mine.at = at /\ mine.batch = b /\ mine.proof = p
    BY <1>1, <1>2 DEF RowOf
  <1>4. \A c \in Columns : (IF mine[c] = selected[c] THEN row[c] ELSE mine[c]) = mine[c]
    BY <1>1, <1>3
  <1>5. SavedOver(row, selected, mine)
            = [c \in Columns |-> IF mine[c] = selected[c] THEN row[c] ELSE mine[c]]
    BY DEF SavedOver
  <1>. QED  BY <1>2, <1>3, <1>4, <1>5

\* and the row when the entity is as selected.
LEMMA SaveNothing ==
  ASSUME NEW row \in Rows, NEW selected, selected # Absent
  PROVE  SavedOver(row, selected, selected) = row
  <1>1. Columns = {"status", "at", "batch", "proof"}
    BY DEF Columns, Pending, RowOf
  <1>2. row = [c \in Columns |-> row[c]]
    BY <1>1 DEF Rows
  <1>. QED  BY <1>2 DEF SavedOver

\* Evidence remains, since batches are only added.
LEMMA EvidenceStays ==
  ASSUME batches \in Seq(BatchRows), NEW e \in BatchRows, batches' = Append(batches, e),
         NEW d, NEW row, WholeRow(d, row)
  PROVE  WholeRow(d, row)'
  <1>1. CASE IsEvidence(d, row)
    <2>1. row.batch \in DOMAIN batches' /\ batches'[row.batch] = batches[row.batch]
      BY <1>1 DEF IsEvidence
    <2>. QED  BY <1>1, <2>1 DEF WholeRow, IsEvidence
  <1>. QED  BY <1>1 DEF WholeRow

\* The proof a batch gives to a document in it.
LEMMA ProofVerifies ==
  ASSUME NEW docs \in Seq(Docs), NEW d \in Elements(docs)
  PROVE  ProofFor(docs, IndexOf(docs, d)) # <<>>
         /\ VerifyMerkleProof(d, ProofFor(docs, IndexOf(docs, d)), docs)
  <1>1. PICK i : i = IndexOf(docs, d)
    OBVIOUS
  <1>2. i \in DOMAIN docs /\ docs[i] = d
    BY <1>1 DEF IndexOf, Elements
  <1>3. PICK p : p = ProofFor(docs, i)
    OBVIOUS
  <1>4. DOMAIN p = DOMAIN docs /\ p[i] = Leaf
    BY <1>2, <1>3 DEF ProofFor
  <1>5. [p EXCEPT ![i] = d] = docs
    <2>1. [p EXCEPT ![i] = d] = [k \in DOMAIN docs |-> docs[k]]
      BY <1>2, <1>3 DEF ProofFor
    <2>2. docs = [k \in DOMAIN docs |-> docs[k]]
      OBVIOUS
    <2>. QED  BY <2>1, <2>2
  <1>6. p # <<>>
    BY <1>2, <1>4
  <1>. QED  BY <1>1, <1>2, <1>3, <1>4, <1>5, <1>6 DEF VerifyMerkleProof

\* The documents of a call.
LEMMA CallDocs ==
  ASSUME TypeOK, NEW w \in Workers
  PROVE  /\ worker[w].docs \in Seq(Docs) /\ Elements(worker[w].docs) \subseteq Docs
         /\ worker[w].pc # "idle" => worker[w].docs[1] \in Elements(worker[w].docs)
         /\ Saving(w) => \A d \in Elements(worker[w].docs) : worker[w].selected[d] \in Rows
  <1>1. CallOK(worker[w])
    BY DEF TypeOK
  <1>2. worker[w].docs \in Seq(Docs)
    BY <1>1 DEF CallOK
  <1>3. worker[w].pc # "idle" => 1 \in DOMAIN worker[w].docs
    BY <1>1, <1>2 DEF CallOK
  <1>. QED  BY <1>1, <1>2, <1>3 DEF CallOK, Elements, Saving

\* What the transaction of a call leaves in the rows of its documents.
LEMMA CommitWhole ==
  ASSUME TypeOK, EvidenceInv, Workers \subseteq WithTsa, NEW w \in Workers, SaveAnchor(w),
         NEW d \in Elements(worker[w].docs) \ unconfirmed
  PROVE  WholeRow(d, documents[d])'
  <1>1. PICK docs, b, selected, row, new :
            /\ docs = worker[w].docs /\ b = Len(batches) + 1 /\ selected = worker[w].selected[d]
            /\ row = documents[d] /\ new = documents'[d]
    OBVIOUS
  <1>2. PICK p : p = ProofFor(docs, IndexOf(docs, d))
    OBVIOUS
  <1>3. /\ docs \in Seq(Docs) /\ d \in Elements(docs) /\ d \in Docs /\ d \in Confirmed /\ selected \in Rows
        /\ Saving(w) /\ batches \in Seq(BatchRows)
    BY <1>1, CallDocs DEF SaveAnchor, Saving, TypeOK, Confirmed
  <1>4. AnchoredRow(w, docs, d, b) = RowOf("ANCHORED", b, b, p)
        /\ BatchOf(w, docs) = [root |-> docs, status |-> "TIMESTAMPED", token |-> docs]
    BY <1>2 DEF AnchoredRow, BatchOf
  <1>5. /\ batches' = Append(batches, [root |-> docs, status |-> "TIMESTAMPED", token |-> docs])
        /\ new = SavedOver(row, selected, RowOf("ANCHORED", b, b, p))
        /\ ~ Conflict(row, selected)
    BY <1>1, <1>3, <1>4 DEF SaveAnchor
  <1>6. p # <<>> /\ VerifyMerkleProof(d, p, docs)
    BY <1>2, <1>3, ProofVerifies
  <1>7. /\ b \in DOMAIN batches' /\ b # 0
        /\ batches'[b] = [root |-> docs, status |-> "TIMESTAMPED", token |-> docs]
    BY <1>1, <1>3, <1>5
  <1>8. ASSUME new = RowOf("ANCHORED", b, b, p) PROVE WholeRow(d, documents[d])'
    <2>1. /\ new.status = "ANCHORED" /\ new.at = b /\ new.batch = b /\ new.proof = p
      BY <1>8 DEF RowOf
    <2>. QED  BY <1>1, <1>6, <1>7, <2>1 DEF WholeRow, IsEvidence
  <1>9. CASE selected = Absent
    BY <1>5, <1>8, <1>9 DEF Conflict, SavedOver
  <1>10. CASE selected # Absent /\ row = Absent
    <2>1. new = Absent
      BY <1>5, <1>10 DEF SavedOver
    <2>. QED  BY <1>1, <2>1 DEF WholeRow
  <1>11. CASE selected # Absent /\ row # Absent
    <2>1. WholeRow(d, selected)
      BY <1>1, <1>3 DEF EvidenceInv, SelectedWhole
    <2>2. row = selected \/ selected = Pending
      <3>1. selected.status = "ANCHORED" => row = selected \/ row = Absent
        BY <1>1, <1>3 DEF EvidenceInv, SelectedWhole
      <3>. QED  BY <1>11, <2>1, <3>1 DEF WholeRow, IsEvidence
    <2>3. CASE row = selected
      <3>1. SavedOver(row, selected, RowOf("ANCHORED", b, b, p)) = RowOf("ANCHORED", b, b, p)
        BY <1>11, <2>3, SaveWhole
      <3>. QED  BY <1>5, <1>8, <3>1
    <2>4. CASE selected = Pending
      <3>1. /\ selected.status # "ANCHORED" /\ selected.at # b
            /\ selected.batch # b /\ selected.proof # p
        BY <1>6, <1>7, <2>4, Statuses
      <3>2. SavedOver(row, selected, RowOf("ANCHORED", b, b, p)) = RowOf("ANCHORED", b, b, p)
        BY <1>11, <3>1, SaveWhole
      <3>. QED  BY <1>5, <1>8, <3>2
    <2>. QED  BY <2>2, <2>3, <2>4
  <1>. QED  BY <1>9, <1>10, <1>11

\* What the catch block of issueDocument leaves.
LEMMA DemoteWhole ==
  ASSUME TypeOK, EvidenceInv, NEW w \in Workers, SavePending(w)
  PROVE  \A d \in Docs :
             documents'[d] = documents[d]
             \/ (d = worker[w].docs[1] /\ (d \in Confirmed => documents'[d] = Pending))
  <1>. SUFFICES ASSUME worker[w].docs[1] \in Confirmed
                PROVE  \A d \in Docs :
                           documents'[d] = documents[d]
                           \/ (documents'[d] = Pending /\ d = worker[w].docs[1])
    <2>1. \A d \in Docs : d # worker[w].docs[1] => documents'[d] = documents[d]
      BY DEF SavePending, TypeOK
    <2>. QED  BY <2>1
  <1>1. PICK d, selected, row :
            /\ d = worker[w].docs[1]
            /\ selected = worker[w].selected[d] /\ row = documents[d]
    OBVIOUS
  <1>2. /\ Saving(w) /\ worker[w].pc # "idle" /\ w \in Issuers /\ worker[w].first = Pending
        /\ d \in Elements(worker[w].docs) /\ d \in Docs /\ d \notin unconfirmed
        /\ DOMAIN documents = Docs /\ row \in Rows
    BY <1>1, CallDocs DEF SavePending, Saving, EvidenceInv, FirstPending, TypeOK, Confirmed
  <1>3. DemotedRow(Pending) = Pending
    <2>1. PICK r : r = Pending
      OBVIOUS
    <2>2. r \in [{"status", "at", "batch", "proof"} -> {"PENDING", 0, <<>>}]
          /\ r.status = "PENDING" /\ r.at = 0
      BY <2>1 DEF Pending, RowOf
    <2>3. [r EXCEPT !.status = "PENDING", !.at = 0] = r
      BY <2>2
    <2>. QED  BY <2>1, <2>3 DEF DemotedRow
  <1>4. documents' = [documents EXCEPT ![d] =
                          IF Conflict(row, selected) THEN row
                          ELSE SavedOver(row, selected, Pending)]
    BY <1>1, <1>2, <1>3 DEF SavePending
  <1>5. Conflict(row, selected) \/ SavedOver(row, selected, Pending) \in {row, Pending}
    <2>1. CASE selected = Absent
      BY <2>1 DEF SavedOver
    <2>2. CASE selected # Absent /\ row = Absent
      BY <2>2 DEF SavedOver
    <2>3. CASE selected = Pending
      BY <1>2, <2>3, SaveNothing, Statuses
    <2>4. CASE IsEvidence(d, selected) /\ selected # Absent /\ row # Absent
      <3>1. row = selected
        BY <1>1, <1>2, <2>4 DEF IsEvidence, EvidenceInv, SelectedWhole
      <3>2. SavedOver(row, selected, RowOf("PENDING", 0, 0, <<>>)) = RowOf("PENDING", 0, 0, <<>>)
        BY <2>4, <3>1, SaveWhole
      <3>. QED  BY <3>2 DEF Pending
    <2>5. WholeRow(d, selected)
      BY <1>1, <1>2 DEF EvidenceInv, SelectedWhole
    <2>. QED  BY <2>1, <2>2, <2>3, <2>4, <2>5 DEF WholeRow
  <1>. QED  BY <1>1, <1>2, <1>4, <1>5

\* A call that goes on, begins on PENDING documents, selects its rows or ends.
LEMMA CallChanges ==
  ASSUME TypeOK, EvidenceInv, NEW w \in Workers, NEW c,
         worker' = [worker EXCEPT ![w] = c],
         UNCHANGED <<documents, uploaded, batches, unconfirmed>>,
         c.pc # "idle" => /\ \A d \in Elements(c.docs) :
                                 \/ Holds(w, d) \/ documents[d].status = "PENDING"
                                 \/ d \notin Confirmed /\ documents[d] # Absent
                          /\ w \in Issuers /\ c.docs[1] \in Confirmed => c.first = Pending,
         c.pc \in {"selectPending", "writePending"} => w \in Issuers,
         c.pc \in {"write", "writePending"} =>
             \A d \in Elements(c.docs) : d \in Docs /\ Holds(w, d) /\ c.selected[d] = documents[d]
  PROVE  EvidenceInv'
  <1>1. /\ worker'[w] = c /\ documents' = documents /\ batches' = batches
        /\ uploaded' = uploaded /\ Confirmed' = Confirmed /\ unconfirmed' = unconfirmed
        /\ \A v \in Workers : v # w => worker'[v] = worker[v]
    BY DEF TypeOK, Confirmed
  <1>2. \A d, row : WholeRow(d, row)' <=> WholeRow(d, row)
    BY <1>1 DEF WholeRow, IsEvidence
  <1>3. ASSUME NEW v \in Workers, NEW d, Holds(v, d)'
        PROVE  \/ Holds(v, d)
               \/ v = w /\ documents[d].status = "PENDING"
               \/ v = w /\ d \notin Confirmed /\ documents[d] # Absent
    BY <1>1, <1>3 DEF Holds
  <1>4. (\A d \in Confirmed : WholeRow(d, documents[d]))'
    BY <1>1, <1>2 DEF EvidenceInv
  <1>5. HeldUploaded'
    BY <1>1, <1>3, Statuses DEF EvidenceInv, HeldUploaded
  <1>6. FirstPending'
    BY <1>1 DEF EvidenceInv, FirstPending
  <1>7. OneHolder'
    BY <1>1, <1>3, Statuses DEF EvidenceInv, OneHolder
  <1>8. ASSUME NEW v \in Workers PROVE SelectedWhole(v)'
    <2>1. CASE v # w
      <3>. SUFFICES ASSUME Saving(v), NEW d \in Elements(worker[v].docs) \ unconfirmed
                    PROVE  /\ WholeRow(d, worker[v].selected[d])
                           /\ worker[v].selected[d].status = "ANCHORED" =>
                                  /\ documents[d] = worker[v].selected[d] \/ documents[d] = Absent
                                  /\ \A u \in Workers : Holds(u, d)' => u = v
        BY <1>1, <1>2, <2>1 DEF SelectedWhole, Saving
      <3>1. /\ WholeRow(d, worker[v].selected[d])
            /\ worker[v].selected[d].status = "ANCHORED" =>
                   /\ documents[d] = worker[v].selected[d] \/ documents[d] = Absent
                   /\ \A u \in Workers : Holds(u, d) => u = v
        BY DEF EvidenceInv, SelectedWhole
      <3>2. d \in Confirmed
        BY CallDocs DEF Confirmed
      <3>. QED  BY <1>3, <3>1, <3>2, Statuses
    <2>2. CASE v = w
      <3>. SUFFICES ASSUME c.pc \in {"write", "writePending"}, NEW d \in Elements(c.docs) \ unconfirmed
                    PROVE  /\ WholeRow(d, c.selected[d])
                           /\ c.selected[d].status = "ANCHORED" =>
                                  /\ documents[d] = c.selected[d] \/ documents[d] = Absent
                                  /\ \A u \in Workers : Holds(u, d)' => u = w
        BY <1>1, <1>2, <2>2 DEF SelectedWhole, Saving
      <3>1. d \in Docs /\ Holds(w, d) /\ c.selected[d] = documents[d] /\ d \in Confirmed
        BY DEF Confirmed
      <3>2. ASSUME documents[d].status = "ANCHORED", NEW u \in Workers, Holds(u, d)' PROVE u = w
        BY <1>3, <3>1, <3>2, Statuses DEF EvidenceInv, OneHolder
      <3>3. WholeRow(d, documents[d])
        BY <3>1 DEF EvidenceInv
      <3>. QED  BY <3>1, <3>2, <3>3
    <2>. QED  BY <2>1, <2>2
  <1>. QED  BY <1>4, <1>5, <1>6, <1>7, <1>8 DEF EvidenceInv

\* Every call moves in one of the ways of CallChanges, but for the two that write.
LEMMA CallsKeepEvidence ==
  ASSUME TypeOK, EvidenceInv, NEW w \in Workers,
         \/ FindPending(w) \/ (\E d \in Docs : IssueDocument(w, d))
         \/ Reload(w) \/ TimestampRoot(w) \/ TimestampFails(w) \/ RollbackAnchor(w)
         \/ ConnectionFails(w) \/ SelectForSave(w) \/ SelectForPending(w) \/ Crash(w)
  PROVE  EvidenceInv'
  <1>0. /\ \A d \in Confirmed : WholeRow(d, documents[d])
        /\ worker[w].pc # "idle" /\ w \in Issuers /\ worker[w].docs[1] \in Confirmed =>
               worker[w].first = Pending
        /\ worker[w].pc \in {"selectPending", "writePending"} => w \in Issuers
    BY DEF EvidenceInv, FirstPending
  <1>1. CASE FindPending(w)
    <2>1. PICK n \in 1 .. MaxLeaves : \E docs \in [1 .. n -> Docs] :
              /\ AreOldestPending(docs)
              /\ worker' = [worker EXCEPT ![w] = WorkerAt("stamp", docs, Absent, <<>>)]
      BY <1>1 DEF FindPending
    <2>2. PICK docs \in [1 .. n -> Docs] :
              /\ AreOldestPending(docs)
              /\ worker' = [worker EXCEPT ![w] = WorkerAt("stamp", docs, Absent, <<>>)]
      BY <2>1
    <2>3. PICK c : c = WorkerAt("stamp", docs, Absent, <<>>)
      OBVIOUS
    <2>4. c.pc = "stamp" /\ c.docs = docs /\ worker' = [worker EXCEPT ![w] = c]
      BY <2>2, <2>3 DEF WorkerAt
    <2>5. ASSUME NEW d \in Elements(docs) PROVE documents[d].status = "PENDING"
      BY <2>2 DEF AreOldestPending, IsPending, Elements
    <2>6. w \notin Issuers
      BY <1>1, WorkersAssumption DEF FindPending
    <2>. QED  BY <1>1, <2>4, <2>5, <2>6, CallChanges DEF FindPending
  <1>2. ASSUME NEW d \in Docs, IssueDocument(w, d) PROVE EvidenceInv'
    <2>1. PICK c : c = WorkerAt("reload", <<d>>, documents[d], <<>>)
      OBVIOUS
    <2>2. /\ c.pc = "reload" /\ c.docs = <<d>> /\ c.first = documents[d]
          /\ worker' = [worker EXCEPT ![w] = c]
      BY <1>2, <2>1 DEF IssueDocument, WorkerAt
    <2>3. documents[d] # Absent /\ (d \in Confirmed => documents[d] = Pending)
      <3>1. ~ IsEvidence(d, documents[d])
        <4>1. batches \in Seq(BatchRows)
          BY DEF TypeOK
        <4>. QED  BY <1>2, <4>1 DEF IssueDocument, IsEvidence, IsIssued
      <3>. QED  BY <1>0, <1>2, <3>1 DEF IssueDocument, WholeRow
    <2>4. Elements(c.docs) = {d} /\ c.docs[1] = d
      BY <2>2 DEF Elements
    <2>5. \A e \in Elements(c.docs) : \/ documents[e].status = "PENDING"
                                      \/ e \notin Confirmed /\ documents[e] # Absent
      BY <2>3, <2>4, Statuses
    <2>6. w \in Issuers /\ c.docs[1] \in Confirmed => c.first = Pending
      BY <2>2, <2>3, <2>4
    <2>7. UNCHANGED <<documents, uploaded, batches, unconfirmed>>
      BY <1>2 DEF IssueDocument
    <2>. QED  BY <2>2, <2>5, <2>6, <2>7, CallChanges
  <1>3. ASSUME worker[w].pc # "idle", NEW pc \in {"idle", "stamp", "select", "selectPending"},
               pc = "selectPending" => w \in Issuers, Goto(w, pc, <<>>),
               UNCHANGED <<documents, uploaded, batches, unconfirmed>>
        PROVE  EvidenceInv'
    <2>1. PICK c : c = WorkerAt(pc, worker[w].docs, worker[w].first, <<>>)
      OBVIOUS
    <2>2. /\ c.pc = pc /\ c.docs = worker[w].docs /\ c.first = worker[w].first
          /\ worker' = [worker EXCEPT ![w] = c]
      BY <1>3, <2>1 DEF Goto, WorkerAt, TypeOK
    <2>3. \A d \in Elements(c.docs) : Holds(w, d)
      BY <1>3, <2>2 DEF Holds
    <2>. QED  BY <1>0, <1>3, <2>2, <2>3, CallChanges
  <1>4. /\ AfterError(w) \in {"idle", "stamp", "select", "selectPending"}
        /\ AfterError(w) = "selectPending" => w \in Issuers
    BY DEF AfterError
  <1>5. CASE Reload(w) \/ TimestampRoot(w) \/ TimestampFails(w) \/ RollbackAnchor(w)
    BY <1>3, <1>4, <1>5 DEF Reload, TimestampRoot, TimestampFails, RollbackAnchor
  <1>5a. CASE ConnectionFails(w)
    BY <1>3, <1>4, <1>5a DEF ConnectionFails
  <1>6. ASSUME NEW pc \in {"write", "writePending"}, worker[w].pc # "idle",
               pc = "writePending" => w \in Issuers,
               Goto(w, pc, [d \in Elements(worker[w].docs) |-> documents[d]]),
               UNCHANGED <<documents, uploaded, batches, unconfirmed>>
        PROVE  EvidenceInv'
    <2>1. PICK c : c = WorkerAt(pc, worker[w].docs, worker[w].first,
                                [d \in Elements(worker[w].docs) |-> documents[d]])
      OBVIOUS
    <2>2. /\ c.pc = pc /\ c.docs = worker[w].docs /\ c.first = worker[w].first
          /\ c.selected = [d \in Elements(worker[w].docs) |-> documents[d]]
          /\ worker' = [worker EXCEPT ![w] = c]
      BY <1>6, <2>1 DEF Goto, WorkerAt, TypeOK
    <2>3. \A d \in Elements(c.docs) : d \in Docs /\ Holds(w, d) /\ c.selected[d] = documents[d]
      BY <1>6, <2>2, CallDocs DEF Holds
    <2>. QED  BY <1>0, <1>6, <2>2, <2>3, CallChanges
  <1>7. CASE SelectForSave(w)
    BY <1>6, <1>7 DEF SelectForSave
  <1>8. CASE SelectForPending(w)
    <2>1. w \in Issuers
      BY <1>0, <1>8 DEF SelectForPending
    <2>. QED  BY <1>6, <1>8, <2>1 DEF SelectForPending
  <1>9. CASE Crash(w)
    <2>1. IdleWorker.pc = "idle" /\ worker' = [worker EXCEPT ![w] = IdleWorker]
      BY <1>9 DEF Crash, IdleWorker, WorkerAt
    <2>. QED  BY <1>9, <2>1, CallChanges DEF Crash
  <1>. QED  BY <1>1, <1>2, <1>5, <1>5a, <1>7, <1>8, <1>9

\* The call that writes ends: nothing but its rows has changed, which the other call
\* has not selected as ANCHORED, since this one held them too.
WritesWhole(w) ==
    /\ worker[w].pc # "idle" /\ worker' = [worker EXCEPT ![w] = IdleWorker]
    /\ uploaded' = uploaded /\ unconfirmed' = unconfirmed
    /\ \A d, row : WholeRow(d, row) => WholeRow(d, row)'
    /\ \A d \in Docs : \/ documents'[d] = documents[d]
                       \/ /\ d \in Elements(worker[w].docs)
                          /\ d \in Confirmed => WholeRow(d, documents[d])'
    /\ \A u, v \in Workers \ {w} : u = v

LEMMA WriteEnds ==
  ASSUME TypeOK, EvidenceInv, NEW w \in Workers, WritesWhole(w)
  PROVE  EvidenceInv'
  <1>. USE DEF WritesWhole
  <1>1. /\ worker'[w].pc = "idle" /\ \A v \in Workers : v # w => worker'[v] = worker[v]
    BY DEF TypeOK, IdleWorker, WorkerAt
  <1>2. ASSUME NEW v \in Workers, NEW d, Holds(v, d)' PROVE Holds(v, d) /\ v # w
    BY <1>1, <1>2 DEF Holds
  <1>0. Confirmed' = Confirmed /\ Confirmed \subseteq Docs
    BY DEF Confirmed
  <1>3. (\A d \in Confirmed : WholeRow(d, documents[d]))'
    BY <1>0 DEF EvidenceInv
  <1>4. \A d \in Elements(worker[w].docs) : Holds(w, d)
    BY DEF Holds
  <1>5. HeldUploaded'
    BY <1>2, <1>4 DEF EvidenceInv, HeldUploaded
  <1>6. FirstPending'
    BY <1>0, <1>1 DEF EvidenceInv, FirstPending
  <1>7. OneHolder'
    BY <1>0, <1>2 DEF EvidenceInv, OneHolder
  <1>8. ASSUME NEW v \in Workers PROVE SelectedWhole(v)'
    <2>. SUFFICES ASSUME v # w, Saving(v), NEW d \in Elements(worker[v].docs) \ unconfirmed
                  PROVE  /\ WholeRow(d, worker[v].selected[d])'
                         /\ worker[v].selected[d].status = "ANCHORED" =>
                                /\ documents'[d] = worker[v].selected[d] \/ documents'[d] = Absent
                                /\ \A u \in Workers : Holds(u, d)' => u = v
      BY <1>1 DEF SelectedWhole, Saving
    <2>0. PICK selected : selected = worker[v].selected[d]
      OBVIOUS
    <2>1. /\ WholeRow(d, selected)
          /\ selected.status = "ANCHORED" =>
                 /\ documents[d] = selected \/ documents[d] = Absent
                 /\ \A u \in Workers : Holds(u, d) => u = v
      BY <2>0 DEF EvidenceInv, SelectedWhole
    <2>2. d \in Docs
      BY CallDocs
    <2>3. worker'[v] = worker[v] /\ WholeRow(d, selected)'
      BY <1>1, <2>1
    <2>4. WholeRow(d, worker[v].selected[d])'
      BY <2>0, <2>3 DEF WholeRow, IsEvidence
    <2>5. selected.status = "ANCHORED" => documents'[d] = documents[d]
      BY <1>4, <2>1, <2>2
    <2>. QED  BY <1>2, <2>0, <2>1, <2>4, <2>5
  <1>. QED  BY <1>3, <1>5, <1>6, <1>7, <1>8 DEF EvidenceInv

\* Its batch takes no evidence away.
LEMMA RowsStayWhole ==
  ASSUME TypeOK, NEW w \in Workers, SaveAnchor(w), NEW d, NEW row, WholeRow(d, row)
  PROVE  WholeRow(d, row)'
  <1>1. worker[w].docs \in Seq(Docs) /\ batches \in Seq(BatchRows)
    BY CallDocs DEF TypeOK
  <1>2. PICK e : e = BatchOf(w, worker[w].docs)
    OBVIOUS
  <1>3. e \in BatchRows /\ batches' = Append(batches, e)
    BY <1>1, <1>2, BatchType DEF SaveAnchor
  <1>. QED  BY <1>1, <1>3, EvidenceStays

\* A notary call that is not told of its COMMIT goes on with a document that is left out.
LEMMA LostKeepsEvidence ==
  ASSUME TypeOK, EvidenceInv, NEW w \in Workers, CommitLost(w)
  PROVE  EvidenceInv'
  <1>1. /\ SaveAnchor(w) /\ w \in Issuers /\ worker[w].pc = "write"
        /\ uploaded' = uploaded
        /\ unconfirmed' = unconfirmed \union Elements(worker[w].docs)
    BY DEF CommitLost, SaveAnchor
  <1>2. /\ worker'[w].pc = "selectPending" /\ worker'[w].docs = worker[w].docs
        /\ \A v \in Workers : v # w => worker'[v] = worker[v]
    BY <1>1 DEF CommitLost, Goto, AfterError, WorkerAt, TypeOK
  <1>3. \A d \in Confirmed' : /\ d \in Confirmed /\ d \in Docs /\ d \notin Elements(worker[w].docs)
                              /\ documents'[d] = documents[d]
    BY <1>1 DEF SaveAnchor, Confirmed
  <1>4. \A v \in Workers : \A d : Holds(v, d)' <=> Holds(v, d)
    BY <1>1, <1>2 DEF Holds
  <1>5. \A d, row : WholeRow(d, row) => WholeRow(d, row)'
    BY <1>1, RowsStayWhole
  <1>6. (\A d \in Confirmed : WholeRow(d, documents[d]))'
    <2>. SUFFICES ASSUME NEW d \in Confirmed' PROVE WholeRow(d, documents[d])'
      OBVIOUS
    <2>1. WholeRow(d, documents[d]) /\ documents'[d] = documents[d]
      BY <1>3 DEF EvidenceInv
    <2>2. PICK row : row = documents[d]
      OBVIOUS
    <2>3. WholeRow(d, row)'
      BY <1>5, <2>1, <2>2
    <2>. QED  BY <2>1, <2>2, <2>3 DEF WholeRow, IsEvidence
  <1>7. HeldUploaded'
    <2>1. \A d \in Docs : documents'[d] = documents[d] \/ Holds(w, d)
      BY <1>1 DEF SaveAnchor, Holds
    <2>. QED  BY <1>1, <1>4, <2>1 DEF EvidenceInv, HeldUploaded
  <1>8. FirstPending'
    <2>1. worker[w].docs[1] \in Elements(worker[w].docs)
      BY <1>1, CallDocs
    <2>. QED  BY <1>1, <1>2, <1>3, <2>1 DEF EvidenceInv, FirstPending
  <1>9. OneHolder'
    BY <1>3, <1>4 DEF EvidenceInv, OneHolder
  <1>10. ASSUME NEW v \in Workers PROVE SelectedWhole(v)'
    <2>. SUFFICES ASSUME v # w, Saving(v), NEW d \in Elements(worker[v].docs) \ unconfirmed'
                  PROVE  /\ WholeRow(d, worker[v].selected[d])'
                         /\ worker[v].selected[d].status = "ANCHORED" =>
                                /\ documents'[d] = worker[v].selected[d] \/ documents'[d] = Absent
                                /\ \A u \in Workers : Holds(u, d) => u = v
      BY <1>2, <1>4 DEF SelectedWhole, Saving
    <2>1. PICK selected : selected = worker[v].selected[d]
      OBVIOUS
    <2>2. d \notin unconfirmed /\ d \in Confirmed'
      BY <1>1, CallDocs DEF Confirmed
    <2>3. /\ WholeRow(d, selected)
          /\ selected.status = "ANCHORED" =>
                 /\ documents[d] = selected \/ documents[d] = Absent
                 /\ \A u \in Workers : Holds(u, d) => u = v
      BY <2>1, <2>2 DEF EvidenceInv, SelectedWhole
    <2>4. WholeRow(d, selected)' /\ documents'[d] = documents[d] /\ worker'[v] = worker[v]
      BY <1>2, <1>3, <1>5, <2>2, <2>3
    <2>5. WholeRow(d, worker[v].selected[d])'
      BY <2>1, <2>4 DEF WholeRow, IsEvidence
    <2>. QED  BY <2>1, <2>3, <2>4, <2>5
  <1>. QED  BY <1>6, <1>7, <1>8, <1>9, <1>10 DEF EvidenceInv

\* Uploads and removals change rows that no call holds, or take them away.
LEMMA UsersKeepEvidence ==
  ASSUME TypeOK, EvidenceInv, NEW d0 \in Docs, Upload(d0) \/ RemoveRow(d0)
  PROVE  EvidenceInv'
  <1>1. /\ worker' = worker /\ batches' = batches /\ unconfirmed' = unconfirmed
        /\ Confirmed' = Confirmed /\ Confirmed \subseteq Docs
        /\ \A d \in Docs : d # d0 => documents'[d] = documents[d]
        /\ documents'[d0] = Absent \/ (documents'[d0] = Pending /\ Upload(d0))
    BY DEF Upload, RemoveRow, TypeOK, Confirmed
  <1>2. /\ \A d \in Elements(uploaded) : d \in Elements(uploaded')
        /\ Upload(d0) => d0 \in Elements(uploaded')
    <2>1. uploaded \in Seq(Docs)
      BY DEF TypeOK
    <2>2. CASE ~ Upload(d0)
      <3>1. uploaded' = uploaded
        BY <2>2 DEF RemoveRow
      <3>. QED  BY <2>2, <3>1
    <2>3. CASE Upload(d0)
      <3>0. uploaded' = Append(uploaded, d0)
        BY <2>3 DEF Upload
      <3>1. /\ Len(uploaded) + 1 \in DOMAIN uploaded' /\ uploaded'[Len(uploaded) + 1] = d0
            /\ \A i \in DOMAIN uploaded : i \in DOMAIN uploaded' /\ uploaded'[i] = uploaded[i]
        BY <2>1, <3>0
      <3>. QED  BY <3>1 DEF Elements
    <2>. QED  BY <2>2, <2>3
  <1>3. Upload(d0) => \A v \in Workers : ~ Holds(v, d0)
    BY DEF Upload, EvidenceInv, HeldUploaded
  <1>4. /\ \A v, d : Holds(v, d)' <=> Holds(v, d)
        /\ \A d, row : WholeRow(d, row)' <=> WholeRow(d, row)
    BY <1>1 DEF Holds, WholeRow, IsEvidence
  <1>5. (\A d \in Confirmed : WholeRow(d, documents[d]))'
    <2>. SUFFICES ASSUME NEW d \in Confirmed PROVE WholeRow(d, documents[d])'
      BY <1>1
    <2>1. CASE d # d0
      BY <1>1, <2>1 DEF EvidenceInv, WholeRow, IsEvidence
    <2>2. CASE d = d0
      BY <1>1, <2>2 DEF WholeRow
    <2>. QED  BY <2>1, <2>2
  <1>6. HeldUploaded'
    BY <1>1, <1>2, <1>4 DEF EvidenceInv, HeldUploaded
  <1>7. FirstPending'
    BY <1>1 DEF EvidenceInv, FirstPending
  <1>8. OneHolder'
    BY <1>1, <1>4, Statuses DEF EvidenceInv, OneHolder
  <1>9. ASSUME NEW v \in Workers PROVE SelectedWhole(v)'
    <2>. SUFFICES ASSUME Saving(v), NEW d \in Elements(worker[v].docs) \ unconfirmed
                  PROVE  /\ WholeRow(d, worker[v].selected[d])
                         /\ worker[v].selected[d].status = "ANCHORED" =>
                                /\ documents'[d] = worker[v].selected[d] \/ documents'[d] = Absent
                                /\ \A u \in Workers : Holds(u, d) => u = v
      BY <1>1, <1>4 DEF SelectedWhole, Saving
    <2>1. Holds(v, d) /\ d \in Docs
      BY CallDocs DEF Holds, Saving
    <2>. QED  BY <1>1, <1>3, <2>1 DEF EvidenceInv, SelectedWhole
  <1>. QED  BY <1>5, <1>6, <1>7, <1>8, <1>9 DEF EvidenceInv

LEMMA EvidenceInductive ==
  ASSUME \A u, v, w \in Workers : u = v \/ u = w \/ v = w, Workers \subseteq WithTsa,
         TypeOK, EvidenceInv, [Next]_vars
  PROVE  EvidenceInv'
  <1>1. ASSUME NEW d \in Docs, Upload(d) \/ RemoveRow(d) PROVE EvidenceInv'
    BY <1>1, UsersKeepEvidence
  <1>2. ASSUME UNCHANGED <<documents, uploaded, batches, worker, unconfirmed>> PROVE EvidenceInv'
    BY <1>2 DEF EvidenceInv, HeldUploaded, FirstPending, OneHolder, SelectedWhole, Saving,
           Holds, WholeRow, IsEvidence, Confirmed
  <1>3. ASSUME NEW d \in Docs, RemoveObject(d) \/ AlterObject(d) PROVE EvidenceInv'
    BY <1>2, <1>3 DEF RemoveObject, AlterObject
  <1>4. ASSUME NEW w \in Workers, CommitAnchor(w) PROVE EvidenceInv'
    <2>2. \A d, row : WholeRow(d, row) => WholeRow(d, row)'
      BY <1>4, RowsStayWhole DEF CommitAnchor
    <2>3. \A d \in Docs : documents'[d] = documents[d]
                          \/ /\ d \in Elements(worker[w].docs)
                             /\ d \in Confirmed => WholeRow(d, documents[d])'
      <3>1. \A d \in Elements(worker[w].docs) \ unconfirmed : WholeRow(d, documents[d])'
        BY <1>4, CommitWhole DEF CommitAnchor
      <3>. QED  BY <1>4, <3>1 DEF CommitAnchor, SaveAnchor, Confirmed
    <2>4. \A u, v \in Workers \ {w} : u = v
      OBVIOUS
    <2>5. /\ worker[w].pc # "idle" /\ uploaded' = uploaded /\ unconfirmed' = unconfirmed
          /\ worker' = [worker EXCEPT ![w] = IdleWorker]
      BY <1>4 DEF CommitAnchor, SaveAnchor
    <2>. QED  BY <2>2, <2>3, <2>4, <2>5, WriteEnds DEF WritesWhole
  <1>5. ASSUME NEW w \in Workers, SavePending(w) PROVE EvidenceInv'
    <2>1. \A d \in Docs : documents'[d] = documents[d]
                          \/ /\ d = worker[w].docs[1]
                             /\ d \in Confirmed => documents'[d] = Pending
      BY <1>5, DemoteWhole
    <2>2. \A d, row : WholeRow(d, row) => WholeRow(d, row)'
      BY <1>5 DEF SavePending, WholeRow, IsEvidence
    <2>3. \A d \in Docs : documents'[d] = documents[d]
                          \/ /\ d \in Elements(worker[w].docs)
                             /\ d \in Confirmed => WholeRow(d, documents[d])'
      <3>1. worker[w].docs[1] \in Elements(worker[w].docs)
        BY <1>5, CallDocs DEF SavePending
      <3>. QED  BY <2>1, <3>1 DEF WholeRow
    <2>4. \A u, v \in Workers \ {w} : u = v
      OBVIOUS
    <2>5. /\ worker[w].pc # "idle" /\ uploaded' = uploaded /\ unconfirmed' = unconfirmed
          /\ worker' = [worker EXCEPT ![w] = IdleWorker]
      BY <1>5 DEF SavePending
    <2>. QED  BY <2>2, <2>3, <2>4, <2>5, WriteEnds DEF WritesWhole
  <1>6. CASE UNCHANGED vars
    BY <1>2, <1>6 DEF vars
  <1>. QED
    BY <1>1, <1>3, <1>4, <1>5, <1>6, CallsKeepEvidence, LostKeepsEvidence DEF Next, Anchor, Fail

LEMMA EvidenceInit == Init => EvidenceInv
  BY Statuses DEF Init, Confirmed, EvidenceInv, WholeRow, HeldUploaded, FirstPending, OneHolder,
     SelectedWhole, Saving, Holds, IdleWorker, WorkerAt

\* With at most two overlapping calls, both with a TSA, crons or notary calls, the
\* columns of a document belong together: verification finds evidence exactly for the
\* documents shown as ANCHORED, and calls one MODIFIED only if its object was altered.
\* Lost connections and crashes included, but for a document that a notary call anchored
\* without being told (run lost_acknowledgement).  Three calls refute it (anchoring_race).
THEOREM IssuedVerifiesWithTwoCalls ==
  ASSUME \A u, v, w \in Workers : u = v \/ u = w \/ v = w, Workers \subseteq WithTsa
  PROVE  Spec => []IssuedVerifies
  <1>1. TypeOK /\ EvidenceInv => IssuedVerifies
    <2>. SUFFICES ASSUME TypeOK, EvidenceInv, NEW d \in Verifiable \ unconfirmed
                  PROVE  /\ documents[d].status = "ANCHORED" <=> VerifyDocument(d) # "NOT_ANCHORED"
                         /\ VerifyDocument(d) = "MODIFIED" => blobs[d] = "altered"
      BY DEF IssuedVerifies, Coherent
    <2>1. PICK row : row = documents[d]
      OBVIOUS
    <2>2. /\ row # Absent /\ blobs[d] \in {"original", "altered"} /\ WholeRow(d, row)
          /\ batches \in Seq(BatchRows)
      BY <2>1 DEF Verifiable, TypeOK, EvidenceInv, Confirmed
    <2>3. CASE row = Pending
      <3>1. ~ IsAnchored(row) /\ row.status # "ANCHORED"
        BY <2>3, Statuses DEF IsAnchored
      <3>. QED  BY <2>1, <3>1 DEF VerifyDocument
    <2>4. CASE IsEvidence(d, row)
      <3>1. /\ IsAnchored(row) /\ row.status = "ANCHORED"
            /\ VerifyMerkleProof(d, row.proof, batches[row.batch].root)
            /\ batches[row.batch].token = batches[row.batch].root
        BY <2>2, <2>4 DEF IsEvidence, IsAnchored
      <3>. QED  BY <2>1, <2>2, <3>1 DEF VerifyDocument
    <2>. QED  BY <2>2, <2>3, <2>4 DEF WholeRow
  <1>2. TypeOK /\ EvidenceInv /\ [Next]_vars => EvidenceInv'
    BY EvidenceInductive
  <1>. QED  BY <1>1, <1>2, EvidenceInit, TypeCorrect, PTL DEF Spec
=============================================================================
