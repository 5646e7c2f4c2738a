------------------------ MODULE ChainVerifierProofs ------------------------
(***************************************************************************)
(* The walk of verifyScope computes the verdict on its snapshot, for every *)
(* table and every page size.                                              *)
(***************************************************************************)
EXTENDS ChainVerifier, FiniteSetTheorems, TLAPS

\* What the unique index and the bigint column keep of any table.
GoodRows(rows) == (\A r \in rows : r.seq \in Nat \ {0}) /\ UniqueSeq(rows)

\* The running state describes the verified prefix of the snapshot.
PrefixVerified ==
    /\ cursor \in Nat
    /\ state.checked = cursor
    /\ state.headSeq = cursor
    /\ state.expectedSeq = cursor + 1
    /\ state.prevChainHash = headHash
    /\ VerifiedTo(snapshot, cursor)
    /\ IsHashAt(snapshot, cursor, headHash)

\* The page holds the lowest of the rows not yet verified, all of them when it
\* is the last page.
PageIsNext ==
    pc = "step" =>
        /\ batch # {}
        /\ batch \subseteq RowsAbove
        /\ \A r \in batch, q \in RowsAbove \ batch : r.seq < q.seq
        /\ lastPage => batch = RowsAbove

\* The inductive invariant.
WalkInv ==
    /\ GoodRows(stored)
    /\ pc = "begin" => cursor = 0 /\ state = InitialChainState /\ headHash = NoHash
    /\ pc # "begin" => GoodRows(snapshot)
    /\ pc \in {"fetch", "step", "return"} => PrefixVerified
    /\ PageIsNext
    /\ pc = "return" => RowsAbove = {}
    /\ VerdictOfSnapshot

-----------------------------------------------------------------------------
\* The rows of a page and of an accepted row.
LEMMA MadeRowSeq ==
    ASSUME NEW seq, NEW id, NEW e, NEW prevHash
    PROVE  MakeRow(CurrentSchemaVersion, Scope, seq, id, e, prevHash).seq = seq
  BY DEF MakeRow, Rehashed

\* A row with no break is the next link of the verified prefix.
LEMMA AcceptedRowLinks ==
    ASSUME GoodRows(snapshot), PrefixVerified,
           NEW row \in RowsAbove,
           BreakReason(state, row) = "NONE"
    PROVE  /\ row.seq = cursor + 1
           /\ VerifiedTo(snapshot, cursor + 1)
           /\ IsHashAt(snapshot, cursor + 1, row.chainHash)
  <1> USE DEF PrefixVerified
  <1>1. /\ row \in snapshot
        /\ row.seq \in Nat \ {0}
      BY DEF RowsAbove, GoodRows
  <1>2. /\ row.seq = cursor + 1
        /\ row.prevHash = IF cursor = 0 THEN NoHash ELSE headHash
        /\ SelfConsistent(row)
      BY DEF BreakReason, SelfConsistent
  <1>3. LinkedAt(snapshot, cursor + 1)
      BY <1>1, <1>2 DEF LinkedAt, IsHashAt
  <1>4. VerifiedTo(snapshot, cursor + 1)
      BY <1>3 DEF VerifiedTo
  <1>5. IsHashAt(snapshot, cursor + 1, row.chainHash)
      BY <1>1, <1>2 DEF IsHashAt
  <1>6. QED
      BY <1>2, <1>4, <1>5

\* A break at the lowest row not yet verified means the prefix ends here.
LEMMA RejectedRowEndsPrefix ==
    ASSUME GoodRows(snapshot), PrefixVerified,
           NEW row \in RowsAbove, \A q \in RowsAbove : row.seq <= q.seq,
           BreakReason(state, row) # "NONE"
    PROVE  ~LinkedAt(snapshot, cursor + 1)
  <1> SUFFICES ASSUME LinkedAt(snapshot, cursor + 1) PROVE FALSE
    OBVIOUS
  <1> USE DEF PrefixVerified
  <1>1. PICK r \in snapshot :
            /\ r.seq = cursor + 1
            /\ SelfConsistent(r)
            /\ IF cursor + 1 = 1 THEN r.prevHash = NoHash
               ELSE \E p \in snapshot : p.seq = (cursor + 1) - 1 /\ r.prevHash = p.chainHash
    BY DEF LinkedAt
  <1>2. row = r
    <2>1. r \in RowsAbove
      BY <1>1 DEF RowsAbove
    <2>2. row \in snapshot /\ row.seq = cursor + 1
      BY <1>1, <2>1 DEF RowsAbove, GoodRows
    <2>3. QED
      BY <1>1, <2>2 DEF GoodRows, UniqueSeq
  <1>3. cursor # 0 => row.prevHash = headHash
    BY <1>1, <1>2 DEF IsHashAt, GoodRows, UniqueSeq
  <1>4. cursor = 0 => row.prevHash = NoHash
    BY <1>1, <1>2
  <1>5. BreakReason(state, row) = "NONE"
    BY <1>1, <1>2, <1>3, <1>4 DEF BreakReason, SelfConsistent
  <1>6. QED
    BY <1>5

\* The table stays one the unique index allows.
LEMMA TableStep == WalkInv /\ [Next]_vars => GoodRows(stored')
  <1> SUFFICES ASSUME WalkInv, [Next]_vars PROVE GoodRows(stored')
    OBVIOUS
  <1> USE DEF WalkInv
  <1>1. CASE TableChanges
    <2>1. CASE AppendRow
      <3>1. PICK row : /\ stored' = stored \union {row}
                       /\ row.seq \in Nat \ {0}
                       /\ \A r \in stored : r.seq < row.seq
        BY <2>1, MadeRowSeq DEF AppendRow, Newest, GoodRows
      <3>2. QED
        BY <3>1 DEF GoodRows, UniqueSeq
    <2>2. CASE DeleteNewest
      BY <2>2 DEF DeleteNewest, GoodRows, UniqueSeq
    <2>3. QED
      BY <1>1, <2>1, <2>2 DEF TableChanges
  <1>2. CASE ~TableChanges
    BY <1>2 DEF Next, Walk, Begin, FetchPage, StepRow, Return, Finished, vars
  <1>3. QED
    BY <1>1, <1>2

\* Reading a page: either it holds the lowest rows left, or nothing is left.
LEMMA FetchStep == WalkInv /\ FetchPage => (PageIsNext /\ (pc = "return" => RowsAbove = {}))'
  <1> SUFFICES ASSUME WalkInv, FetchPage
               PROVE  (PageIsNext /\ (pc = "return" => RowsAbove = {}))'
    OBVIOUS
  <1>1. PICK page \in SUBSET RowsAbove :
            /\ IsPage(page, RowsAbove)
            /\ batch' = page
            /\ lastPage' = (Cardinality(page) < BatchSize)
            /\ pc' = AfterPage(page)
    BY DEF FetchPage
  <1>2. RowsAbove' = RowsAbove
    BY DEF FetchPage, RowsAbove
  <1>3. Cardinality(page) < BatchSize => page = RowsAbove
    BY <1>1, BatchSizeAssumption DEF IsPage
  <1>4. page = {} => RowsAbove = {}
    <2>1. Cardinality({}) = 0
      BY FS_EmptySet
    <2>2. QED
      BY <1>3, <2>1, BatchSizeAssumption
  <1>5. \A r \in page, q \in RowsAbove \ page : r.seq < q.seq
    BY <1>1 DEF IsPage
  <1>6. QED
    BY <1>1, <1>2, <1>3, <1>4, <1>5 DEF PageIsNext, AfterPage

\* Verifying a row: the prefix grows by it, or the walk ends with the verdict.
LEMMA RowStep ==
    WalkInv /\ StepRow =>
        /\ pc' # "done" => PrefixVerified'
        /\ PageIsNext'
        /\ (pc = "return" => RowsAbove = {})'
        /\ VerdictOfSnapshot'
  <1> SUFFICES ASSUME WalkInv, StepRow
               PROVE  /\ pc' # "done" => PrefixVerified'
                      /\ PageIsNext'
                      /\ (pc = "return" => RowsAbove = {})'
                      /\ VerdictOfSnapshot'
    OBVIOUS
  <1> USE DEF WalkInv
  <1>1. /\ pc = "step" /\ snapshot' = snapshot /\ lastPage' = lastPage
        /\ GoodRows(snapshot) /\ PrefixVerified
    BY DEF StepRow
  <1>2. PICK row \in batch :
            /\ \A r \in batch : row.seq <= r.seq
            /\ LET reason == BreakReason(state, row)
               IN  IF reason # "NONE"
                   THEN /\ result' = [status |-> "BROKEN", checked |-> state.checked,
                                      headSeq |-> state.headSeq, headHash |-> headHash,
                                      reason |-> reason]
                        /\ pc' = "done"
                        /\ UNCHANGED <<batch, state, headHash, cursor>>
                   ELSE /\ state' = Advance(state, row)
                        /\ headHash' = row.chainHash
                        /\ cursor' = row.seq
                        /\ batch' = batch \ {row}
                        /\ pc' = IF batch' # {} THEN "step"
                                 ELSE IF lastPage THEN "return" ELSE "fetch"
                        /\ UNCHANGED result
    BY DEF StepRow
  <1>3. /\ row \in RowsAbove /\ batch \subseteq RowsAbove
        /\ \A q \in RowsAbove : row.seq <= q.seq
        /\ \A r \in batch, q \in RowsAbove \ batch : r.seq < q.seq
        /\ lastPage => batch = RowsAbove
    BY <1>1, <1>2 DEF PageIsNext, GoodRows, RowsAbove
  <1>4. CASE BreakReason(state, row) # "NONE"
    <2>1. /\ pc' = "done" /\ UNCHANGED <<batch, state, headHash, cursor>>
          /\ result'.status = "BROKEN" /\ result'.checked = cursor
          /\ result'.headSeq = cursor /\ result'.headHash = headHash
      BY <1>1, <1>2, <1>4 DEF PrefixVerified
    <2>2. ~LinkedAt(snapshot, cursor + 1)
      BY <1>1, <1>3, <1>4, RejectedRowEndsPrefix
    <2>3. row \in snapshot /\ ~(row.seq <= cursor)
      BY <1>1, <1>3 DEF RowsAbove, GoodRows, PrefixVerified
    <2>4. IsVerdict(snapshot, "BROKEN", cursor, headHash)
      BY <1>1, <2>2, <2>3 DEF IsVerdict, IsVerifiedHead, PrefixVerified
    <2>5. QED
      BY <1>1, <2>1, <2>4 DEF VerdictOfSnapshot, PageIsNext
  <1>5. CASE BreakReason(state, row) = "NONE"
    <2>1. /\ state' = Advance(state, row) /\ headHash' = row.chainHash
          /\ cursor' = row.seq /\ batch' = batch \ {row}
          /\ pc' = IF batch' # {} THEN "step" ELSE IF lastPage THEN "return" ELSE "fetch"
      BY <1>2, <1>5
    <2>2. /\ row.seq = cursor + 1
          /\ VerifiedTo(snapshot, cursor + 1)
          /\ IsHashAt(snapshot, cursor + 1, row.chainHash)
      BY <1>1, <1>3, <1>5, AcceptedRowLinks
    <2>3. PrefixVerified'
      BY <1>1, <2>1, <2>2 DEF PrefixVerified, Advance
    <2>4. RowsAbove' = RowsAbove \ {row}
      BY <1>1, <1>3, <2>1, <2>2 DEF RowsAbove, GoodRows, UniqueSeq, PrefixVerified
    <2>5. PageIsNext'
      BY <1>1, <1>3, <2>1, <2>4 DEF PageIsNext
    <2>6. (pc = "return" => RowsAbove = {})'
      BY <1>1, <1>3, <2>1, <2>4
    <2>7. QED
      BY <2>1, <2>3, <2>5, <2>6 DEF VerdictOfSnapshot
  <1>6. QED
    BY <1>4, <1>5

\* Returning: every row has been verified.
LEMMA ReturnStep == WalkInv /\ Return => VerdictOfSnapshot'
  <1> SUFFICES ASSUME WalkInv, Return PROVE VerdictOfSnapshot'
    OBVIOUS
  <1> USE DEF WalkInv
  <1>1. /\ GoodRows(snapshot) /\ PrefixVerified /\ RowsAbove = {} /\ snapshot' = snapshot
    BY DEF Return
  <1>2. /\ result'.status = IF cursor = 0 THEN "EMPTY" ELSE "VALID"
        /\ result'.checked = cursor /\ result'.headSeq = cursor
        /\ result'.headHash = headHash
    BY <1>1 DEF Return, PrefixVerified
  <1>3. \A r \in snapshot : r.seq <= cursor
    BY <1>1 DEF RowsAbove, GoodRows, PrefixVerified
  <1>4. ~LinkedAt(snapshot, cursor + 1)
    BY <1>1, <1>3 DEF LinkedAt, PrefixVerified
  <1>5. snapshot = {} <=> cursor = 0
    BY <1>1, <1>3 DEF GoodRows, PrefixVerified, IsHashAt
  <1>6. IsVerdict(snapshot, result'.status, cursor, headHash)
    BY <1>1, <1>2, <1>3, <1>4, <1>5 DEF IsVerdict, IsVerifiedHead, PrefixVerified
  <1>7. QED
    BY <1>1, <1>2, <1>6 DEF VerdictOfSnapshot

\* The invariant of every reachable state.
THEOREM WalkInvariant == Spec => []WalkInv
  <1>1. Init => WalkInv
    BY HistoriesAssumption DEF Init, WalkInv, GoodRows, PageIsNext, VerdictOfSnapshot
  <1>2. WalkInv /\ [Next]_vars => WalkInv'
    <2> SUFFICES ASSUME WalkInv, [Next]_vars PROVE WalkInv'
      OBVIOUS
    <2>1. GoodRows(stored')
      BY TableStep
    <2>2. CASE Begin
      <3>1. PrefixVerified'
        BY <2>2 DEF Begin, WalkInv, PrefixVerified, InitialChainState, VerifiedTo, IsHashAt
      <3>2. QED
        BY <2>1, <2>2, <3>1 DEF Begin, WalkInv, GoodRows, PageIsNext, VerdictOfSnapshot
    <2>3. CASE FetchPage
      <3>1. pc' # "done" /\ pc' # "begin" /\ PrefixVerified'
        BY <2>3 DEF FetchPage, AfterPage, WalkInv, PrefixVerified
      <3>2. QED
        BY <2>1, <2>3, <3>1, FetchStep
        DEF FetchPage, WalkInv, GoodRows, VerdictOfSnapshot
    <2>4. CASE StepRow
      BY <2>1, <2>4, RowStep DEF StepRow, WalkInv, GoodRows
    <2>5. CASE Return
      BY <2>1, <2>5, ReturnStep DEF Return, WalkInv, GoodRows, PageIsNext
    <2>6. CASE TableChanges \/ Finished \/ UNCHANGED vars
      <3>1. UNCHANGED walk
        BY <2>6 DEF TableChanges, Finished, vars
      <3>2. QED
        BY <2>1, <3>1 DEF walk, WalkInv, GoodRows, PrefixVerified, PageIsNext, RowsAbove,
                          VerdictOfSnapshot
    <2>7. QED
      BY <2>2, <2>3, <2>4, <2>5, <2>6 DEF Next, Walk
  <1>3. QED
    BY <1>1, <1>2, PTL DEF Spec

\* verifyScope returns the verdict on the table as it was when it started.
THEOREM VerdictCorrect == Spec => []VerdictOfSnapshot
  <1>1. WalkInv => VerdictOfSnapshot
    BY DEF WalkInv
  <1>2. QED
    BY WalkInvariant, <1>1, PTL

-----------------------------------------------------------------------------
(***************************************************************************)
(* A head hash commits the history before it.  The walk carries the        *)
(* induction: a verified position whose hash was written by the            *)
(* application has nothing but written rows up to it.                      *)
(***************************************************************************)
WrittenChain ==
    \A w \in written :
        /\ SelfConsistent(w)
        /\ w.prevHash # NoHash => \E p \in written : p.chainHash = w.prevHash

IsWrittenHash(hash) == \E w \in written : w.chainHash = hash

WrittenUpTo(n) ==
    \A r \in snapshot : r.seq <= n => \E w \in written : AsWritten(r, w)

CommitInv ==
    /\ WrittenChain
    /\ pc \in {"fetch", "step", "return"} =>
           (cursor > 0 /\ IsWrittenHash(headHash) => WrittenUpTo(cursor))
    /\ HeadHashCommitsHistory

\* Equal chain hashes of self-consistent rows: equal hashed columns.
LEMMA ChainHashCommitsRow ==
    ASSUME NEW r, NEW w, SelfConsistent(r), SelfConsistent(w), r.chainHash = w.chainHash
    PROVE  AsWritten(r, w) /\ w.prevHash = r.prevHash
  BY DEF SelfConsistent, ChainHashOf, EventHashOf, Hashed, AsWritten, TextOf

\* Accepting a row extends the written prefix, if its hash was written.
LEMMA RowCommits ==
    ASSUME GoodRows(snapshot), PrefixVerified, WrittenChain,
           cursor > 0 /\ IsWrittenHash(headHash) => WrittenUpTo(cursor),
           NEW row \in RowsAbove, BreakReason(state, row) = "NONE",
           IsWrittenHash(row.chainHash)
    PROVE  WrittenUpTo(cursor + 1)
  <1>1. row \in snapshot /\ row.seq = cursor + 1 /\ SelfConsistent(row)
    BY AcceptedRowLinks DEF RowsAbove, BreakReason, SelfConsistent
  <1>2. PICK w \in written : w.chainHash = row.chainHash
    BY DEF IsWrittenHash
  <1>3. AsWritten(row, w) /\ w.prevHash = row.prevHash
    BY <1>1, <1>2, ChainHashCommitsRow DEF WrittenChain
  <1>4. cursor \in Nat
    BY DEF PrefixVerified
  <1>5. cursor > 0 => WrittenUpTo(cursor)
    <2> SUFFICES ASSUME cursor > 0 PROVE WrittenUpTo(cursor)
      OBVIOUS
    <2>1. row.prevHash = headHash
      BY <1>4 DEF BreakReason, PrefixVerified
    <2>2. headHash # NoHash
      <3>1. PICK r \in snapshot : r.seq = cursor /\ r.chainHash = headHash
        BY <1>4 DEF PrefixVerified, IsHashAt
      <3>2. LinkedAt(snapshot, cursor)
        BY <1>4 DEF PrefixVerified, VerifiedTo
      <3>3. SelfConsistent(r)
        BY <3>1, <3>2 DEF LinkedAt, GoodRows, UniqueSeq
      <3>4. QED
        BY <3>1, <3>3 DEF SelfConsistent, ChainHashOf, NoHash
    <2>3. IsWrittenHash(headHash)
      BY <1>3, <2>1, <2>2 DEF WrittenChain, IsWrittenHash
    <2>4. QED
      BY <2>3
  <1>6. ASSUME NEW r \in snapshot, r.seq <= cursor + 1
        PROVE  \E v \in written : AsWritten(r, v)
    <2>1. CASE r.seq = cursor + 1
      <3>1. r = row
        BY <1>1, <2>1 DEF GoodRows, UniqueSeq
      <3>2. QED
        BY <1>3, <3>1
    <2>2. CASE r.seq <= cursor
      BY <1>4, <1>5, <2>2 DEF WrittenUpTo, GoodRows
    <2>3. QED
      BY <1>4, <1>6, <2>1, <2>2 DEF GoodRows
  <1>7. QED
    BY <1>6 DEF WrittenUpTo

\* A verified head whose hash the application wrote commits the whole history
\* before it, for every table an owner may leave behind.
THEOREM HistoryCommitted == Spec => []HeadHashCommitsHistory
  <1> USE DEF WalkInv
  <1>1. Init => CommitInv
    BY HistoriesAssumption DEF Init, CommitInv, WrittenChain, HeadHashCommitsHistory
  <1>2. WalkInv /\ CommitInv /\ [Next]_vars => CommitInv'
    <2> SUFFICES ASSUME WalkInv, CommitInv, [Next]_vars PROVE CommitInv'
      OBVIOUS
    <2> USE DEF CommitInv
    <2>1. written' = written /\ WrittenChain'
      BY DEF Next, Walk, Begin, FetchPage, StepRow, Return, TableChanges, Finished, vars,
             WrittenChain
    <2>2. CASE Begin
      BY <2>1, <2>2 DEF Begin, HeadHashCommitsHistory
    <2>3. CASE FetchPage
      BY <2>1, <2>3 DEF FetchPage, AfterPage, HeadHashCommitsHistory, IsWrittenHash, WrittenUpTo
    <2>4. CASE StepRow
      <3>1. /\ pc = "step" /\ snapshot' = snapshot /\ GoodRows(snapshot) /\ PrefixVerified
            /\ cursor > 0 /\ IsWrittenHash(headHash) => WrittenUpTo(cursor)
        BY <2>4 DEF StepRow
      <3>2. PICK row \in batch :
                LET reason == BreakReason(state, row)
                IN  IF reason # "NONE"
                    THEN /\ result' = [status |-> "BROKEN", checked |-> state.checked,
                                       headSeq |-> state.headSeq, headHash |-> headHash,
                                       reason |-> reason]
                         /\ pc' = "done"
                    ELSE /\ headHash' = row.chainHash
                         /\ cursor' = row.seq
                         /\ pc' = IF batch' # {} THEN "step"
                                  ELSE IF lastPage THEN "return" ELSE "fetch"
        BY <2>4 DEF StepRow
      <3>3. row \in RowsAbove
        BY <3>1, <3>2 DEF PageIsNext
      <3>4. CASE BreakReason(state, row) # "NONE"
        <4>1. pc' = "done" /\ result'.headSeq = cursor /\ result'.headHash = headHash
          BY <3>1, <3>2, <3>4 DEF PrefixVerified
        <4>2. QED
          BY <2>1, <3>1, <4>1 DEF HeadHashCommitsHistory, WrittenUpTo, IsWrittenHash
      <3>5. CASE BreakReason(state, row) = "NONE"
        <4>1. /\ headHash' = row.chainHash /\ cursor' = cursor + 1
              /\ pc' \in {"step", "return", "fetch"}
          BY <3>1, <3>2, <3>3, <3>5, AcceptedRowLinks
        <4>2. IsWrittenHash(row.chainHash) => WrittenUpTo(cursor + 1)
          BY <2>1, <3>1, <3>3, <3>5, RowCommits
        <4>3. QED
          BY <2>1, <3>1, <4>1, <4>2 DEF HeadHashCommitsHistory, WrittenUpTo, IsWrittenHash
      <3>6. QED
        BY <3>4, <3>5
    <2>5. CASE Return
      <3>1. result'.headSeq = cursor /\ result'.headHash = headHash /\ snapshot' = snapshot
        BY <2>5 DEF Return, PrefixVerified
      <3>2. QED
        BY <2>1, <2>5, <3>1 DEF Return, HeadHashCommitsHistory, WrittenUpTo, IsWrittenHash
    <2>6. CASE TableChanges \/ Finished \/ UNCHANGED vars
      <3>1. UNCHANGED walk
        BY <2>6 DEF TableChanges, Finished, vars
      <3>2. QED
        BY <2>1, <3>1 DEF walk, HeadHashCommitsHistory, IsWrittenHash, WrittenUpTo
    <2>7. QED
      BY <2>2, <2>3, <2>4, <2>5, <2>6 DEF Next, Walk
  <1>3. CommitInv => HeadHashCommitsHistory
    BY DEF CommitInv
  <1>4. QED
    BY WalkInvariant, <1>1, <1>2, <1>3, PTL DEF Spec

-----------------------------------------------------------------------------
\* Type correctness of the walk: no row a page brings, whatever the table became, takes
\* the cursor or the running state out of the numbers.
THEOREM TypeCorrect == Spec => []TypeOK
  <1>. DEFINE WalkTypes == TypeOK /\ (pc = "begin" => batch = {})
  <1>1. Init => WalkTypes
    <2> SUFFICES ASSUME Init PROVE WalkTypes
      OBVIOUS
    <2>1. /\ state.checked = 0 /\ state.headSeq = 0 /\ state.expectedSeq = 1
          /\ result.status = "NONE"
      BY DEF Init, InitialChainState, NoResult
    <2>2. batch = {} /\ lastPage \in BOOLEAN /\ cursor = 0 /\ pc = "begin"
      BY DEF Init
    <2>. QED  BY <2>1, <2>2 DEF TypeOK
  <1>2. WalkInv /\ WalkTypes /\ [Next]_vars => WalkTypes'
    <2> SUFFICES ASSUME WalkInv, WalkTypes, [Next]_vars PROVE WalkTypes'
      OBVIOUS
    <2>1. CASE Begin
      BY <2>1 DEF Begin, TypeOK
    <2>2. CASE FetchPage
      BY <2>2 DEF FetchPage, AfterPage, RowsAbove, TypeOK
    <2>3. CASE StepRow
      <3>1. pc = "step" /\ pc' # "begin" /\ UNCHANGED <<snapshot, lastPage>>
        BY <2>3 DEF StepRow
      <3>2. PICK row \in batch :
                \/ /\ result'.status = "BROKEN" /\ pc' = "done"
                   /\ UNCHANGED <<batch, state, cursor>>
                \/ /\ state' = Advance(state, row) /\ cursor' = row.seq
                   /\ batch' = batch \ {row} /\ pc' \in {"step", "return", "fetch"}
                   /\ UNCHANGED result
        BY <2>3 DEF StepRow
      <3>3. row.seq \in Nat
        BY <3>1 DEF WalkInv, GoodRows, TypeOK
      <3>. QED  BY <3>1, <3>2, <3>3 DEF TypeOK, Advance
    <2>4. CASE Return
      BY <2>4 DEF Return, TypeOK
    <2>5. CASE TableChanges \/ Finished \/ UNCHANGED vars
      BY <2>5 DEF TableChanges, Finished, vars, walk, TypeOK
    <2>. QED  BY <2>1, <2>2, <2>3, <2>4, <2>5 DEF Next, Walk
  <1>3. WalkTypes => TypeOK
    OBVIOUS
  <1>. HIDE DEF WalkTypes
  <1>. QED  BY <1>1, <1>2, <1>3, WalkInvariant, PTL DEF Spec
=============================================================================
