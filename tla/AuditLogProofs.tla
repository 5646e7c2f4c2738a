--------------------------- MODULE AuditLogProofs ---------------------------
(***************************************************************************)
(* Theorems about AuditLog, for every set of writers, scopes and events,   *)
(* every hashtext and every number of calls.                               *)
(***************************************************************************)
EXTENDS AuditLog, Sequences, TLAPS

\* A transaction past the lock is the only holder of the key of its scope.
LockHeld ==
    \A w \in Writers :
        pc[w] \in {"read", "save", "commit"} => lock[LockKey(w)] = {w}

\* The row a transaction is about to insert still extends the chain of its scope:
\* it is past every committed row and points at the last of them.
RowExtendsChain ==
    \A w \in Writers : pc[w] \in {"save", "commit"} =>
        /\ SelfConsistent(row[w])
        /\ LinksBack(row[w])
        /\ \A r \in auditLogs : r.scope = row[w].scope => r.seq < row[w].seq

\* The inductive invariant.
ChainInv == TypeOK /\ LockHeld /\ RowExtendsChain /\ ChainLinked

-----------------------------------------------------------------------------
\* What MakeRow returns: the fields it was given, and hashes that verify.
LEMMA MakeRowFields ==
    ASSUME NEW scope, NEW seq, NEW id, NEW event, NEW prevHash
    PROVE  LET r == MakeRow(CurrentSchemaVersion, scope, seq, id, event, prevHash)
           IN  /\ r.scope = scope
               /\ r.seq = seq
               /\ r.prevHash = prevHash
               /\ SelfConsistent(r)
  BY DEF MakeRow, Rehashed, SelfConsistent, EventHashOf, Hashed, TextOf, CurrentSchemaVersion,
         SchemaVersions

\* Type correctness holds initially ...
LEMMA TypeInit == Init => TypeOK
  BY MaxCallsAssumption DEF Init, TypeOK, InTransaction

\* ... and every step keeps it.
LEMMA TypeStep == TypeOK /\ [Next]_vars => TypeOK'
  <1> SUFFICES ASSUME TypeOK, [Next]_vars PROVE TypeOK'
    OBVIOUS
  <1> USE DEF TypeOK
  <1>1. ASSUME NEW w \in Writers, CreateChained(w) PROVE TypeOK'
    BY <1>1 DEF CreateChained, InTransaction
  <1>2. ASSUME NEW w \in Writers, AcquireLock(w) PROVE TypeOK'
    BY <1>2 DEF AcquireLock, InTransaction
  <1>3. ASSUME NEW w \in Writers, BuildRow(w) PROVE TypeOK'
    <2>1. PICK last \in auditLogs \union {NoRow} :
              /\ LastIs(request[w].scope, last)
              /\ row' = [row EXCEPT ![w] =
                            MakeRow(CurrentSchemaVersion, request[w].scope, NextSeq(last),
                                    <<w, calls>>, request[w].event, PrevHash(last))]
      BY <1>3 DEF BuildRow
    <2>2. NextSeq(last) \in Nat \ {0}
      BY DEF NextSeq
    <2>3. row'[w].scope = request[w].scope /\ row'[w].seq \in Nat \ {0}
      BY <2>1, <2>2, MakeRowFields
    <2>4. QED
      BY <1>3, <2>1, <2>3 DEF BuildRow, InTransaction
  <1>4. ASSUME NEW w \in Writers, RejectMetadata(w) PROVE TypeOK'
    BY <1>4 DEF RejectMetadata, EndTransaction, InTransaction
  <1>5. ASSUME NEW w \in Writers, Insert(w) PROVE TypeOK'
    BY <1>5 DEF Insert, EndTransaction, InTransaction
  <1>6. ASSUME NEW w \in Writers, Commit(w) PROVE TypeOK'
    BY <1>6 DEF Commit, EndTransaction, InTransaction, Requests
  <1>7. ASSUME NEW w \in Writers, Abort(w) PROVE TypeOK'
    BY <1>7 DEF Abort, EndTransaction, InTransaction
  <1>8. ASSUME NEW w \in Writers, Resolve(w) PROVE TypeOK'
    BY <1>8 DEF Resolve, InTransaction
  <1>9. ASSUME NEW w \in Writers, Return(w) PROVE TypeOK'
    BY <1>9 DEF Return, InTransaction
  <1>10. CASE UNCHANGED vars
    BY <1>10 DEF vars, InTransaction
  <1> QED
    BY <1>1, <1>2, <1>3, <1>4, <1>5, <1>6, <1>7, <1>8, <1>9, <1>10 DEF Next, Quiescent

\* Type correctness of every reachable state.
THEOREM TypeCorrect == Spec => []TypeOK
  BY TypeInit, TypeStep, PTL DEF Spec

-----------------------------------------------------------------------------
\* Mutual exclusion on a lock key is kept by every step.
LEMMA LockHeldStep == ChainInv /\ [Next]_vars => LockHeld'
  <1> SUFFICES ASSUME ChainInv, [Next]_vars PROVE LockHeld'
    OBVIOUS
  <1> USE DEF ChainInv, TypeOK, LockHeld, LockKey
  <1>0. HashText \in [Scopes -> LockKeys]
    BY HashTextAssumption
  <1>1. ASSUME NEW w \in Writers, CreateChained(w) PROVE LockHeld'
    BY <1>1 DEF CreateChained
  <1>2. ASSUME NEW w \in Writers, AcquireLock(w) PROVE LockHeld'
    <2>1. request[w] \in Requests
      BY <1>2 DEF AcquireLock, InTransaction
    <2>2. HashText[request[w].scope] \in LockKeys
      BY <1>0, <2>1 DEF Requests
    <2>3. QED
      BY <1>2, <2>2 DEF AcquireLock
  <1>3. ASSUME NEW w \in Writers, BuildRow(w) PROVE LockHeld'
    BY <1>3 DEF BuildRow
  <1>4. ASSUME NEW w \in Writers, EndTransaction(w), UNCHANGED request,
               pc'[w] \notin {"read", "save", "commit"},
               \A v \in Writers \ {w} : pc'[v] = pc[v]
        PROVE  LockHeld'
    <2> SUFFICES ASSUME NEW v \in Writers, pc'[v] \in {"read", "save", "commit"}
                 PROVE  lock'[HashText[request'[v].scope]] = {v}
      OBVIOUS
    <2>1. v # w /\ pc[v] = pc'[v]
      BY <1>4
    <2>2. request[v] \in Requests
      BY <2>1 DEF InTransaction
    <2>3. HashText[request[v].scope] \in LockKeys
      BY <1>0, <2>2 DEF Requests
    <2>4. lock[HashText[request[v].scope]] = {v}
      BY <2>1
    <2>5. QED
      BY <1>4, <2>1, <2>3, <2>4 DEF EndTransaction
  <1>5. ASSUME NEW w \in Writers, RejectMetadata(w) PROVE LockHeld'
    BY <1>4, <1>5 DEF RejectMetadata
  <1>6. ASSUME NEW w \in Writers, Insert(w) PROVE LockHeld'
    <2>1. CASE \E r \in auditLogs : SameKey(r, row[w])
      BY <1>4, <1>6, <2>1 DEF Insert
    <2>2. CASE ~ \E r \in auditLogs : SameKey(r, row[w])
      BY <1>6, <2>2 DEF Insert
    <2>3. QED
      BY <2>1, <2>2
  <1>7. ASSUME NEW w \in Writers, Commit(w) PROVE LockHeld'
    BY <1>4, <1>7 DEF Commit
  <1>8. ASSUME NEW w \in Writers, Abort(w) PROVE LockHeld'
    BY <1>4, <1>8 DEF Abort
  <1>9. ASSUME NEW w \in Writers, Resolve(w) PROVE LockHeld'
    BY <1>9 DEF Resolve
  <1>10. ASSUME NEW w \in Writers, Return(w) PROVE LockHeld'
    BY <1>10 DEF Return
  <1>11. CASE UNCHANGED vars
    BY <1>11 DEF vars
  <1> QED
    BY <1>1, <1>2, <1>3, <1>5, <1>6, <1>7, <1>8, <1>9, <1>10, <1>11 DEF Next, Quiescent

\* Two transactions that hold a row hold it for different scopes.
LEMMA OneWriterPerScope ==
    ASSUME TypeOK, LockHeld,
           NEW v \in Writers, pc[v] \in {"save", "commit"},
           NEW w \in Writers, pc[w] \in {"save", "commit"},
           row[v].scope = row[w].scope
    PROVE  v = w
  BY DEF TypeOK, LockHeld, LockKey

\* The row BuildRow makes extends the chain it was made from.
LEMMA BuiltRowExtendsChain ==
    ASSUME ChainInv, NEW w \in Writers, BuildRow(w)
    PROVE  /\ SelfConsistent(row'[w])
           /\ LinksBack(row'[w])
           /\ \A r \in auditLogs : r.scope = row'[w].scope => r.seq < row'[w].seq
  <1> USE DEF ChainInv
  <1>1. PICK last \in auditLogs \union {NoRow} :
            /\ LastIs(request[w].scope, last)
            /\ row' = [row EXCEPT ![w] =
                          MakeRow(CurrentSchemaVersion, request[w].scope, NextSeq(last),
                                  <<w, calls>>, request[w].event, PrevHash(last))]
    BY DEF BuildRow
  <1>2. /\ row'[w].scope = request[w].scope
        /\ row'[w].seq = NextSeq(last)
        /\ row'[w].prevHash = PrevHash(last)
        /\ SelfConsistent(row'[w])
    BY <1>1, MakeRowFields DEF TypeOK
  <1>3. CASE last = NoRow
    <2>1. RowsOf(auditLogs, request[w].scope) = {}
      BY <1>1, <1>3 DEF LastIs, RowsOf, NoRow, TypeOK
    <2>2. QED
      BY <1>2, <1>3, <2>1 DEF LinksBack, NextSeq, PrevHash, RowsOf
  <1>4. CASE last # NoRow
    <2>1. last \in auditLogs /\ last.scope = request[w].scope
      BY <1>1, <1>4 DEF LastIs, RowsOf
    <2>2. \A r \in auditLogs : r.scope = request[w].scope => r.seq <= last.seq
      BY <1>1, <1>4, <2>1 DEF LastIs, RowsOf
    <2>3. last.seq \in Nat \ {0}
      BY <2>1 DEF TypeOK
    <2>4. row'[w].seq = last.seq + 1 /\ row'[w].prevHash = last.chainHash
      BY <1>2, <1>4 DEF NextSeq, PrevHash
    <2>5. LinksBack(row'[w])
      BY <1>2, <2>1, <2>3, <2>4 DEF LinksBack
    <2>6. \A r \in auditLogs : r.scope = row'[w].scope => r.seq < row'[w].seq
      BY <1>2, <2>2, <2>3, <2>4 DEF TypeOK
    <2>7. QED
      BY <1>2, <2>5, <2>6
  <1>5. QED
    BY <1>3, <1>4

\* A step that adds no row to the table and changes no held row of a transaction
\* that stays in the region keeps RowExtendsChain and ChainLinked.
LEMMA TableUntouched ==
    ASSUME ChainInv, auditLogs' = auditLogs,
           \A w \in Writers : pc'[w] \in {"save", "commit"} =>
               pc[w] \in {"save", "commit"} /\ row'[w] = row[w]
    PROVE  RowExtendsChain' /\ ChainLinked'
  BY DEF ChainInv, RowExtendsChain, ChainLinked, LinksBack

\* Rows held and rows committed keep extending one chain per scope.
LEMMA ChainStep == ChainInv /\ [Next]_vars => RowExtendsChain' /\ ChainLinked'
  <1> SUFFICES ASSUME ChainInv, [Next]_vars
               PROVE  RowExtendsChain' /\ ChainLinked'
    OBVIOUS
  <1> USE DEF ChainInv
  <1> DEFINE Chain == RowExtendsChain /\ ChainLinked
  <1>1. ASSUME NEW w \in Writers, CreateChained(w) PROVE Chain'
    BY <1>1, TableUntouched DEF CreateChained, TypeOK
  <1>2. ASSUME NEW w \in Writers, AcquireLock(w) PROVE Chain'
    BY <1>2, TableUntouched DEF AcquireLock, TypeOK
  <1>3. ASSUME NEW w \in Writers, BuildRow(w) PROVE Chain'
    <2>1. ChainLinked'
      BY <1>3 DEF BuildRow, ChainLinked, LinksBack
    <2>2. ASSUME NEW v \in Writers, pc'[v] \in {"save", "commit"}
          PROVE  /\ SelfConsistent(row'[v])
                 /\ LinksBack(row'[v])
                 /\ \A r \in auditLogs : r.scope = row'[v].scope => r.seq < row'[v].seq
      <3>1. CASE v = w
        BY <1>3, <3>1, BuiltRowExtendsChain
      <3>2. CASE v # w
        <4>1. row'[v] = row[v] /\ pc'[v] = pc[v]
          BY <1>3, <3>2 DEF BuildRow, TypeOK
        <4>2. QED
          BY <2>2, <4>1 DEF RowExtendsChain
      <3>3. QED
        BY <3>1, <3>2
    <2>3. RowExtendsChain'
      BY <1>3, <2>2 DEF RowExtendsChain, LinksBack, BuildRow
    <2>4. QED
      BY <2>1, <2>3
  <1>4. ASSUME NEW w \in Writers, RejectMetadata(w) PROVE Chain'
    BY <1>4, TableUntouched DEF RejectMetadata, EndTransaction, TypeOK
  <1>5. ASSUME NEW w \in Writers, Insert(w) PROVE Chain'
    BY <1>5, TableUntouched DEF Insert, EndTransaction, TypeOK
  <1>6. ASSUME NEW w \in Writers, Commit(w) PROVE Chain'
    <2> DEFINE new == row[w]
    <2>1. /\ pc[w] = "commit"
          /\ auditLogs' = auditLogs \union {new}
          /\ pc' = [pc EXCEPT ![w] = "committed"]
          /\ row' = [row EXCEPT ![w] = NoRow]
      BY <1>6 DEF Commit, EndTransaction
    <2>2. /\ SelfConsistent(new)
          /\ LinksBack(new)
          /\ \A r \in auditLogs : r.scope = new.scope => r.seq < new.seq
      BY <2>1 DEF RowExtendsChain
    <2>3. new.seq \in Nat \ {0}
      BY <2>1 DEF TypeOK
    <2>4. ASSUME NEW r, LinksBack(r) PROVE LinksBack(r)'
      BY <2>1, <2>4 DEF LinksBack
    <2>5. ASSUME NEW r \in auditLogs', NEW q \in auditLogs', SameKey(q, r) PROVE q = r
      <3>1. ASSUME NEW o \in auditLogs PROVE ~SameKey(o, new) /\ ~SameKey(new, o)
        BY <2>2, <2>3, <3>1 DEF SameKey, TypeOK
      <3>2. QED
        BY <2>1, <2>5, <3>1 DEF ChainLinked
    <2>6. ChainLinked'
      <3>1. ASSUME NEW r \in auditLogs' PROVE SelfConsistent(r) /\ LinksBack(r)
        BY <2>1, <2>2, <3>1 DEF ChainLinked
      <3>2. QED
        BY <2>4, <2>5, <3>1 DEF ChainLinked
    <2>7. ASSUME NEW v \in Writers, pc'[v] \in {"save", "commit"}
          PROVE  /\ SelfConsistent(row'[v])
                 /\ LinksBack(row[v])'
                 /\ \A r \in auditLogs' : r.scope = row'[v].scope => r.seq < row'[v].seq
      <3>1. v # w /\ row'[v] = row[v] /\ pc'[v] = pc[v]
        BY <2>1, <2>7 DEF TypeOK
      <3>2. row[v].scope # new.scope
        BY <2>1, <2>7, <3>1, OneWriterPerScope
      <3>3. /\ SelfConsistent(row[v])
            /\ LinksBack(row[v])
            /\ \A r \in auditLogs : r.scope = row[v].scope => r.seq < row[v].seq
        BY <2>7, <3>1 DEF RowExtendsChain
      <3>4. LinksBack(row[v])'
        BY <2>1, <3>1, <3>3 DEF LinksBack
      <3>5. QED
        BY <2>1, <3>1, <3>2, <3>3, <3>4
    <2>8. RowExtendsChain'
      BY <2>7 DEF RowExtendsChain
    <2>9. QED
      BY <2>6, <2>8
  <1>7. ASSUME NEW w \in Writers, Abort(w) PROVE Chain'
    BY <1>7, TableUntouched DEF Abort, EndTransaction, TypeOK
  <1>8. ASSUME NEW w \in Writers, Resolve(w) PROVE Chain'
    BY <1>8, TableUntouched DEF Resolve, TypeOK
  <1>9. ASSUME NEW w \in Writers, Return(w) PROVE Chain'
    BY <1>9, TableUntouched DEF Return, TypeOK
  <1>10. CASE UNCHANGED vars
    BY <1>10, TableUntouched DEF vars
  <1> QED
    BY <1>1, <1>2, <1>3, <1>4, <1>5, <1>6, <1>7, <1>8, <1>9, <1>10 DEF Next, Quiescent

\* The invariant holds initially.
LEMMA ChainInvInit == Init => ChainInv
  BY TypeInit DEF Init, ChainInv, LockHeld, RowExtendsChain, ChainLinked

\* The invariant of every reachable state.
THEOREM ChainInvariant == Spec => []ChainInv
  <1>1. ChainInv /\ [Next]_vars => ChainInv'
    BY TypeStep, LockHeldStep, ChainStep DEF ChainInv
  <1>2. QED
    BY ChainInvInit, <1>1, PTL DEF Spec

\* The committed rows of every scope always form one unbroken chain.
THEOREM ChainAlwaysLinked == Spec => []ChainLinked
  <1>1. ChainInv => ChainLinked
    BY DEF ChainInv
  <1>2. QED
    BY ChainInvariant, <1>1, PTL

\* The advisory lock suffices: the unique index on (scope, seq) is never hit.
THEOREM NoCollision == Spec => []SeqNeverCollides
  <1>1. ChainInv => SeqNeverCollides
    <2> SUFFICES ASSUME ChainInv,
                        NEW w \in Writers, pc[w] \in {"save", "commit"}
                 PROVE  /\ \A r \in auditLogs : ~SameKey(r, row[w])
                        /\ \A v \in Writers \ {w} :
                               pc[v] \in {"save", "commit"} => ~SameKey(row[v], row[w])
      BY DEF SeqNeverCollides
    <2> USE DEF ChainInv
    <2>1. ASSUME NEW r \in auditLogs PROVE ~SameKey(r, row[w])
      BY <2>1 DEF RowExtendsChain, SameKey, TypeOK
    <2>2. ASSUME NEW v \in Writers \ {w}, pc[v] \in {"save", "commit"}
          PROVE  ~SameKey(row[v], row[w])
      BY <2>2, OneWriterPerScope DEF SameKey
    <2>3. QED
      BY <2>1, <2>2
  <1>2. QED
    BY ChainInvariant, <1>1, PTL
-----------------------------------------------------------------------------
(***************************************************************************)
(* The refinement of AuditLedger.                                          *)
(***************************************************************************)

\* What the transactions of one scope leave is a ledger: it has a last row, no position
\* before a row is empty, and a row to insert records the event of its call.
HasLast ==
    \A r \in auditLogs : \E last \in RowsOf(auditLogs, r.scope) :
        \A q \in RowsOf(auditLogs, r.scope) : q.seq <= last.seq
NoGaps ==
    \A r \in auditLogs : \A n \in 1..r.seq :
        \E q \in auditLogs : q.scope = r.scope /\ q.seq = n
RowRecordsRequest ==
    \A w \in Writers : pc[w] \in {"save", "commit"} => row[w].event = request[w].event

LedgerInv == ChainInv /\ HasLast /\ NoGaps /\ RowRecordsRequest

\* The refinement mapping, by its names.
LedgerOf == [s \in Scopes |-> [n \in 1..HeadSeq(s) |-> EventAt(s, n)]]
StatusOf ==
    [w \in Writers |-> IF InTransaction(w) THEN "pending"
                       ELSE IF pc[w] = "committed" THEN "recorded" ELSE pc[w]]

\* MakeRow keeps the event it is given.
LEMMA MakeRowEvent ==
    ASSUME NEW scope, NEW seq, NEW id, NEW event, NEW prevHash
    PROVE  MakeRow(CurrentSchemaVersion, scope, seq, id, event, prevHash).event = event
  BY DEF MakeRow, Rehashed

\* The row to commit takes the position after the last one.
LEMMA CommitExtends ==
    ASSUME ChainInv, NEW w \in Writers, pc[w] = "commit"
    PROVE  \/ row[w].seq = 1 /\ RowsOf(auditLogs, row[w].scope) = {}
           \/ \E p \in RowsOf(auditLogs, row[w].scope) :
                  /\ p.seq = row[w].seq - 1
                  /\ \A r \in RowsOf(auditLogs, row[w].scope) : r.seq <= p.seq
  <1>1. /\ LinksBack(row[w]) /\ row[w].seq \in Nat \ {0}
        /\ \A r \in auditLogs : r.scope = row[w].scope => r.seq < row[w].seq
    BY DEF ChainInv, RowExtendsChain, TypeOK
  <1>2. \A r \in auditLogs : r.seq \in Nat \ {0}
    BY DEF ChainInv, TypeOK
  <1>3. CASE row[w].seq = 1
    BY <1>1, <1>2, <1>3 DEF RowsOf
  <1>4. CASE row[w].seq # 1
    <2>1. PICK p \in auditLogs : p.scope = row[w].scope /\ p.seq = row[w].seq - 1
      BY <1>1, <1>4 DEF LinksBack
    <2>. QED  BY <1>1, <1>2, <2>1 DEF RowsOf
  <1>. QED  BY <1>3, <1>4

\* A step that commits nothing, and builds no row but for its call.
LEMMA LedgerKept ==
    ASSUME LedgerInv, auditLogs' = auditLogs,
           \A w \in Writers : pc'[w] \in {"save", "commit"} =>
               /\ pc[w] \in {"save", "commit"} /\ row'[w] = row[w]
               /\ request'[w] = request[w]
    PROVE  (HasLast /\ NoGaps /\ RowRecordsRequest)'
  BY DEF LedgerInv, HasLast, NoGaps, RowRecordsRequest, RowsOf

LEMMA LedgerStep == LedgerInv /\ [Next]_vars => LedgerInv'
  <1>. SUFFICES ASSUME LedgerInv, [Next]_vars PROVE LedgerInv'
    OBVIOUS
  <1>. DEFINE Rest == HasLast /\ NoGaps /\ RowRecordsRequest
  <1>0. ChainInv' /\ TypeOK
    BY TypeStep, LockHeldStep, ChainStep DEF LedgerInv, ChainInv
  <1>1. ASSUME NEW w \in Writers, CreateChained(w) PROVE Rest'
    BY <1>0, <1>1, LedgerKept DEF CreateChained, TypeOK
  <1>2. ASSUME NEW w \in Writers, AcquireLock(w) PROVE Rest'
    BY <1>0, <1>2, LedgerKept DEF AcquireLock, TypeOK
  <1>3. ASSUME NEW w \in Writers, BuildRow(w) PROVE Rest'
    <2>1. row'[w].event = request[w].event /\ DOMAIN row = Writers
      BY <1>0, <1>3, MakeRowEvent DEF BuildRow, TypeOK
    <2>2. RowRecordsRequest'
      BY <1>0, <1>3, <2>1 DEF RowRecordsRequest, LedgerInv, BuildRow, TypeOK
    <2>3. (HasLast /\ NoGaps)'
      BY <1>3 DEF BuildRow, LedgerInv, HasLast, NoGaps, RowsOf
    <2>. QED  BY <2>2, <2>3
  <1>4. ASSUME NEW w \in Writers, RejectMetadata(w) PROVE Rest'
    BY <1>0, <1>4, LedgerKept DEF RejectMetadata, EndTransaction, TypeOK
  <1>5. ASSUME NEW w \in Writers, Insert(w) PROVE Rest'
    BY <1>0, <1>5, LedgerKept DEF Insert, EndTransaction, TypeOK
  <1>6. ASSUME NEW w \in Writers, Commit(w) PROVE Rest'
    <2>. DEFINE new == row[w]
    <2>1. /\ pc[w] = "commit" /\ auditLogs' = auditLogs \union {new}
          /\ request' = request
          /\ \A v \in Writers : pc'[v] \in {"save", "commit"} =>
                 pc[v] \in {"save", "commit"} /\ row'[v] = row[v]
      BY <1>0, <1>6 DEF Commit, EndTransaction, TypeOK
    <2>2. new.seq \in Nat \ {0} /\ \A r \in auditLogs : r.seq \in Nat \ {0}
      BY <1>0, <2>1 DEF TypeOK
    <2>3. \A r \in auditLogs : r.scope = new.scope => r.seq < new.seq
      BY <2>1 DEF LedgerInv, ChainInv, RowExtendsChain
    <2>4. HasLast'
      <3>. SUFFICES ASSUME NEW r \in auditLogs'
                    PROVE  \E last \in RowsOf(auditLogs', r.scope) :
                               \A q \in RowsOf(auditLogs', r.scope) : q.seq <= last.seq
        BY DEF HasLast
      <3>1. CASE r.scope = new.scope
        BY <2>1, <2>2, <2>3, <3>1 DEF RowsOf
      <3>2. CASE r.scope # new.scope
        BY <2>1, <3>2 DEF RowsOf, LedgerInv, HasLast
      <3>. QED  BY <3>1, <3>2
    <2>5. NoGaps'
      <3>. SUFFICES ASSUME NEW r \in auditLogs', NEW n \in 1..r.seq
                    PROVE  \E q \in auditLogs' : q.scope = r.scope /\ q.seq = n
        BY DEF NoGaps
      <3>1. CASE r \in auditLogs
        BY <2>1, <3>1 DEF LedgerInv, NoGaps
      <3>2. CASE r = new /\ n = new.seq
        BY <2>1, <3>2
      <3>3. CASE r = new /\ n # new.seq
        <4>1. PICK p \in RowsOf(auditLogs, new.scope) : p.seq = new.seq - 1
          BY <2>1, <2>2, <3>3, CommitExtends DEF LedgerInv
        <4>2. n \in 1..p.seq
          BY <2>2, <3>3, <4>1
        <4>. QED  BY <2>1, <3>3, <4>1, <4>2 DEF LedgerInv, NoGaps, RowsOf
      <3>. QED  BY <2>1, <3>1, <3>2, <3>3
    <2>6. RowRecordsRequest'
      BY <2>1 DEF LedgerInv, RowRecordsRequest
    <2>. QED  BY <2>4, <2>5, <2>6
  <1>7. ASSUME NEW w \in Writers, Abort(w) PROVE Rest'
    BY <1>0, <1>7, LedgerKept DEF Abort, EndTransaction, TypeOK
  <1>8. ASSUME NEW w \in Writers, Resolve(w) PROVE Rest'
    BY <1>0, <1>8, LedgerKept DEF Resolve, TypeOK
  <1>9. ASSUME NEW w \in Writers, Return(w) PROVE Rest'
    BY <1>0, <1>9, LedgerKept DEF Return, TypeOK
  <1>10. ASSUME UNCHANGED vars PROVE Rest'
    BY <1>10, LedgerKept DEF vars
  <1>11. Rest'
    BY <1>1, <1>2, <1>3, <1>4, <1>5, <1>6, <1>7, <1>8, <1>9, <1>10 DEF Next, Quiescent
  <1>. QED  BY <1>0, <1>11 DEF LedgerInv

-----------------------------------------------------------------------------
\* HeadSeq is the position of the last row.
LEMMA HeadSeqIs ==
    ASSUME TypeOK, NEW s, NEW last \in RowsOf(auditLogs, s),
           \A r \in RowsOf(auditLogs, s) : r.seq <= last.seq
    PROVE  HeadSeq(s) = last.seq
  <1>. DEFINE IsHead(n) == \A r \in RowsOf(auditLogs, s) : r.seq <= n
              Seqs == {r.seq : r \in RowsOf(auditLogs, s)}
  <1>1. \A r \in RowsOf(auditLogs, s) : r.seq \in Nat
    BY DEF TypeOK, RowsOf
  <1>2. last.seq \in Seqs /\ IsHead(last.seq)
    OBVIOUS
  <1>3. HeadSeq(s) = CHOOSE n \in Seqs : IsHead(n)
    BY DEF HeadSeq
  <1>4. HeadSeq(s) \in Seqs /\ IsHead(HeadSeq(s))
    BY <1>2, <1>3
  <1>. QED  BY <1>1, <1>2, <1>4

\* EventAt is the event of the row at that position.
LEMMA EventAtIs ==
    ASSUME ChainLinked, NEW r \in auditLogs
    PROVE  EventAt(r.scope, r.seq) = r.event
  BY DEF EventAt, ChainLinked, SameKey, RowsOf

\* What appending to a function on 1..k gives.
LEMMA AppendTo ==
    ASSUME NEW k \in Nat, NEW f, f = [n \in 1..k |-> f[n]], NEW e
    PROVE  Append(f, e) = [n \in 1..(k + 1) |-> IF n = k + 1 THEN e ELSE f[n]]
  <1>. DEFINE S == {f[n] : n \in 1..k} \union {e}
              g == [n \in 1..(k + 1) |-> IF n = k + 1 THEN e ELSE f[n]]
  <1>1. f \in [1..k -> S]
    OBVIOUS
  <1>2. f \in Seq(S) /\ Len(f) = k /\ e \in S
    BY <1>1
  <1>3. Append(f, e) \in Seq(S) /\ Len(Append(f, e)) = k + 1
    BY <1>2
  <1>4. DOMAIN Append(f, e) = 1..(k + 1) /\ Append(f, e) = [n \in 1..(k + 1) |-> Append(f, e)[n]]
    BY <1>3
  <1>5. \A n \in 1..(k + 1) : Append(f, e)[n] = g[n]
    BY <1>2
  <1>. QED  BY <1>4, <1>5

-----------------------------------------------------------------------------
\* The mapped ledger changes when a row is committed, and only then.
LEMMA LedgerUnchanged ==
    ASSUME auditLogs' = auditLogs PROVE LedgerOf' = LedgerOf
  BY DEF LedgerOf, HeadSeq, EventAt, RowsOf

LEMMA LedgerGrows ==
    ASSUME LedgerInv, LedgerInv', NEW w \in Writers, Commit(w)
    PROVE  LedgerOf' = [LedgerOf EXCEPT ![request[w].scope] = Append(@, request[w].event)]
  <1>0. /\ pc[w] = "commit" /\ auditLogs' = auditLogs \union {row[w]}
        /\ TypeOK /\ TypeOK' /\ ChainLinked /\ ChainLinked' /\ request[w] \in Requests
    BY DEF Commit, LedgerInv, ChainInv, TypeOK, InTransaction
  <1>a. PICK new : new = row[w]
    OBVIOUS
  <1>b. PICK s \in Scopes : s = request[w].scope
    BY <1>0 DEF Requests
  <1>. DEFINE k == HeadSeq(s)
  <1>1. /\ pc[w] = "commit" /\ auditLogs' = auditLogs \union {new}
        /\ new.scope = s /\ new.seq \in Nat \ {0} /\ new.event = request[w].event
        /\ new \in auditLogs'
        /\ \A r \in auditLogs : r.seq \in Nat \ {0}
        /\ \A r \in auditLogs : r.scope = s => r.seq < new.seq
        /\ TypeOK /\ TypeOK' /\ ChainLinked /\ ChainLinked'
    BY <1>0, <1>a, <1>b DEF LedgerInv, ChainInv, TypeOK, RowRecordsRequest, RowExtendsChain
  <1>2. k = new.seq - 1
    <2>1. CASE new.seq = 1 /\ RowsOf(auditLogs, s) = {}
      BY <2>1 DEF HeadSeq
    <2>2. ASSUME NEW p \in RowsOf(auditLogs, s), p.seq = new.seq - 1,
                 \A r \in RowsOf(auditLogs, s) : r.seq <= p.seq
          PROVE  k = new.seq - 1
      BY <1>1, <2>2, HeadSeqIs
    <2>. QED  BY <1>1, <1>a, <2>1, <2>2, CommitExtends DEF LedgerInv
  <1>3. HeadSeq(s)' = new.seq
    <2>1. new \in RowsOf(auditLogs, s)' /\ \A r \in RowsOf(auditLogs, s)' : r.seq <= new.seq
      BY <1>1 DEF RowsOf
    <2>2. \A r \in RowsOf(auditLogs, s)' : r.seq \in Nat
      BY <1>1 DEF RowsOf
    <2>. DEFINE Seqs == {r.seq : r \in RowsOf(auditLogs, s)'}
                IsHead(n) == \A r \in RowsOf(auditLogs, s)' : r.seq <= n
    <2>3. HeadSeq(s)' = CHOOSE n \in Seqs : IsHead(n)
      BY <2>1 DEF HeadSeq
    <2>4. HeadSeq(s)' \in Seqs /\ IsHead(HeadSeq(s)')
      BY <2>1, <2>3
    <2>. QED  BY <1>1, <2>1, <2>2, <2>4
  <1>4. EventAt(s, new.seq)' = request[w].event
    BY <1>1 DEF EventAt, ChainLinked, SameKey, RowsOf
  <1>5. ASSUME NEW n \in 1..k PROVE EventAt(s, n)' = EventAt(s, n)
    <2>1. k = 0 \/ \E p \in auditLogs : p.scope = s /\ p.seq = k
      BY <1>1, <1>2, <1>a, CommitExtends DEF LedgerInv, RowsOf
    <2>2. PICK p \in auditLogs : p.scope = s /\ p.seq = k
      BY <1>1, <1>2, <1>5, <2>1
    <2>3. PICK r \in auditLogs : r.scope = s /\ r.seq = n
      BY <2>2 DEF LedgerInv, NoGaps
    <2>4. EventAt(s, n) = r.event
      BY <1>1, <2>3 DEF EventAt, ChainLinked, SameKey, RowsOf
    <2>5. EventAt(s, n)' = r.event
      BY <1>1, <2>3 DEF EventAt, ChainLinked, SameKey, RowsOf
    <2>. QED  BY <2>4, <2>5
  <1>6. ASSUME NEW t \in Scopes, t # s
        PROVE  HeadSeq(t)' = HeadSeq(t) /\ \A n : EventAt(t, n)' = EventAt(t, n)
    <2>1. RowsOf(auditLogs, t)' = RowsOf(auditLogs, t)
      BY <1>1, <1>6 DEF RowsOf
    <2>. QED  BY <2>1 DEF HeadSeq, EventAt
  <1>7. Append(LedgerOf[s], request[w].event) = LedgerOf'[s]
    <2>. DEFINE f == [n \in 1..k |-> EventAt(s, n)]
    <2>1. k \in Nat /\ f = [n \in 1..k |-> f[n]] /\ LedgerOf[s] = f
      BY <1>1, <1>2 DEF LedgerOf
    <2>2. Append(f, request[w].event) =
            [n \in 1..(k + 1) |-> IF n = k + 1 THEN request[w].event ELSE f[n]]
      BY <2>1, AppendTo
    <2>3. LedgerOf'[s] = [n \in 1..new.seq |-> EventAt(s, n)']
      BY <1>1, <1>3 DEF LedgerOf
    <2>4. k + 1 = new.seq
      BY <1>1, <1>2
    <2>. QED  BY <1>4, <1>5, <2>1, <2>2, <2>3, <2>4
  <1>8. ASSUME NEW t \in Scopes, t # s PROVE LedgerOf'[t] = LedgerOf[t]
    BY <1>6, <1>8 DEF LedgerOf
  <1>9. /\ DOMAIN LedgerOf = Scopes /\ DOMAIN LedgerOf' = Scopes
        /\ LedgerOf' = [t \in Scopes |-> LedgerOf'[t]]
    BY DEF LedgerOf
  <1>. QED  BY <1>b, <1>7, <1>8, <1>9

\* What a step does to the mapped status of its call.
LEMMA StatusMoves ==
    ASSUME TypeOK, NEW w \in Writers, NEW to, pc' = [pc EXCEPT ![w] = to]
    PROVE  StatusOf' = [StatusOf EXCEPT ![w] =
               IF to \in {"lock", "read", "save", "commit"} THEN "pending"
               ELSE IF to = "committed" THEN "recorded" ELSE to]
  BY DEF TypeOK, StatusOf, InTransaction

\* The initial state maps to the empty ledger, and every step to one step of it or none.
LEMMA LedgerInit == Init => LedgerInv /\ Ledger!Init
  <1>1. ASSUME Init PROVE LedgerOf = [s \in Scopes |-> <<>>]
    BY <1>1 DEF Init, LedgerOf, HeadSeq, RowsOf
  <1>2. ASSUME Init PROVE StatusOf = [w \in Writers |-> "idle"]
    BY <1>2 DEF Init, StatusOf, InTransaction
  <1>3. ASSUME Init PROVE LedgerInv
    BY <1>3, ChainInvInit DEF LedgerInv, Init, HasLast, NoGaps, RowRecordsRequest
  <1>4. ASSUME Init PROVE Ledger!Init
    BY <1>1, <1>2, <1>4 DEF Ledger!Init, Ledger!NoRequest, NoRequest, LedgerOf, StatusOf, Init
  <1>. QED  BY <1>3, <1>4

LEMMA StepRefines == LedgerInv /\ LedgerInv' /\ [Next]_vars => [Ledger!Next]_(Ledger!vars)
  <1>. SUFFICES ASSUME LedgerInv, LedgerInv', [Next]_vars
                PROVE  Ledger!Next \/ UNCHANGED Ledger!vars
    OBVIOUS
  <1>. DEFINE LedgerStutters == UNCHANGED <<LedgerOf, StatusOf, request>>
  <1>0. TypeOK
    BY DEF LedgerInv, ChainInv
  <1>a. LedgerStutters => UNCHANGED Ledger!vars
    BY DEF Ledger!vars, LedgerOf, StatusOf
  <1>b. ASSUME NEW w \in Writers, NEW from, NEW to, StatusOf[w] = from,
               StatusOf' = [StatusOf EXCEPT ![w] = to]
        PROVE  Ledger!Move(w, from, to)
    BY <1>b DEF Ledger!Move, StatusOf
  <1>1. ASSUME NEW w \in Writers, CreateChained(w) PROVE Ledger!Request(w)
    <2>1. LedgerOf' = LedgerOf
      BY <1>1, LedgerUnchanged DEF CreateChained
    <2>2. StatusOf[w] = "idle" /\ StatusOf' = [StatusOf EXCEPT ![w] = "pending"]
      BY <1>0, <1>1, StatusMoves DEF CreateChained, StatusOf, InTransaction
    <2>3. Ledger!Move(w, "idle", "pending")
      BY <1>b, <2>2
    <2>4. \E s \in Scopes, e \in Events :
              request' = [request EXCEPT ![w] = [scope |-> s, event |-> e]]
      <3>1. PICK r \in Requests : request' = [request EXCEPT ![w] = r]
        BY <1>1 DEF CreateChained
      <3>2. PICK s \in Scopes, e \in Events : r = [scope |-> s, event |-> e]
        BY <3>1 DEF Requests
      <3>. QED  BY <3>1, <3>2
    <2>. QED  BY <2>1, <2>3, <2>4 DEF Ledger!Request, LedgerOf
  <1>2. ASSUME NEW w \in Writers, AcquireLock(w) \/ BuildRow(w) PROVE LedgerStutters
    <2>1. /\ pc[w] \in {"lock", "read"} /\ UNCHANGED <<auditLogs, request>>
          /\ \E to \in {"read", "save"} : pc' = [pc EXCEPT ![w] = to]
      BY <1>2 DEF AcquireLock, BuildRow
    <2>2. StatusOf' = StatusOf
      BY <1>0, <2>1 DEF TypeOK, StatusOf, InTransaction
    <2>. QED  BY <2>1, <2>2, LedgerUnchanged
  <1>c. ASSUME NEW w \in Writers, InTransaction(w), pc' = [pc EXCEPT ![w] = "failed"],
               UNCHANGED <<auditLogs, request>>
        PROVE  Ledger!Refuse(w)
    <2>1. LedgerOf' = LedgerOf
      BY <1>c, LedgerUnchanged
    <2>2. StatusOf[w] = "pending" /\ StatusOf' = [StatusOf EXCEPT ![w] = "failed"]
      BY <1>0, <1>c, StatusMoves DEF StatusOf
    <2>3. Ledger!Move(w, "pending", "failed")
      BY <1>b, <2>2
    <2>. QED  BY <1>c, <2>1, <2>3 DEF Ledger!Refuse, LedgerOf
  <1>3. ASSUME NEW w \in Writers, RejectMetadata(w) \/ Abort(w) PROVE Ledger!Refuse(w)
    BY <1>3, <1>c DEF RejectMetadata, Abort, InTransaction
  <1>4. ASSUME NEW w \in Writers, Insert(w) PROVE Ledger!Refuse(w) \/ LedgerStutters
    <2>1. /\ pc[w] = "save" /\ UNCHANGED <<auditLogs, request>>
          /\ \E to \in {"failed", "commit"} : pc' = [pc EXCEPT ![w] = to]
      BY <1>4 DEF Insert
    <2>2. CASE pc' = [pc EXCEPT ![w] = "failed"]
      BY <1>c, <2>1, <2>2 DEF InTransaction
    <2>3. CASE pc' = [pc EXCEPT ![w] = "commit"]
      <3>1. StatusOf' = StatusOf
        BY <1>0, <2>1, <2>3 DEF TypeOK, StatusOf, InTransaction
      <3>. QED  BY <2>1, <3>1, LedgerUnchanged
    <2>. QED  BY <2>1, <2>2, <2>3
  <1>5. ASSUME NEW w \in Writers, Commit(w) PROVE Ledger!Record(w)
    <2>1. LedgerOf' = [LedgerOf EXCEPT ![request[w].scope] = Append(@, request[w].event)]
      BY <1>5, LedgerGrows
    <2>2. StatusOf[w] = "pending" /\ StatusOf' = [StatusOf EXCEPT ![w] = "recorded"]
      BY <1>0, <1>5, StatusMoves DEF Commit, StatusOf, InTransaction
    <2>3. Ledger!Move(w, "pending", "recorded") /\ request' = request
      BY <1>5, <1>b, <2>2 DEF Commit
    <2>. QED  BY <2>1, <2>3 DEF Ledger!Record, LedgerOf
  <1>6. ASSUME NEW w \in Writers, Resolve(w) PROVE Ledger!Confirm(w) \/ Ledger!LoseConfirmation(w)
    <2>1. LedgerOf' = LedgerOf /\ request' = request
      BY <1>6, LedgerUnchanged DEF Resolve
    <2>2. PICK answer \in {"ok", "failed"} : pc' = [pc EXCEPT ![w] = answer]
      BY <1>6 DEF Resolve
    <2>3. StatusOf[w] = "recorded" /\ StatusOf' = [StatusOf EXCEPT ![w] = answer]
      BY <1>0, <1>6, <2>2, StatusMoves DEF Resolve, StatusOf, InTransaction
    <2>4. Ledger!Move(w, "recorded", answer)
      BY <1>b, <2>3
    <2>. QED  BY <2>1, <2>2, <2>4 DEF Ledger!Confirm, Ledger!LoseConfirmation, LedgerOf
  <1>7. ASSUME NEW w \in Writers, Return(w) PROVE Ledger!Return(w)
    <2>1. LedgerOf' = LedgerOf /\ request' = [request EXCEPT ![w] = NoRequest]
      BY <1>7, LedgerUnchanged DEF Return
    <2>2. /\ StatusOf[w] \in {"ok", "failed"}
          /\ StatusOf' = [StatusOf EXCEPT ![w] = "idle"]
      BY <1>0, <1>7, StatusMoves DEF Return, StatusOf, InTransaction
    <2>3. Ledger!Move(w, "ok", "idle") \/ Ledger!Move(w, "failed", "idle")
      BY <1>b, <2>2
    <2>. QED  BY <2>1, <2>3 DEF Ledger!Return, LedgerOf, Ledger!NoRequest, NoRequest
  <1>8. ASSUME UNCHANGED vars PROVE LedgerStutters
    BY <1>8 DEF vars, LedgerOf, StatusOf, HeadSeq, EventAt, RowsOf, InTransaction
  <1>. QED
    BY <1>a, <1>1, <1>2, <1>3, <1>4, <1>5, <1>6, <1>7, <1>8 DEF Next, Quiescent, Ledger!Next

\* The invariant of the refinement, in every reachable state.
LEMMA LedgerInvariant == Spec => []LedgerInv
  BY LedgerInit, LedgerStep, PTL DEF Spec

\* The transactions under the advisory lock implement the atomic ledger: calls take
\* effect one at a time, at most once each, in the order of their seq, and an aborted
\* call leaves nothing behind.
THEOREM LedgerImplemented == Spec => ImplementsLedger
  BY LedgerInvariant, LedgerInit, StepRefines, PTL DEF Spec, ImplementsLedger, Ledger!Spec
=============================================================================
