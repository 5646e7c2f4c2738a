------------------------------ MODULE AuditLog ------------------------------
(***************************************************************************)
(* AuditService.createChained (modules/audit/audit.service.ts) running     *)
(* concurrently in several requests and instances against one PostgreSQL   *)
(* database.  Each call is one READ COMMITTED transaction:                 *)
(*                                                                         *)
(*   pg_advisory_xact_lock(hashtext(scope))     "lock"   -> "read"         *)
(*   read the scope's last row, normalise the                              *)
(*   metadata, hash the event, build the row    "read"   -> "save"         *)
(*   INSERT                                     "save"   -> "commit"       *)
(*   COMMIT (releases the advisory lock)        "commit" -> "committed"    *)
(*   the promise resolves, or the answer is lost  -> "ok" / "failed"       *)
(*                                                                         *)
(* A statement failure, a lost connection or a crash of the process can    *)
(* end the transaction before COMMIT at any of these points.               *)
(***************************************************************************)
EXTENDS AuditChain, FiniteSets

CONSTANTS
    Writers,         \* the concurrent calls
    Scopes,          \* tenant ids and 'GLOBAL'
    Events,          \* what is recorded
    Unserializable,  \* the events whose metadata normalizeJsonForStorage rejects
    LockKeys,        \* the int32 values of hashtext
    HashText,        \* hashtext: scope -> lock key, not injective
    MaxCalls         \* bound on the number of calls

ASSUME HashTextAssumption == HashText \in [Scopes -> LockKeys]
ASSUME MaxCallsAssumption == MaxCalls \in Nat
ASSUME UnserializableAssumption == Unserializable \subseteq Events

VARIABLES
    auditLogs,  \* the committed rows of table audit_logs
    lock,       \* lock key -> the set of transactions that hold it
    pc,         \* writer -> where its call stands
    request,    \* writer -> the scope and event of its call
    row,        \* writer -> the row it builds and inserts, or NoRow
    calls       \* the number of calls so far; <<writer, calls>> is a fresh id

vars == <<auditLogs, lock, pc, request, row, calls>>

Requests == [scope : Scopes, event : Events]
NoRequest == [scope |-> "none", event |-> "none"]
NoRow == [scope |-> "none", seq |-> 0]

Init ==
    /\ auditLogs = {}
    /\ lock = [k \in LockKeys |-> {}]
    /\ pc = [w \in Writers |-> "idle"]
    /\ request = [w \in Writers |-> NoRequest]
    /\ row = [w \in Writers |-> NoRow]
    /\ calls = 0

-----------------------------------------------------------------------------
LockKey(w) == HashText[request[w].scope]
InTransaction(w) == pc[w] \in {"lock", "read", "save", "commit"}

\* Mutant: locks survive the end of the transaction.
EndHoldingLocks(w) == row' = [row EXCEPT ![w] = NoRow] /\ UNCHANGED lock

\* COMMIT and ROLLBACK end the transaction: its advisory locks are released and
\* its local row is gone.
EndTransaction(w) ==
    /\ lock' = [k \in LockKeys |-> lock[k] \ {w}]
    /\ row' = [row EXCEPT ![w] = NoRow]

\* Mutant: the scope is left out of the WHERE.
LastOfAnyScope(s, last) ==
    IF auditLogs = {} THEN last = NoRow
    ELSE last \in auditLogs /\ \A r \in auditLogs : r.seq <= last.seq

\* ORDER BY seq DESC LIMIT 1 within the scope; LastIs(s, NoRow) on an empty scope.
LastIs(s, last) ==
    IF RowsOf(auditLogs, s) = {} THEN last = NoRow
    ELSE last \in RowsOf(auditLogs, s) /\ \A r \in RowsOf(auditLogs, s) : r.seq <= last.seq

\* Mutant: an empty chain starts at 0.
NextSeqFromZero(last) == IF last = NoRow THEN 0 ELSE last.seq + 1

\* The position and link the next row takes after `last`.
NextSeq(last) == IF last = NoRow THEN 1 ELSE last.seq + 1
PrevHash(last) == IF last = NoRow THEN NoHash ELSE last.chainHash

SameKey(r, q) == r.scope = q.scope /\ r.seq = q.seq

-----------------------------------------------------------------------------
\* A request calls createChained; the transaction starts.
CreateChained(w) ==
    /\ pc[w] = "idle"
    /\ calls < MaxCalls
    /\ \E r \in Requests : request' = [request EXCEPT ![w] = r]
    /\ pc' = [pc EXCEPT ![w] = "lock"]
    /\ calls' = calls + 1
    /\ UNCHANGED <<auditLogs, lock, row>>

\* Mutant: the lock is tried, not waited for.
AcquireLockWithoutWaiting(w) ==
    /\ pc[w] = "lock"
    /\ lock' = [lock EXCEPT ![LockKey(w)] = @ \union {w}]
    /\ pc' = [pc EXCEPT ![w] = "read"]
    /\ UNCHANGED <<auditLogs, request, row, calls>>

\* SELECT pg_advisory_xact_lock(hashtext($1)): waits until nobody holds the key.
AcquireLock(w) ==
    /\ pc[w] = "lock"
    /\ lock[LockKey(w)] = {}
    /\ lock' = [lock EXCEPT ![LockKey(w)] = {w}]
    /\ pc' = [pc EXCEPT ![w] = "read"]
    /\ UNCHANGED <<auditLogs, request, row, calls>>

\* Read `last` under the lock and build the row after it.
BuildRow(w) ==
    /\ pc[w] = "read"
    /\ request[w].event \notin Unserializable
    /\ \E last \in auditLogs \union {NoRow} :
           /\ LastIs(request[w].scope, last)
           /\ row' = [row EXCEPT ![w] =
                         MakeRow(CurrentSchemaVersion, request[w].scope, NextSeq(last),
                                 <<w, calls>>, request[w].event, PrevHash(last))]
    /\ pc' = [pc EXCEPT ![w] = "save"]
    /\ UNCHANGED <<auditLogs, lock, request, calls>>

\* normalizeJsonForStorage throws: the transaction rolls back.
RejectMetadata(w) ==
    /\ pc[w] = "read"
    /\ request[w].event \in Unserializable
    /\ EndTransaction(w)
    /\ pc' = [pc EXCEPT ![w] = "failed"]
    /\ UNCHANGED <<auditLogs, request, calls>>

\* Mutant: the row is saved outside the transaction.
InsertOutsideTransaction(w) ==
    /\ pc[w] = "save"
    /\ auditLogs' = auditLogs \union {row[w]}
    /\ pc' = [pc EXCEPT ![w] = "commit"]
    /\ UNCHANGED <<lock, request, row, calls>>

\* INSERT against the unique index on (scope, seq): it waits for an uncommitted
\* row with its key, and fails, rolling back, on a committed one.
Insert(w) ==
    /\ pc[w] = "save"
    /\ \A v \in Writers : pc[v] = "commit" => ~SameKey(row[v], row[w])
    /\ IF \E r \in auditLogs : SameKey(r, row[w])
       THEN EndTransaction(w) /\ pc' = [pc EXCEPT ![w] = "failed"]
       ELSE UNCHANGED <<lock, row>> /\ pc' = [pc EXCEPT ![w] = "commit"]
    /\ UNCHANGED <<auditLogs, request, calls>>

Commit(w) ==
    /\ pc[w] = "commit"
    /\ auditLogs' = auditLogs \union {row[w]}
    /\ EndTransaction(w)
    /\ pc' = [pc EXCEPT ![w] = "committed"]
    /\ UNCHANGED <<request, calls>>

\* A failed statement, a lost connection or a crash before COMMIT: rollback.
Abort(w) ==
    /\ InTransaction(w)
    /\ EndTransaction(w)
    /\ pc' = [pc EXCEPT ![w] = "failed"]
    /\ UNCHANGED <<auditLogs, request, calls>>

\* The acknowledgement of COMMIT arrives and the promise resolves, or is lost.
Resolve(w) ==
    /\ pc[w] = "committed"
    /\ \E answer \in {"ok", "failed"} : pc' = [pc EXCEPT ![w] = answer]
    /\ UNCHANGED <<auditLogs, lock, request, row, calls>>

\* The caller goes on; its slot is free for another call.
Return(w) ==
    /\ pc[w] \in {"ok", "failed"}
    /\ pc' = [pc EXCEPT ![w] = "idle"]
    /\ request' = [request EXCEPT ![w] = NoRequest]
    /\ UNCHANGED <<auditLogs, lock, row, calls>>

\* Every call allowed by the bound has ended.
Quiescent ==
    /\ calls = MaxCalls
    /\ \A w \in Writers : pc[w] = "idle"
    /\ UNCHANGED vars

Next ==
    \/ \E w \in Writers :
           \/ CreateChained(w)
           \/ AcquireLock(w)
           \/ BuildRow(w)
           \/ RejectMetadata(w)
           \/ Insert(w)
           \/ Commit(w)
           \/ Abort(w)
           \/ Resolve(w)
           \/ Return(w)
    \/ Quiescent

\* A call that is not waiting for a lock runs on; the advisory lock's wait queue
\* is first come, first served, so a waiter is not overtaken for ever.
Fairness ==
    \A w \in Writers :
        /\ SF_vars(AcquireLock(w))
        /\ WF_vars(BuildRow(w) \/ RejectMetadata(w) \/ Insert(w) \/ Commit(w)
                     \/ Resolve(w) \/ Return(w))

Spec == Init /\ [][Next]_vars
FairSpec == Spec /\ Fairness

-----------------------------------------------------------------------------
(***************************************************************************)
(* Properties.                                                             *)
(***************************************************************************)

\* Type correctness: rows are at positions from 1 on, a lock has holders among
\* the writers, and every call is at one of the points of createChained.
TypeOK ==
    /\ \A r \in auditLogs : r.scope \in Scopes /\ r.seq \in Nat \ {0}
    /\ lock \in [LockKeys -> SUBSET Writers]
    /\ pc \in [Writers -> {"idle", "lock", "read", "save", "commit",
                           "committed", "ok", "failed"}]
    /\ request \in [Writers -> Requests \union {NoRequest}]
    /\ \A w \in Writers : InTransaction(w) => request[w] \in Requests
    /\ DOMAIN row = Writers
    /\ \A w \in Writers : pc[w] \in {"save", "commit"} =>
           row[w].scope = request[w].scope /\ row[w].seq \in Nat \ {0}
    /\ calls \in Nat

\* The advisory lock does its work: two transactions that have read `last` of the
\* same scope never both hold a row to insert (the race of the comment at
\* audit.service.ts:53-55), and no committed row has taken the position either.
SeqNeverCollides ==
    \A w \in Writers : pc[w] \in {"save", "commit"} =>
        /\ \A r \in auditLogs : ~SameKey(r, row[w])
        /\ \A v \in Writers \ {w} : pc[v] \in {"save", "commit"} => ~SameKey(row[v], row[w])

\* Row r is a genesis row, or its predecessor is committed and r points at it.
LinksBack(r) ==
    IF r.seq = 1 THEN r.prevHash = NoHash
    ELSE \E p \in auditLogs : /\ p.scope = r.scope
                              /\ p.seq = r.seq - 1
                              /\ r.prevHash = p.chainHash

\* At every moment the committed rows of a scope form one unbroken chain from a
\* genesis row at seq 1: consecutive positions, each row unique at its position,
\* self-consistent, and pointing at the chainHash of its predecessor.
ChainLinked ==
    \A r \in auditLogs :
        /\ SelfConsistent(r)
        /\ \A q \in auditLogs : SameKey(q, r) => q = r
        /\ LinksBack(r)

\* Every call that starts is answered, whatever the other calls of its scope (or
\* of a scope with the same hashtext) do, crash or keep doing.
EveryCallAnswered ==
    \A w \in Writers : pc[w] = "lock" ~> pc[w] \in {"ok", "failed"}

\* The events of a scope in the order of their seq.
HeadSeq(s) ==
    IF RowsOf(auditLogs, s) = {} THEN 0
    ELSE CHOOSE n \in {r.seq : r \in RowsOf(auditLogs, s)} :
             \A r \in RowsOf(auditLogs, s) : r.seq <= n
EventAt(s, n) == (CHOOSE r \in RowsOf(auditLogs, s) : r.seq = n).event

Ledger == INSTANCE AuditLedger WITH
    ledger  <- [s \in Scopes |-> [n \in 1..HeadSeq(s) |-> EventAt(s, n)]],
    status  <- [w \in Writers |->
                   IF InTransaction(w) THEN "pending"
                   ELSE IF pc[w] = "committed" THEN "recorded" ELSE pc[w]],
    request <- request

\* The transactional code implements the atomic ledger: calls take effect one at
\* a time, at most once each, in the order of their seq, and an aborted call
\* leaves nothing behind.
ImplementsLedger == Ledger!Spec
=============================================================================
