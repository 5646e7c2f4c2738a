----------------------------- MODULE AuditChain -----------------------------
(***************************************************************************)
(* The hash chain of the audit log: what a stored row is, how a row is     *)
(* hashed, and what one step of the verifier checks                        *)
(* (modules/audit/audit-chain.ts, common/utils/audit-canonical.util.ts).   *)
(*                                                                         *)
(* SHA-256 is a free term over the text it is computed from: equal hashes  *)
(* mean equal texts (the collision resistance the code relies on) and a    *)
(* hash can only be produced by computing it.  Equal texts mean equal      *)
(* events only under schema v3 and v4: v1 and v2 keep an encoding that     *)
(* does not escape object keys.  A row keeps, of the columns hashed,       *)
(*   scope, seq   the position;                                            *)
(*   event        everything schema v1 already hashed beside the position  *)
(*                (tenant, user, action, outcome, metadata, ...);          *)
(*   id           identity and creation time, hashed from schema v2 on;    *)
(* and the columns the hash does not cover: schemaVersion and hashAlg.     *)
(***************************************************************************)
EXTENDS Integers

CONSTANT
    Unescaped    \* for an event with a key that needs escaping, the text the
                 \* encoding without escapes gives it: often another event's

\* The null prevHash of a genesis row, and the null hash of an empty chain.
NoHash == <<>>

\* The identity a v1 payload leaves out.
NoId == <<>>

\* The serializer registry: versions 1 to 4, all of them sha256.
SchemaVersions == 1..4
CurrentSchemaVersion == 4
HashAlg == "sha256"

\* The versions that encode with legacyStableStringify.
LegacyVersions == {1, 2}

\* stableStringify tells all events apart, so a text is named by the event it is the
\* stableStringify of.  legacyStableStringify writes keys as they are: the text of an
\* event with a quote in a key can be that of another event.  (Only metadata has free
\* keys; the columns before and after it in the text are still read off it.)
TextOf(r) ==
    IF r.schemaVersion \in LegacyVersions /\ r.event \in DOMAIN Unescaped
    THEN Unescaped[r.event]
    ELSE r.event

\* The columns the hash of a row covers, and how it sees them.
Hashed(r) ==
    [scope |-> r.scope, seq |-> r.seq, text |-> TextOf(r), prevHash |-> r.prevHash,
     id |-> IF r.schemaVersion = 1 THEN NoId ELSE r.id]

\* V1..V4.computeEventHash.
EventHashOf(r) == <<"event", r.scope, r.seq, TextOf(r), Hashed(r).id>>

\* Mutant: the previous hash is not hashed.
ChainHashOfEventOnly(prevHash, eventHash) == <<"chain", NoHash, eventHash>>

\* V1..V4.computeChainHash.
ChainHashOf(prevHash, eventHash) == <<"chain", prevHash, eventHash>>

\* A row whose two hashes are recomputed from its columns under its own version.
Rehashed(r) ==
    LET eventHash == EventHashOf(r)
    IN  [r EXCEPT !.eventHash = eventHash,
                  !.chainHash = ChainHashOf(r.prevHash, eventHash)]

\* The row createChained builds: hashed and stamped with the given serializer.
MakeRow(version, scope, seq, id, event, prevHash) ==
    Rehashed([scope |-> scope, seq |-> seq, id |-> id, event |-> event,
              prevHash |-> prevHash, eventHash |-> NoHash, chainHash |-> NoHash,
              schemaVersion |-> version, hashAlg |-> HashAlg])

RowsOf(table, scope) == {r \in table : r.scope = scope}

-----------------------------------------------------------------------------
(***************************************************************************)
(* stepChain: the reducer the verifier feeds rows to in ascending seq.     *)
(* headSeq 0 stands for null.                                              *)
(***************************************************************************)
InitialChainState ==
    [checked |-> 0, prevChainHash |-> NoHash, headSeq |-> 0, expectedSeq |-> 1]

\* The first check of stepChain that fails, in the order of the code.
BreakReason(state, row) ==
    IF state.checked = 0 /\ (row.seq # 1 \/ row.prevHash # NoHash) THEN "BAD_GENESIS"
    ELSE IF state.checked # 0 /\ row.seq # state.expectedSeq THEN "SEQ_GAP"
    ELSE IF state.checked # 0 /\ row.prevHash # state.prevChainHash THEN "PREV_HASH_MISMATCH"
    ELSE IF row.schemaVersion \notin SchemaVersions THEN "UNKNOWN_SCHEMA_VERSION"
    ELSE IF row.hashAlg # HashAlg THEN "HASH_ALG_MISMATCH"
    ELSE IF row.eventHash # EventHashOf(row) THEN "EVENT_HASH_MISMATCH"
    ELSE IF row.chainHash # ChainHashOf(row.prevHash, EventHashOf(row)) THEN "CHAIN_HASH_MISMATCH"
    ELSE "NONE"

\* The state after a row that verified.
Advance(state, row) ==
    [checked |-> state.checked + 1, prevChainHash |-> row.chainHash,
     headSeq |-> row.seq, expectedSeq |-> row.seq + 1]

-----------------------------------------------------------------------------
(***************************************************************************)
(* What a verified chain is, stated without a walk: the reference that the *)
(* walk of ChainVerifier is checked against, and the verdict the modules   *)
(* that only use the verifier read.                                        *)
(***************************************************************************)

\* The row carries the hashes its own columns give under its own version.
SelfConsistent(r) ==
    /\ r.schemaVersion \in SchemaVersions
    /\ r.hashAlg = HashAlg
    /\ r.eventHash = EventHashOf(r)
    /\ r.chainHash = ChainHashOf(r.prevHash, EventHashOf(r))

\* Position n is held by a self-consistent row that points at position n - 1.
LinkedAt(rows, n) ==
    \E r \in rows :
        /\ r.seq = n
        /\ SelfConsistent(r)
        /\ IF n = 1 THEN r.prevHash = NoHash
           ELSE \E p \in rows : p.seq = n - 1 /\ r.prevHash = p.chainHash

VerifiedTo(rows, n) == \A i \in 1..n : LinkedAt(rows, i)

\* The last position up to which everything verifies.
IsVerifiedHead(rows, n) == VerifiedTo(rows, n) /\ ~LinkedAt(rows, n + 1)

\* The chainHash at position n, null at position 0.
IsHashAt(rows, n, hash) ==
    IF n = 0 THEN hash = NoHash
    ELSE \E r \in rows : r.seq = n /\ r.chainHash = hash

\* status, headSeq and headHash are what verifying these rows must report.
IsVerdict(rows, status, headSeq, headHash) ==
    /\ IsVerifiedHead(rows, headSeq)
    /\ IsHashAt(rows, headSeq, headHash)
    /\ status = IF rows = {} THEN "EMPTY"
                ELSE IF \A r \in rows : r.seq <= headSeq THEN "VALID"
                ELSE "BROKEN"

\* A row as written: the same hashed columns and, when neither row is under a version
\* whose encoding confuses events, the same event.
AsWritten(r, w) ==
    /\ Hashed(r) = Hashed(w)
    /\ {r.schemaVersion, w.schemaVersion} \cap LegacyVersions = {} => r.event = w.event

\* (scope, seq) is unique in the table, as the unique index keeps it.
UniqueSeq(rows) == \A r, q \in rows : r.seq = q.seq => r = q
=============================================================================
