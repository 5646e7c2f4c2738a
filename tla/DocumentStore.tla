--------------------------- MODULE DocumentStore ---------------------------
(***************************************************************************)
(* Documents and vaults (modules/documents, modules/vaults) over their two *)
(* stores: the PostgreSQL tables vaults, documents and tenant_keys, and    *)
(* the objects in S3.  Nothing spans both stores and no handler opens a    *)
(* transaction: every statement and every S3 request is a step of its own, *)
(* and a call can fail, or its process crash, between any two of them.     *)
(*                                                                         *)
(*   upload        find vault, find key, [save key], put object, save row  *)
(*   download      find row and key, get object, decipher                  *)
(*   remove        find row, delete object, delete row                     *)
(*   create vault  get tenant, count, find slug, insert                    *)
(*   remove vault  find, count documents, delete (cascades)                *)
(*                                                                         *)
(* A call's first step includes its arrival.  The plaintext of a document  *)
(* is its id; a cipher text is the id and the data key it was made with.   *)
(***************************************************************************)
EXTENDS Naturals, FiniteSets

CONSTANTS
    Calls,          \* the calls in progress at once, over all instances
    Tenants,
    StoredNames,    \* `${Date.now()}_${name}`: equal for equal names in one millisecond
    Slugs,
    Limited,        \* tenants whose plan limits the number of vaults
    MaxVaults,      \* that limit
    InitialVaults,  \* rows of table vaults at the start
    MaxCalls        \* bound on the number of calls

VaultRow(id, tenant, slug, isDefault) ==
    [id |-> id, tenant |-> tenant, slug |-> slug, isDefault |-> isDefault]
IsVaultRow(v) == /\ v = VaultRow(v.id, v.tenant, v.slug, v.isDefault)
                 /\ v.tenant \in Tenants /\ v.isDefault \in BOOLEAN

ASSUME StoreBoundsAssumption ==
    /\ IsFiniteSet(Calls) /\ Calls # {}
    /\ MaxCalls \in Nat /\ MaxVaults \in Nat /\ Limited \subseteq Tenants

\* The primary key and the unique index of table vaults hold at the start, and the ids
\* to come are fresh (uuids).
ASSUME InitialVaultsAssumption ==
    /\ IsFiniteSet(InitialVaults)
    /\ \A v \in InitialVaults :
           IsVaultRow(v) /\ \A t \in Tenants, n \in 1 .. MaxCalls : v.id # <<t, n>>
    /\ \A v, w \in InitialVaults : v.id = w.id => v = w
    /\ \A v, w \in InitialVaults : v.tenant = w.tenant /\ v.slug = w.slug => v = w
    /\ \A t \in Limited : Cardinality({v \in InitialVaults : v.tenant = t}) <= MaxVaults

VARIABLES
    vaults,      \* the rows of table vaults
    documents,   \* the rows of table documents
    tenantKeys,  \* tenant -> its data key (version 1), or NoKey
    objects,     \* the objects in storage, at most one per storage key
    tempFiles,   \* the files multer has written and nobody has unlinked
    call,        \* slot -> the call in progress
    calls,       \* the number of calls so far, which is also the source of fresh ids
    stored,      \* rows of the uploads whose object was put in storage (history)
    saved,       \* ids of the documents ever saved (history)
    removing,    \* <<tenant, id>>: that tenant's removal deleted the object of id (history)
    spilled      \* uploads refused by validation, cut by a crash, or whose file could not
                 \* be unlinked (history)

vars == <<vaults, documents, tenantKeys, objects, tempFiles, call, calls,
          stored, saved, removing, spilled>>

history == <<stored, saved, removing, spilled>>

-----------------------------------------------------------------------------
NoKey == 0
Garbage == 0    \* what deciphering gives when the tag does not match

\* Mutant: tenant and vault are swapped.
SwappedDocumentRow(id, tenant, vault, name) ==
    [id |-> id, tenant |-> vault, vault |-> tenant, name |-> name]

DocumentRow(id, tenant, vault, name) ==
    [id |-> id, tenant |-> tenant, vault |-> vault, name |-> name]

\* buildStorageKey(tenantId, vaultId, storedName)
StorageKey(row) == <<row.tenant, row.vault, row.name>>
ObjectAt(key) == {o \in objects : o.key = key}

\* PutObject replaces whatever the key held.
Put(o) == (objects \ ObjectAt(o.key)) \union {o}

VaultsOf(t) == {v \in vaults : v.tenant = t}
DocumentsIn(t, id) == {d \in documents : d.tenant = t /\ d.vault = id}

\* A call: its tenant, the row of a document or of a vault that it is about, the data
\* key it encrypts with, what it streams, and the documents its vault had when it began.
CallAt(pc, tenant, row, vault, dek, body, before) ==
    [pc |-> pc, tenant |-> tenant, row |-> row, vault |-> vault, dek |-> dek,
     body |-> body, before |-> before]
NoId == <<"none", 0>>
NoRow == DocumentRow(0, "none", NoId, "none")
NoVault == VaultRow(NoId, "none", "none", FALSE)
IdleCall == CallAt("idle", "none", NoRow, NoVault, NoKey, Garbage, {})

OfDocument(pc, tenant, row) == CallAt(pc, tenant, row, NoVault, NoKey, Garbage, {})
OfVault(pc, tenant, vault, before) == CallAt(pc, tenant, NoRow, vault, NoKey, Garbage, before)

Uploading == {"findKey", "saveKey", "put", "saveDocument", "unlink"}
Creating == {"count", "findSlug", "insert"}
Dropping == {"countDocuments", "deleteVault"}

\* The call in slot c begins, and goes on with `next`.
Arrive(c, next) ==
    /\ call[c].pc = "idle"
    /\ calls < MaxCalls
    /\ calls' = calls + 1
    /\ call' = [call EXCEPT ![c] = next]

Goto(c, pc) == call' = [call EXCEPT ![c].pc = pc]

\* Mutant: the handler unlinks the file only when it succeeds.
EndKeepingFile(c) == call' = [call EXCEPT ![c] = IdleCall] /\ UNCHANGED <<tempFiles, spilled>>

\* The call answers; the `finally` of the upload handler unlinks its file, and ignores a
\* failure to do so.
End(c) ==
    /\ call' = [call EXCEPT ![c] = IdleCall]
    /\ \/ call[c].pc \notin Uploading /\ UNCHANGED <<tempFiles, spilled>>
       \/ /\ call[c].pc \in Uploading
          /\ tempFiles' = tempFiles \ {call[c].row.id}
          /\ UNCHANGED spilled
       \/ /\ call[c].pc \in Uploading
          /\ spilled' = spilled \union {call[c].row.id}
          /\ UNCHANGED tempFiles

Init ==
    /\ vaults = InitialVaults
    /\ documents = {}
    /\ tenantKeys = [t \in Tenants |-> NoKey]
    /\ objects = {}
    /\ tempFiles = {}
    /\ call = [c \in Calls |-> IdleCall]
    /\ calls = 0
    /\ stored = {}
    /\ saved = {}
    /\ removing = {}
    /\ spilled = {}

-----------------------------------------------------------------------------
(***************************************************************************)
(* POST /documents.  Multer stores the file before the handler runs.       *)
(***************************************************************************)

\* The query, the MIME type or the size is refused, outside the `try`.
RefuseUpload(c) ==
    /\ Arrive(c, IdleCall)
    /\ tempFiles' = tempFiles \union {calls'}
    /\ spilled' = spilled \union {calls'}
    /\ UNCHANGED <<vaults, documents, tenantKeys, objects, stored, saved, removing>>

\* Mutant: the vault is looked up by its id only.
BeginUploadInAnyVault(c, t, v, name) ==
    /\ Arrive(c, OfDocument("findKey", t, DocumentRow(calls + 1, t, v.id, name)))
    /\ tempFiles' = tempFiles \union {calls'}
    /\ UNCHANGED <<vaults, documents, tenantKeys, objects, history>>

\* upload finds the vault among the tenant's, and names the object.
BeginUpload(c, t, v, name) ==
    /\ v.tenant = t
    /\ Arrive(c, OfDocument("findKey", t, DocumentRow(calls + 1, t, v.id, name)))
    /\ tempFiles' = tempFiles \union {calls'}
    /\ UNCHANGED <<vaults, documents, tenantKeys, objects, history>>

\* generateDek gives a key nobody else has.
FreshDek(c) == call[c].row.id

\* getOrCreateTenantDek: the saved key is used, or a fresh one made.
FindTenantKey(c) ==
    LET t == call[c].tenant
    IN  /\ call[c].pc = "findKey"
        /\ call' = [call EXCEPT ![c] = IF tenantKeys[t] = NoKey
                                       THEN [@ EXCEPT !.pc = "saveKey", !.dek = FreshDek(c)]
                                       ELSE [@ EXCEPT !.pc = "put", !.dek = tenantKeys[t]]]
        /\ UNCHANGED <<vaults, documents, tenantKeys, objects, tempFiles, calls, history>>

\* Mutant: the loser of the race goes on with the key it made.
SaveTenantKeyIgnoringConflict(c) ==
    LET t == call[c].tenant
    IN  /\ call[c].pc = "saveKey"
        /\ tenantKeys' = IF tenantKeys[t] = NoKey THEN [tenantKeys EXCEPT ![t] = call[c].dek]
                                                 ELSE tenantKeys
        /\ Goto(c, "put")
        /\ UNCHANGED <<vaults, documents, objects, tempFiles, calls, history>>

\* INSERT against the unique index on (tenant_id, version): the second of two fails.
SaveTenantKey(c) ==
    LET t == call[c].tenant
    IN  /\ call[c].pc = "saveKey"
        /\ IF tenantKeys[t] = NoKey
           THEN /\ tenantKeys' = [tenantKeys EXCEPT ![t] = call[c].dek]
                /\ Goto(c, "put")
                /\ UNCHANGED <<tempFiles, spilled>>
           ELSE End(c) /\ UNCHANGED tenantKeys
        /\ UNCHANGED <<vaults, documents, objects, calls, stored, saved, removing>>

CipherText(c) == [key |-> StorageKey(call[c].row), doc |-> call[c].row.id, dek |-> call[c].dek]

\* Mutant: `storageUpload.done` is not awaited, and fails unnoticed.
PutObjectUnawaited(c) ==
    /\ call[c].pc = "put"
    /\ objects' \in {objects, Put(CipherText(c))}
    /\ Goto(c, "saveDocument")
    /\ stored' = stored \union {call[c].row}
    /\ UNCHANGED <<vaults, documents, tenantKeys, tempFiles, calls, saved, removing, spilled>>

\* The file is streamed through the cipher into the object, and both are awaited.
PutObject(c) ==
    /\ call[c].pc = "put"
    /\ objects' = Put(CipherText(c))
    /\ Goto(c, "saveDocument")
    /\ stored' = stored \union {call[c].row}
    /\ UNCHANGED <<vaults, documents, tenantKeys, tempFiles, calls, saved, removing, spilled>>

\* INSERT; the foreign key refuses a row whose vault is gone.
SaveDocument(c) ==
    LET row == call[c].row
    IN  /\ call[c].pc = "saveDocument"
        /\ IF \E v \in vaults : v.id = row.vault
           THEN /\ documents' = documents \union {row}
                /\ saved' = saved \union {row.id}
                /\ Goto(c, "unlink")
                /\ UNCHANGED <<tempFiles, spilled>>
           ELSE End(c) /\ UNCHANGED <<documents, saved>>
        /\ UNCHANGED <<vaults, tenantKeys, objects, calls, stored, removing>>

-----------------------------------------------------------------------------
(***************************************************************************)
(* GET /documents/:id/download and DELETE /documents/:id.                  *)
(***************************************************************************)

\* Mutant: the WHERE names the id only.
FindAnyDocument(t, id) == {d \in documents : d.id = id}

\* findOne({ where: { id, tenantId } })
FindDocument(t, id) == {d \in documents : d.tenant = t /\ d.id = id}

\* The row and then the tenant's key; saved keys do not change, so reading both in one
\* step loses nothing.
BeginDownload(c, t, id) ==
    /\ tenantKeys[t] # NoKey
    /\ \E row \in FindDocument(t, id) :
           Arrive(c, CallAt("getStream", t, row, NoVault, tenantKeys[t], Garbage, {}))
    /\ UNCHANGED <<vaults, documents, tenantKeys, objects, tempFiles, history>>

\* The deciphered stream is sent as it comes.  Under another key, IV or tag it is
\* garbage, and the tag's error only ends the answer, its status long sent.
Decipher(o, row, dek) == IF o.doc = row.id /\ o.dek = dek THEN o.doc ELSE Garbage

GetStream(c) ==
    /\ call[c].pc = "getStream"
    /\ \E o \in ObjectAt(StorageKey(call[c].row)) :
           call' = [call EXCEPT ![c] = [@ EXCEPT !.pc = "streamed",
                                       !.body = Decipher(o, call[c].row, call[c].dek)]]
    /\ UNCHANGED <<vaults, documents, tenantKeys, objects, tempFiles, calls, history>>

BeginRemove(c, t, id) ==
    /\ \E row \in FindDocument(t, id) : Arrive(c, OfDocument("deleteObject", t, row))
    /\ UNCHANGED <<vaults, documents, tenantKeys, objects, tempFiles, history>>

\* Mutant: the row is deleted first; then the process may crash.
DeleteRowFirst(c) ==
    /\ call[c].pc = "deleteObject"
    /\ documents' = documents \ {call[c].row}
    /\ Goto(c, "deleteRow")
    /\ UNCHANGED <<vaults, tenantKeys, objects, tempFiles, calls, history>>

\* DeleteObject succeeds on an absent object too.
DeleteObject(c) ==
    /\ call[c].pc = "deleteObject"
    /\ objects' = objects \ ObjectAt(StorageKey(call[c].row))
    /\ removing' = removing \union {<<call[c].tenant, call[c].row.id>>}
    /\ Goto(c, "deleteRow")
    /\ UNCHANGED <<vaults, documents, tenantKeys, tempFiles, calls, stored, saved, spilled>>

DeleteRow(c) ==
    /\ call[c].pc = "deleteRow"
    /\ documents' = documents \ FindDocument(call[c].tenant, call[c].row.id)
    /\ End(c)
    /\ UNCHANGED <<vaults, tenantKeys, objects, calls, stored, saved, removing>>

-----------------------------------------------------------------------------
(***************************************************************************)
(* POST /vaults and DELETE /vaults/:id.                                    *)
(***************************************************************************)

\* getTenant gives an active tenant with the feature and its limit; an explicit slug or
\* the name's gives a non-empty slug.
BeginCreateVault(c, t, slug) ==
    /\ Arrive(c, OfVault(IF t \in Limited THEN "count" ELSE "findSlug", t,
                         VaultRow(<<t, calls + 1>>, t, slug, FALSE), {}))
    /\ UNCHANGED <<vaults, documents, tenantKeys, objects, tempFiles, history>>

\* Mutant: the limit itself is passed.
BelowLimitInclusive(n) == n <= MaxVaults

BelowLimit(n) == n < MaxVaults

\* currentVaults >= maxVaults: 409.
CountVaults(c) ==
    /\ call[c].pc = "count"
    /\ BelowLimit(Cardinality(VaultsOf(call[c].tenant)))
    /\ Goto(c, "findSlug")
    /\ UNCHANGED <<vaults, documents, tenantKeys, objects, tempFiles, calls, history>>

SlugTaken(v) == \E w \in VaultsOf(v.tenant) : w.slug = v.slug

FindSlug(c) ==
    /\ call[c].pc = "findSlug"
    /\ ~ SlugTaken(call[c].vault)
    /\ Goto(c, "insert")
    /\ UNCHANGED <<vaults, documents, tenantKeys, objects, tempFiles, calls, history>>

\* Mutant: table vaults has no unique index on (tenant_id, slug).
InsertVaultUnchecked(c) ==
    /\ call[c].pc = "insert"
    /\ vaults' = vaults \union {call[c].vault}
    /\ End(c)
    /\ UNCHANGED <<documents, tenantKeys, objects, calls, stored, saved, removing>>

\* INSERT against the unique index on (tenant_id, slug).
InsertVault(c) ==
    /\ call[c].pc = "insert"
    /\ vaults' = IF SlugTaken(call[c].vault) THEN vaults ELSE vaults \union {call[c].vault}
    /\ End(c)
    /\ UNCHANGED <<documents, tenantKeys, objects, calls, stored, saved, removing>>

\* findOne: the tenant's, and not its default vault.
BeginRemoveVault(c, t, v) ==
    /\ v.tenant = t
    /\ ~ v.isDefault
    /\ Arrive(c, OfVault("countDocuments", t, v, {d.id : d \in DocumentsIn(t, v.id)}))
    /\ UNCHANGED <<vaults, documents, tenantKeys, objects, tempFiles, history>>

\* Mutant: the documents are not counted.
CountNoDocuments(c) ==
    /\ call[c].pc = "countDocuments"
    /\ Goto(c, "deleteVault")
    /\ UNCHANGED <<vaults, documents, tenantKeys, objects, tempFiles, calls, history>>

\* docsCount > 0: 409.
CountDocuments(c) ==
    /\ call[c].pc = "countDocuments"
    /\ DocumentsIn(call[c].tenant, call[c].vault.id) = {}
    /\ Goto(c, "deleteVault")
    /\ UNCHANGED <<vaults, documents, tenantKeys, objects, tempFiles, calls, history>>

\* DELETE; ON DELETE CASCADE takes the documents, and their objects stay.
DeleteVault(c) ==
    /\ call[c].pc = "deleteVault"
    /\ vaults' = vaults \ {call[c].vault}
    /\ documents' = {d \in documents : d.vault # call[c].vault.id}
    /\ End(c)
    /\ UNCHANGED <<tenantKeys, objects, calls, stored, saved, removing>>

-----------------------------------------------------------------------------
\* The call answers: 201 or a stream that ended, a 4xx, or an error of a statement or
\* of storage, whether or not what it asked for was done.
Answer(c) ==
    /\ call[c].pc # "idle"
    /\ End(c)
    /\ UNCHANGED <<vaults, documents, tenantKeys, objects, calls, stored, saved, removing>>

\* The process dies.
Crash(c) ==
    /\ call[c].pc # "idle"
    /\ call' = [call EXCEPT ![c] = IdleCall]
    /\ spilled' = IF call[c].pc \in Uploading THEN spilled \union {call[c].row.id} ELSE spilled
    /\ UNCHANGED <<vaults, documents, tenantKeys, objects, tempFiles, calls, stored, saved, removing>>

Step(c) ==
    \/ FindTenantKey(c) \/ SaveTenantKey(c) \/ PutObject(c) \/ SaveDocument(c)
    \/ GetStream(c) \/ DeleteObject(c) \/ DeleteRow(c)
    \/ CountVaults(c) \/ FindSlug(c) \/ InsertVault(c)
    \/ CountDocuments(c) \/ DeleteVault(c)
    \/ Answer(c) \/ Crash(c)

Next ==
    \E c \in Calls :
        \/ RefuseUpload(c)
        \/ \E t \in Tenants :
               \/ \E v \in vaults, name \in StoredNames : BeginUpload(c, t, v, name)
               \/ \E id \in 1 .. calls : BeginDownload(c, t, id) \/ BeginRemove(c, t, id)
               \/ \E slug \in Slugs : BeginCreateVault(c, t, slug)
               \/ \E v \in vaults : BeginRemoveVault(c, t, v)
        \/ Step(c)

Spec == Init /\ [][Next]_vars

-----------------------------------------------------------------------------
(***************************************************************************)
(* Properties.                                                             *)
(***************************************************************************)
CallOK(k) ==
    /\ k = CallAt(k.pc, k.tenant, k.row, k.vault, k.dek, k.body, k.before)
    /\ k.pc \in {"idle", "getStream", "streamed", "deleteObject", "deleteRow"}
                  \union Uploading \union Creating \union Dropping
    /\ k.pc # "idle" => k.tenant \in Tenants
    /\ k.pc \in Uploading => k.row.id \in 1 .. calls /\ k.row.tenant = k.tenant
    /\ k.pc \in Creating \union Dropping => IsVaultRow(k.vault) /\ k.vault.tenant = k.tenant
    /\ k.dek \in Nat

\* The types of the variables; ids are numbers of calls, and the row an upload is going
\* to save or a creation is going to insert is its own tenant's.
TypeOK ==
    /\ \A v \in vaults : IsVaultRow(v)
    /\ \A d \in documents : d.tenant \in Tenants /\ d.id \in 1 .. calls
    /\ tenantKeys \in [Tenants -> Nat]
    /\ \A o \in objects : o.doc \in 1 .. calls /\ o.dek \in Nat
    /\ DOMAIN call = Calls
    /\ \A c \in Calls : CallOK(call[c])
    /\ calls \in 0 .. MaxCalls
    /\ tempFiles \union saved \union spilled \subseteq 1 .. calls

\* However the first uploads of a tenant race for its key, whatever lies in storage, and
\* whatever is on its way there, is encrypted with the key that was saved
\* (getOrCreateTenantDek and the unique index of tenant_keys).
KeyOpensObjects ==
    /\ \A o \in objects : o.dek # NoKey /\ o.dek = tenantKeys[o.key[1]]
    /\ \A d \in documents : tenantKeys[d.tenant] # NoKey

\* A document always lies in an existing vault of its own tenant, although the vault is
\* looked up when the upload begins and may be deleted, with what it holds, at any
\* later step (upload and the foreign key of documents).
RowsInOwnVault ==
    \A d \in documents : \E v \in vaults : v.id = d.vault /\ v.tenant = d.tenant

\* Some other upload put its object under the same storage key: it began in the same
\* millisecond, in the same vault, with the same name.
Shared(row) == \E r \in stored : r.id # row.id /\ StorageKey(r) = StorageKey(row)

\* A document that can be listed has its object, unless its own tenant began to remove
\* it, or its storage key is shared (upload saves the row last, remove deletes it last;
\* no other tenant's call touches the object).
RowHasObject ==
    \A d \in documents :
        \/ \E o \in ObjectAt(StorageKey(d)) : o.doc = d.id
        \/ <<d.tenant, d.id>> \in removing
        \/ Shared(d)

\* What a download streams is a document of its tenant, and is what was uploaded,
\* whatever else is uploaded or removed meanwhile, unless the storage key is shared
\* (getForDownloadStream).
DownloadGivesUpload ==
    \A c \in Calls : call[c].pc = "streamed" =>
        /\ call[c].row.tenant = call[c].tenant
        /\ call[c].body = call[c].row.id \/ Shared(call[c].row)

\* The object of a document that was saved outlives its row only when the row went with
\* its vault: a removal that fails or crashes never leaves an object nobody can find
\* (remove in documents.service.ts against the cascade of vaults.service.ts).
OrphansExplained ==
    \A o \in objects : o.doc \in saved =>
        \/ \E d \in documents : d.id = o.doc
        \/ \A v \in vaults : v.id # o.key[2]

\* Two vaults of a tenant never have one slug, although the check and the insert of
\* create are two statements.
SlugsUnique ==
    \A v, w \in vaults : v.tenant = w.tenant /\ v.slug = w.slug => v = w

\* Counting before inserting lets concurrent creations pass the plan's limit together:
\* by at most one vault for each further call in progress.
LimitOverrunBounded ==
    \A t \in Limited : Cardinality(VaultsOf(t)) < MaxVaults + Cardinality(Calls)

\* A row disappears by its own removal, or with its vault; and then it was not in the
\* vault when the removal of the vault began (remove in vaults.service.ts: "Vault
\* cannot be deleted while it still contains documents").
VaultRemovalSparesDocuments ==
    [][\A d \in documents \ documents' : \E c \in Calls :
           \/ call[c].pc = "deleteRow" /\ call[c].row.id = d.id
           \/ /\ call[c].pc = "deleteVault"
              /\ call[c].vault.id = d.vault
              /\ d.id \notin call[c].before]_vars

\* A temporary file belongs to an upload in progress, or was left by a crash, by a
\* refusal before the handler's `try`, or by an unlink that failed unnoticed
\* (documents.controller.ts).
TempFilesAccounted ==
    \A f \in tempFiles \ spilled :
        \E c \in Calls : call[c].pc \in Uploading /\ call[c].row.id = f
=============================================================================
