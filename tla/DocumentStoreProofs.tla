------------------------ MODULE DocumentStoreProofs ------------------------
(***************************************************************************)
(* Theorems about DocumentStore, for every set of tenants, slugs, names    *)
(* and slots and every bound: what the API's calls on documents and        *)
(* vaults keep true of the tenants' keys, the vaults, the document rows,   *)
(* the objects and the files multer leaves, however they interleave and    *)
(* whichever of them the process drops.                                    *)
(***************************************************************************)
EXTENDS DocumentStore, FiniteSetTheorems, TLAPS

-----------------------------------------------------------------------------
(***************************************************************************)
(* What a step does to the slots.                                          *)
(***************************************************************************)

\* The call k, gone on to pc.
At(k, pc) == CallAt(pc, k.tenant, k.row, k.vault, k.dek, k.body, k.before)

\* Only slot c changes, and it now holds k.
Becomes(c, k) ==
    /\ DOMAIN call' = Calls
    /\ call'[c] = k
    /\ \A b \in Calls : b # c => call'[b] = call[b]

LEMMA SlotBecomes ==
  ASSUME TypeOK, NEW c \in Calls, NEW k, call' = [call EXCEPT ![c] = k]
  PROVE  Becomes(c, k)
  BY DEF TypeOK, Becomes

LEMMA GotoBecomes ==
  ASSUME TypeOK, NEW c \in Calls, NEW pc, Goto(c, pc)
  PROVE  Becomes(c, At(call[c], pc))
  <1>1. DOMAIN call = Calls /\ CallOK(call[c])
    BY DEF TypeOK
  <1>2. call' = [call EXCEPT ![c] = [call[c] EXCEPT !.pc = pc]]
    BY DEF Goto
  <1>3. [call[c] EXCEPT !.pc = pc] = At(call[c], pc)
    BY <1>1 DEF CallOK, CallAt, At
  <1>. QED  BY <1>2, <1>3, SlotBecomes

LEMMA EndBecomes ==
  ASSUME TypeOK, NEW c \in Calls, End(c)
  PROVE  Becomes(c, IdleCall)
  BY SlotBecomes DEF End

LEMMA ArriveBecomes ==
  ASSUME TypeOK, NEW c \in Calls, NEW k, Arrive(c, k)
  PROVE  /\ Becomes(c, k)
         /\ call[c].pc = "idle"
         /\ calls \in Nat /\ calls < MaxCalls /\ calls' = calls + 1
         /\ calls' \in 1 .. MaxCalls
  <1>1. calls \in 0 .. MaxCalls
    BY DEF TypeOK
  <1>2. MaxCalls \in Nat
    BY StoreBoundsAssumption
  <1>3. call' = [call EXCEPT ![c] = k]
    BY DEF Arrive
  <1>4. Becomes(c, k)
    BY <1>3, SlotBecomes
  <1>5. call[c].pc = "idle" /\ calls < MaxCalls /\ calls' = calls + 1
    BY DEF Arrive
  <1>. QED  BY <1>1, <1>2, <1>4, <1>5

\* Two fields of a call are replaced.
LEMMA CallWithKey ==
  ASSUME NEW k, CallOK(k), NEW pc, NEW dek
  PROVE  [k EXCEPT !.pc = pc, !.dek = dek]
           = CallAt(pc, k.tenant, k.row, k.vault, dek, k.body, k.before)
  <1>. DEFINE m == CallAt(pc, k.tenant, k.row, k.vault, k.dek, k.body, k.before)
  <1>1. [k EXCEPT !.pc = pc] = m
    BY DEF CallOK, CallAt
  <1>2. [m EXCEPT !.dek = dek] = CallAt(pc, k.tenant, k.row, k.vault, dek, k.body, k.before)
    BY DEF CallAt
  <1>. HIDE DEF m
  <1>3. [k EXCEPT !.pc = pc, !.dek = dek] = [[k EXCEPT !.pc = pc] EXCEPT !.dek = dek]
    OBVIOUS
  <1>. QED  BY <1>1, <1>2, <1>3

LEMMA CallWithBody ==
  ASSUME NEW k, CallOK(k), NEW pc, NEW body
  PROVE  [k EXCEPT !.pc = pc, !.body = body]
           = CallAt(pc, k.tenant, k.row, k.vault, k.dek, body, k.before)
  <1>. DEFINE m == CallAt(pc, k.tenant, k.row, k.vault, k.dek, k.body, k.before)
  <1>1. [k EXCEPT !.pc = pc] = m
    BY DEF CallOK, CallAt
  <1>2. [m EXCEPT !.body = body] = CallAt(pc, k.tenant, k.row, k.vault, k.dek, body, k.before)
    BY DEF CallAt
  <1>. HIDE DEF m
  <1>3. [k EXCEPT !.pc = pc, !.body = body] = [[k EXCEPT !.pc = pc] EXCEPT !.body = body]
    OBVIOUS
  <1>. QED  BY <1>1, <1>2, <1>3

LEMMA FindTenantKeyBecomes ==
  ASSUME TypeOK, NEW c \in Calls, FindTenantKey(c)
  PROVE  LET k == call[c]
             old == tenantKeys[k.tenant]
         IN  /\ old = NoKey => Becomes(c, CallAt("saveKey", k.tenant, k.row, k.vault,
                                                 k.row.id, k.body, k.before))
             /\ old # NoKey => Becomes(c, CallAt("put", k.tenant, k.row, k.vault,
                                                 old, k.body, k.before))
  <1>. DEFINE k == call[c]
              old == tenantKeys[k.tenant]
  <1>1. DOMAIN call = Calls /\ CallOK(k)
    BY DEF TypeOK
  <1>2. CASE old = NoKey
    <2>1. call' = [call EXCEPT ![c] = [k EXCEPT !.pc = "saveKey", !.dek = k.row.id]]
      BY <1>2 DEF FindTenantKey, FreshDek
    <2>2. [k EXCEPT !.pc = "saveKey", !.dek = k.row.id]
            = CallAt("saveKey", k.tenant, k.row, k.vault, k.row.id, k.body, k.before)
      BY <1>1, CallWithKey
    <2>. QED  BY <1>2, <2>1, <2>2, SlotBecomes
  <1>3. CASE old # NoKey
    <2>1. call' = [call EXCEPT ![c] = [k EXCEPT !.pc = "put", !.dek = old]]
      BY <1>3 DEF FindTenantKey
    <2>2. [k EXCEPT !.pc = "put", !.dek = old]
            = CallAt("put", k.tenant, k.row, k.vault, old, k.body, k.before)
      BY <1>1, CallWithKey
    <2>. QED  BY <1>3, <2>1, <2>2, SlotBecomes
  <1>. QED  BY <1>2, <1>3

LEMMA GetStreamBecomes ==
  ASSUME TypeOK, NEW c \in Calls, GetStream(c)
  PROVE  \E o \in ObjectAt(StorageKey(call[c].row)) :
            Becomes(c, CallAt("streamed", call[c].tenant, call[c].row, call[c].vault,
                              call[c].dek, Decipher(o, call[c].row, call[c].dek),
                              call[c].before))
  <1>. DEFINE k == call[c]
  <1>1. DOMAIN call = Calls /\ CallOK(k)
    BY DEF TypeOK
  <1>2. PICK o \in ObjectAt(StorageKey(k.row)) :
           call' = [call EXCEPT ![c] = [k EXCEPT !.pc = "streamed",
                                                 !.body = Decipher(o, k.row, k.dek)]]
    BY DEF GetStream
  <1>. DEFINE body == Decipher(o, k.row, k.dek)
  <1>. HIDE DEF body
  <1>3. call' = [call EXCEPT ![c] = [k EXCEPT !.pc = "streamed", !.body = body]]
    BY <1>2 DEF body
  <1>4. [k EXCEPT !.pc = "streamed", !.body = body]
          = CallAt("streamed", k.tenant, k.row, k.vault, k.dek, body, k.before)
    BY <1>1, CallWithBody
  <1>. QED  BY <1>3, <1>4, SlotBecomes DEF body

\* What most of the proofs need of these two.
LEMMA KeyFound ==
  ASSUME TypeOK, NEW c \in Calls, FindTenantKey(c)
  PROVE  \E k : Becomes(c, k) /\ k.pc \in {"saveKey", "put"} /\ k.row = call[c].row
  <1>1. CASE tenantKeys[call[c].tenant] = NoKey
    <2>1. Becomes(c, CallAt("saveKey", call[c].tenant, call[c].row, call[c].vault,
                            call[c].row.id, call[c].body, call[c].before))
      BY <1>1, FindTenantKeyBecomes
    <2>. QED  BY <2>1 DEF CallAt
  <1>2. CASE tenantKeys[call[c].tenant] # NoKey
    <2>1. Becomes(c, CallAt("put", call[c].tenant, call[c].row, call[c].vault,
                            tenantKeys[call[c].tenant], call[c].body, call[c].before))
      BY <1>2, FindTenantKeyBecomes
    <2>. QED  BY <2>1 DEF CallAt
  <1>. QED  BY <1>1, <1>2

LEMMA Streamed ==
  ASSUME TypeOK, NEW c \in Calls, GetStream(c)
  PROVE  \E k : /\ Becomes(c, k) /\ k.pc = "streamed"
                /\ k.row = call[c].row /\ k.tenant = call[c].tenant
  <1>1. PICK o \in ObjectAt(StorageKey(call[c].row)) :
          Becomes(c, CallAt("streamed", call[c].tenant, call[c].row, call[c].vault,
                            call[c].dek, Decipher(o, call[c].row, call[c].dek),
                            call[c].before))
    BY GetStreamBecomes
  <1>. QED  BY <1>1 DEF CallAt

-----------------------------------------------------------------------------
(***************************************************************************)
(* Type correctness.                                                       *)
(***************************************************************************)
LEMMA IdleType == CallOK(IdleCall)
  BY DEF CallOK, IdleCall, CallAt, NoKey, Uploading, Creating, Dropping

LEMMA CallsGrow ==
  ASSUME TypeOK, calls' \in 0 .. MaxCalls, calls <= calls'
  PROVE  /\ 1 .. calls \subseteq 1 .. calls'
         /\ calls \in Nat /\ calls' \in Nat
  <1>1. calls \in Nat /\ calls' \in Nat
    <2>1. MaxCalls \in Nat
      BY StoreBoundsAssumption
    <2>. QED  BY <2>1 DEF TypeOK
  <1>. QED  BY <1>1

\* A step of slot c keeps the calls well formed when what c then holds is.
LEMMA CallsType ==
  ASSUME TypeOK, NEW c \in Calls, NEW k, Becomes(c, k), (CallOK(call[c]))',
         calls' \in 0 .. MaxCalls, calls <= calls'
  PROVE  (DOMAIN call = Calls /\ \A b \in Calls : CallOK(call[b]))'
  <1>1. 1 .. calls \subseteq 1 .. calls'
    BY CallsGrow
  <1>2. ASSUME NEW b \in Calls, b # c PROVE (CallOK(call[b]))'
    <2>1. call'[b] = call[b] /\ CallOK(call[b])
      BY <1>2 DEF Becomes, TypeOK
    <2>. QED  BY <1>1, <2>1 DEF CallOK
  <1>3. DOMAIN call' = Calls
    BY DEF Becomes
  <1>. QED  BY <1>2, <1>3

LEMMA InitType == Init => TypeOK
  <1>. SUFFICES ASSUME Init PROVE TypeOK
    OBVIOUS
  <1>1. DOMAIN call = Calls /\ \A c \in Calls : CallOK(call[c])
    BY IdleType DEF Init
  <1>2. calls \in 0 .. MaxCalls
    BY StoreBoundsAssumption DEF Init
  <1>3. \A v \in vaults : IsVaultRow(v)
    BY InitialVaultsAssumption DEF Init
  <1>4. tenantKeys \in [Tenants -> Nat]
    BY DEF Init, NoKey
  <1>. QED  BY <1>1, <1>2, <1>3, <1>4 DEF Init, TypeOK

\* What an arrival must keep of the types.
LEMMA ArrivalType ==
  ASSUME TypeOK, NEW c \in Calls, NEW k, Arrive(c, k), (CallOK(call[c]))',
         UNCHANGED <<vaults, documents, tenantKeys, objects, saved>>,
         tempFiles' \subseteq tempFiles \union {calls'},
         spilled' \subseteq spilled \union {calls'}
  PROVE  TypeOK'
  <1>1. Becomes(c, k) /\ calls' = calls + 1 /\ calls \in Nat /\ calls' \in 1 .. MaxCalls
    BY ArriveBecomes
  <1>2. calls' \in 0 .. MaxCalls /\ calls <= calls'
    BY <1>1
  <1>3. 1 .. calls \subseteq 1 .. calls' /\ calls' \in 1 .. calls'
    BY <1>1
  <1>4. (DOMAIN call = Calls /\ \A b \in Calls : CallOK(call[b]))'
    BY <1>1, <1>2, CallsType
  <1>. QED  BY <1>2, <1>3, <1>4 DEF TypeOK

\* What any other step must keep of the types.
LEMMA StepType ==
  ASSUME TypeOK, NEW c \in Calls, NEW k, Becomes(c, k), (CallOK(call[c]))', calls' = calls,
         \A v \in vaults' : IsVaultRow(v),
         \A d \in documents' : d.tenant \in Tenants /\ d.id \in 1 .. calls,
         tenantKeys' \in [Tenants -> Nat],
         \A o \in objects' : o.doc \in 1 .. calls /\ o.dek \in Nat,
         tempFiles' \union saved' \union spilled' \subseteq 1 .. calls
  PROVE  TypeOK'
  <1>1. calls \in 0 .. MaxCalls /\ calls \in Nat
    BY CallsGrow, StoreBoundsAssumption DEF TypeOK
  <1>2. (DOMAIN call = Calls /\ \A b \in Calls : CallOK(call[b]))'
    BY <1>1, CallsType
  <1>. QED  BY <1>1, <1>2 DEF TypeOK

\* What a call carries, in a form the types of its next step follow from.
LEMMA CarriedType ==
  ASSUME TypeOK, NEW c \in Calls
  PROVE  /\ CallOK(call[c])
         /\ call[c].dek \in Nat
         /\ call[c].pc # "idle" => call[c].tenant \in Tenants
         /\ call[c].pc \in Uploading =>
              call[c].row.id \in 1 .. calls /\ call[c].row.tenant = call[c].tenant
         /\ call[c].pc \in Creating \union Dropping =>
              IsVaultRow(call[c].vault) /\ call[c].vault.tenant = call[c].tenant
  BY DEF TypeOK, CallOK

\* Leaving Uploading, a file is unlinked or left behind.
LEMMA EndFiles ==
  ASSUME TypeOK, NEW c \in Calls, End(c)
  PROVE  /\ tempFiles' \subseteq tempFiles /\ spilled' \subseteq 1 .. calls
         /\ tempFiles' \union spilled' \subseteq 1 .. calls
         /\ spilled \subseteq spilled'
  <1>1. tempFiles \union spilled \subseteq 1 .. calls
    BY DEF TypeOK
  <1>2. call[c].pc \in Uploading => call[c].row.id \in 1 .. calls
    BY CarriedType
  <1>. QED  BY <1>1, <1>2 DEF End

\* A slot that becomes idle is well typed.
LEMMA IdleSlotType ==
  ASSUME NEW c, call'[c] = IdleCall
  PROVE  (CallOK(call[c]))'
  BY DEF CallOK, IdleCall, CallAt, NoKey, Uploading, Creating, Dropping

\* A call that goes on within its handler is well typed.
LEMMA AtType ==
  ASSUME TypeOK, NEW c \in Calls, NEW pc, Becomes(c, At(call[c], pc)), calls' = calls,
         \/ call[c].pc \in Uploading /\ pc \in Uploading
         \/ call[c].pc \in Creating /\ pc \in Creating
         \/ call[c].pc \in Dropping /\ pc \in Dropping
         \/ call[c].pc # "idle" /\ pc = "deleteRow"
  PROVE  (CallOK(call[c]))'
  <1>1. CallOK(call[c])
    BY CarriedType
  <1>2. call'[c] = At(call[c], pc)
    BY DEF Becomes
  <1>. QED  BY <1>1, <1>2 DEF CallOK, At, CallAt, Uploading, Creating, Dropping

\* A call answers, and nothing but rows goes.
LEMMA EndType ==
  ASSUME TypeOK, NEW c \in Calls, End(c), calls' = calls,
         \A v \in vaults' : IsVaultRow(v), documents' \subseteq documents,
         tenantKeys' = tenantKeys, objects' = objects, saved' = saved
  PROVE  TypeOK'
  <1>1. Becomes(c, IdleCall) /\ tempFiles' \union spilled' \subseteq 1 .. calls
    BY EndBecomes, EndFiles
  <1>2. (CallOK(call[c]))'
    BY <1>1, IdleSlotType DEF Becomes
  <1>. QED  BY <1>1, <1>2, StepType DEF TypeOK

\* A call on a vault goes on.
LEMMA VaultCallType ==
  ASSUME TypeOK, NEW c \in Calls, NEW pc, Goto(c, pc),
         \/ call[c].pc \in Creating /\ pc \in Creating
         \/ call[c].pc \in Dropping /\ pc \in Dropping,
         UNCHANGED <<vaults, documents, tenantKeys, objects, tempFiles, calls, history>>
  PROVE  TypeOK'
  <1>1. Becomes(c, At(call[c], pc)) /\ calls' = calls
    BY GotoBecomes
  <1>2. (CallOK(call[c]))'
    BY <1>1, AtType
  <1>. QED  BY <1>1, <1>2, StepType DEF TypeOK, history

LEMMA NextType == TypeOK /\ [Next]_vars => TypeOK'
  <1>. SUFFICES ASSUME TypeOK, [Next]_vars PROVE TypeOK'
    OBVIOUS
  <1>. USE DEF history
  <1>1. ASSUME NEW c \in Calls, RefuseUpload(c) PROVE TypeOK'
    <2>1. (CallOK(call[c]))'
      BY <1>1, ArriveBecomes, IdleSlotType DEF RefuseUpload, Becomes
    <2>. QED  BY <1>1, <2>1, ArrivalType DEF RefuseUpload
  <1>2. ASSUME NEW c \in Calls, NEW t \in Tenants, NEW v \in vaults, NEW name,
               BeginUpload(c, t, v, name)
        PROVE  TypeOK'
    <2>1. Arrive(c, OfDocument("findKey", t, DocumentRow(calls + 1, t, v.id, name)))
      BY <1>2 DEF BeginUpload
    <2>2. (CallOK(call[c]))'
      BY <2>1, ArriveBecomes
      DEF Becomes, CallOK, OfDocument, CallAt, DocumentRow, NoKey, Uploading, Creating, Dropping
    <2>. QED  BY <1>2, <2>1, <2>2, ArrivalType DEF BeginUpload
  <1>3. ASSUME NEW c \in Calls, NEW t \in Tenants, NEW id, BeginDownload(c, t, id)
        PROVE  TypeOK'
    <2>1. PICK row \in FindDocument(t, id) :
             Arrive(c, CallAt("getStream", t, row, NoVault, tenantKeys[t], Garbage, {}))
      BY <1>3 DEF BeginDownload
    <2>2. tenantKeys[t] \in Nat
      BY DEF TypeOK
    <2>3. (CallOK(call[c]))'
      BY <2>1, <2>2, ArriveBecomes DEF Becomes, CallOK, CallAt, Uploading, Creating, Dropping
    <2>. QED  BY <1>3, <2>1, <2>3, ArrivalType DEF BeginDownload
  <1>4. ASSUME NEW c \in Calls, NEW t \in Tenants, NEW id, BeginRemove(c, t, id)
        PROVE  TypeOK'
    <2>1. PICK row \in FindDocument(t, id) : Arrive(c, OfDocument("deleteObject", t, row))
      BY <1>4 DEF BeginRemove
    <2>2. (CallOK(call[c]))'
      BY <2>1, ArriveBecomes
      DEF Becomes, CallOK, OfDocument, CallAt, NoKey, Uploading, Creating, Dropping
    <2>. QED  BY <1>4, <2>1, <2>2, ArrivalType DEF BeginRemove
  <1>5. ASSUME NEW c \in Calls, NEW t \in Tenants, NEW slug, BeginCreateVault(c, t, slug)
        PROVE  TypeOK'
    <2>. DEFINE pc == IF t \in Limited THEN "count" ELSE "findSlug"
                vault == VaultRow(<<t, calls + 1>>, t, slug, FALSE)
    <2>1. Arrive(c, OfVault(pc, t, vault, {}))
      BY <1>5 DEF BeginCreateVault
    <2>2. IsVaultRow(vault) /\ vault.tenant = t
      BY DEF IsVaultRow, VaultRow
    <2>3. pc \in {"count", "findSlug"}
      OBVIOUS
    <2>. HIDE DEF pc, vault
    <2>4. (CallOK(call[c]))'
      BY <2>1, <2>2, <2>3, ArriveBecomes
      DEF Becomes, CallOK, OfVault, CallAt, NoKey, Uploading, Creating, Dropping
    <2>. QED  BY <1>5, <2>1, <2>4, ArrivalType DEF BeginCreateVault
  <1>6. ASSUME NEW c \in Calls, NEW t \in Tenants, NEW v \in vaults, BeginRemoveVault(c, t, v)
        PROVE  TypeOK'
    <2>. DEFINE before == {d.id : d \in DocumentsIn(t, v.id)}
    <2>1. Arrive(c, OfVault("countDocuments", t, v, before))
      BY <1>6 DEF BeginRemoveVault
    <2>2. IsVaultRow(v) /\ v.tenant = t
      BY <1>6 DEF TypeOK, BeginRemoveVault
    <2>. HIDE DEF before
    <2>3. (CallOK(call[c]))'
      BY <2>1, <2>2, ArriveBecomes
      DEF Becomes, CallOK, OfVault, CallAt, NoKey, Uploading, Creating, Dropping
    <2>. QED  BY <1>6, <2>1, <2>3, ArrivalType DEF BeginRemoveVault
  <1>7. ASSUME NEW c \in Calls, FindTenantKey(c) PROVE TypeOK'
    <2>. DEFINE k == call[c]
                old == tenantKeys[k.tenant]
    <2>1. /\ CallOK(k) /\ k.pc = "findKey"
          /\ old = NoKey => call'[c] = CallAt("saveKey", k.tenant, k.row, k.vault,
                                              k.row.id, k.body, k.before)
          /\ old # NoKey => call'[c] = CallAt("put", k.tenant, k.row, k.vault,
                                              old, k.body, k.before)
      BY <1>7, CarriedType, FindTenantKeyBecomes DEF FindTenantKey, Becomes
    <2>2. k.row.id \in 1 .. calls /\ old \in Nat /\ calls' = calls
      BY <1>7, <2>1, CarriedType DEF TypeOK, Uploading, FindTenantKey
    <2>. HIDE DEF old, k
    <2>3. (CallOK(call[c]))'
      BY <2>1, <2>2 DEF CallOK, CallAt, Uploading, Creating, Dropping
    <2>4. \E m : Becomes(c, m)
      BY <1>7, FindTenantKeyBecomes
    <2>. QED  BY <1>7, <2>3, <2>4, StepType DEF FindTenantKey, TypeOK
  <1>8. ASSUME NEW c \in Calls, SaveTenantKey(c) PROVE TypeOK'
    <2>1. call[c].pc = "saveKey" /\ call[c].tenant \in Tenants /\ call[c].dek \in Nat
          /\ calls' = calls
      BY <1>8, CarriedType DEF SaveTenantKey
    <2>2. CASE tenantKeys[call[c].tenant] = NoKey
      <3>1. Becomes(c, At(call[c], "put"))
        BY <1>8, <2>2, GotoBecomes DEF SaveTenantKey
      <3>2. (CallOK(call[c]))'
        BY <2>1, <3>1, AtType DEF Uploading
      <3>3. tenantKeys' \in [Tenants -> Nat]
        BY <1>8, <2>1, <2>2 DEF SaveTenantKey, TypeOK
      <3>. QED  BY <1>8, <2>2, <3>1, <3>2, <3>3, StepType DEF SaveTenantKey, TypeOK
    <2>3. CASE tenantKeys[call[c].tenant] # NoKey
      <3>1. Becomes(c, IdleCall) /\ tempFiles' \union spilled' \subseteq 1 .. calls
        BY <1>8, <2>3, EndBecomes, EndFiles DEF SaveTenantKey
      <3>2. (CallOK(call[c]))'
        BY <3>1, IdleSlotType DEF Becomes
      <3>. QED  BY <1>8, <2>3, <3>1, <3>2, StepType DEF SaveTenantKey, TypeOK
    <2>. QED  BY <2>2, <2>3
  <1>9. ASSUME NEW c \in Calls, PutObject(c) PROVE TypeOK'
    <2>1. Becomes(c, At(call[c], "saveDocument")) /\ call[c].pc = "put" /\ calls' = calls
      BY <1>9, GotoBecomes DEF PutObject
    <2>2. (CallOK(call[c]))'
      BY <2>1, AtType DEF Uploading
    <2>3. \A o \in objects' : o.doc \in 1 .. calls /\ o.dek \in Nat
      <3>1. CipherText(c).doc \in 1 .. calls /\ CipherText(c).dek \in Nat
        BY <2>1, CarriedType DEF CipherText, Uploading
      <3>. QED  BY <1>9, <3>1 DEF PutObject, Put, TypeOK
    <2>. QED  BY <1>9, <2>1, <2>2, <2>3, StepType DEF PutObject, TypeOK
  <1>10. ASSUME NEW c \in Calls, SaveDocument(c) PROVE TypeOK'
    <2>. DEFINE row == call[c].row
    <2>1. call[c].pc = "saveDocument" /\ calls' = calls
          /\ row.id \in 1 .. calls /\ row.tenant \in Tenants
      BY <1>10, CarriedType DEF SaveDocument, Uploading
    <2>2. CASE \E v \in vaults : v.id = row.vault
      <3>1. Becomes(c, At(call[c], "unlink"))
        BY <1>10, <2>2, GotoBecomes DEF SaveDocument
      <3>2. (CallOK(call[c]))'
        BY <2>1, <3>1, AtType DEF Uploading
      <3>. QED  BY <1>10, <2>1, <2>2, <3>1, <3>2, StepType DEF SaveDocument, TypeOK
    <2>3. CASE ~ \E v \in vaults : v.id = row.vault
      <3>1. Becomes(c, IdleCall) /\ tempFiles' \union spilled' \subseteq 1 .. calls
        BY <1>10, <2>3, EndBecomes, EndFiles DEF SaveDocument
      <3>2. (CallOK(call[c]))'
        BY <3>1, IdleSlotType DEF Becomes
      <3>. QED  BY <1>10, <2>3, <3>1, <3>2, StepType DEF SaveDocument, TypeOK
    <2>. QED  BY <2>2, <2>3
  <1>11. ASSUME NEW c \in Calls, GetStream(c) PROVE TypeOK'
    <2>1. PICK o \in ObjectAt(StorageKey(call[c].row)) :
            Becomes(c, CallAt("streamed", call[c].tenant, call[c].row, call[c].vault,
                              call[c].dek, Decipher(o, call[c].row, call[c].dek),
                              call[c].before))
      BY <1>11, GetStreamBecomes
    <2>2. call[c].pc = "getStream" /\ CallOK(call[c]) /\ calls' = calls
      BY <1>11, CarriedType DEF GetStream
    <2>3. (CallOK(call[c]))'
      BY <2>1, <2>2 DEF Becomes, CallOK, CallAt, Uploading, Creating, Dropping
    <2>. QED  BY <1>11, <2>1, <2>3, StepType DEF GetStream, TypeOK
  <1>12. ASSUME NEW c \in Calls, DeleteObject(c) PROVE TypeOK'
    <2>1. Becomes(c, At(call[c], "deleteRow")) /\ call[c].pc = "deleteObject" /\ calls' = calls
      BY <1>12, GotoBecomes DEF DeleteObject
    <2>2. (CallOK(call[c]))'
      BY <2>1, AtType
    <2>. QED  BY <1>12, <2>1, <2>2, StepType DEF DeleteObject, TypeOK
  <1>15. ASSUME NEW c \in Calls, Crash(c) PROVE TypeOK'
    <2>1. Becomes(c, IdleCall)
      BY <1>15, SlotBecomes DEF Crash
    <2>2. (CallOK(call[c]))'
      BY <2>1, IdleSlotType DEF Becomes
    <2>3. spilled' \subseteq 1 .. calls
      BY <1>15, CarriedType DEF Crash, TypeOK
    <2>. QED  BY <1>15, <2>1, <2>2, <2>3, StepType DEF Crash, TypeOK
  <1>16. ASSUME NEW c \in Calls, Step(c) PROVE TypeOK'
    <2>1. ASSUME DeleteRow(c) PROVE TypeOK'
      BY <2>1, EndType DEF DeleteRow, TypeOK
    <2>2. ASSUME CountVaults(c) PROVE TypeOK'
      BY <2>2, VaultCallType DEF CountVaults, Creating
    <2>3. ASSUME FindSlug(c) PROVE TypeOK'
      BY <2>3, VaultCallType DEF FindSlug, Creating
    <2>4. ASSUME InsertVault(c) PROVE TypeOK'
      <3>1. \A v \in vaults' : IsVaultRow(v)
        BY <2>4, CarriedType DEF InsertVault, TypeOK, Creating
      <3>. QED  BY <2>4, <3>1, EndType DEF InsertVault
    <2>5. ASSUME CountDocuments(c) PROVE TypeOK'
      BY <2>5, VaultCallType DEF CountDocuments, Dropping
    <2>6. ASSUME DeleteVault(c) PROVE TypeOK'
      BY <2>6, EndType DEF DeleteVault, TypeOK
    <2>7. ASSUME Answer(c) PROVE TypeOK'
      BY <2>7, EndType DEF Answer, TypeOK
    <2>. QED
      BY <1>7, <1>8, <1>9, <1>10, <1>11, <1>12, <1>15, <1>16,
         <2>1, <2>2, <2>3, <2>4, <2>5, <2>6, <2>7 DEF Step
  <1>17. CASE UNCHANGED vars
    BY <1>17 DEF vars, TypeOK, CallOK
  <1>. QED  BY <1>1, <1>2, <1>3, <1>4, <1>5, <1>6, <1>16, <1>17 DEF Next

\* The variables keep their types: ids are numbers of calls, and what an upload is going
\* to save or a creation to insert is its own tenant's.
THEOREM TypeCorrect == Spec => []TypeOK
  BY InitType, NextType, PTL DEF Spec

-----------------------------------------------------------------------------
(***************************************************************************)
(* The steps, sorted by what they can disturb.                             *)
(***************************************************************************)

\* A step of a call on vaults, or of any call that answers, is refused or dies: no
\* document, key or object comes, and no object goes.
VaultStep(c) ==
    \E k :
        /\ Becomes(c, k)
        /\ k.pc \in {"idle"} \union Creating \union Dropping
        /\ k.pc \in Dropping => \/ k.before = {d.id : d \in DocumentsIn(k.tenant, k.vault.id)}
                                \/ call[c].pc \in Dropping /\ k.before = call[c].before
        /\ k.pc = "deleteVault" => CountDocuments(c)
        /\ documents' \subseteq documents
        /\ UNCHANGED <<tenantKeys, objects, stored, saved, removing>>
        /\ calls' \in {calls, calls + 1}

\* The steps of the calls on documents that change something.
SavesKey(c) ==
    /\ SaveTenantKey(c)
    /\ tenantKeys[call[c].tenant] = NoKey
    /\ Becomes(c, At(call[c], "put"))
Saves(c) ==
    /\ SaveDocument(c)
    /\ \E v \in vaults : v.id = call[c].row.vault
    /\ Becomes(c, At(call[c], "unlink"))
Puts(c) == PutObject(c) /\ Becomes(c, At(call[c], "saveDocument"))
DeletesObject(c) == DeleteObject(c) /\ Becomes(c, At(call[c], "deleteRow"))
DeletesRow(c) == DeleteRow(c) /\ Becomes(c, IdleCall)
BeginsUpload(c) ==
    \E t \in Tenants, v \in vaults, name \in StoredNames :
        /\ BeginUpload(c, t, v, name)
        /\ Becomes(c, OfDocument("findKey", t, DocumentRow(calls + 1, t, v.id, name)))
BeginsDownload(c) ==
    \E t \in Tenants, id \in 1 .. calls : \E row \in FindDocument(t, id) :
        /\ BeginDownload(c, t, id)
        /\ Becomes(c, CallAt("getStream", t, row, NoVault, tenantKeys[t], Garbage, {}))
BeginsRemove(c) ==
    \E t \in Tenants, id \in 1 .. calls : \E row \in FindDocument(t, id) :
        /\ BeginRemove(c, t, id)
        /\ Becomes(c, OfDocument("deleteObject", t, row))

DocumentStep(c) ==
    \/ BeginsUpload(c) \/ FindTenantKey(c) \/ SavesKey(c) \/ Puts(c) \/ Saves(c)
    \/ BeginsDownload(c) \/ GetStream(c)
    \/ BeginsRemove(c) \/ DeletesObject(c) \/ DeletesRow(c)

\* A slot left by its call.
LEMMA LeavingStep ==
  ASSUME NEW c \in Calls, Becomes(c, IdleCall), documents' \subseteq documents,
         tenantKeys' = tenantKeys, objects' = objects,
         stored' = stored, saved' = saved, removing' = removing, calls' \in {calls, calls + 1}
  PROVE  VaultStep(c)
  <1>1. IdleCall.pc = "idle" /\ "idle" \notin Dropping
    BY DEF IdleCall, CallAt, Dropping
  <1>. QED  BY <1>1 DEF VaultStep

\* A call on a vault goes on.
LEMMA VaultCallStep ==
  ASSUME TypeOK, NEW c \in Calls, NEW pc, Goto(c, pc),
         \/ call[c].pc \in Creating /\ pc \in Creating
         \/ call[c].pc \in Dropping /\ pc \in Dropping,
         pc = "deleteVault" => CountDocuments(c),
         UNCHANGED <<vaults, documents, tenantKeys, objects, tempFiles, calls, history>>
  PROVE  VaultStep(c)
  <1>1. Becomes(c, At(call[c], pc))
    BY GotoBecomes
  <1>2. At(call[c], pc).pc = pc /\ At(call[c], pc).before = call[c].before
    BY DEF At, CallAt
  <1>3. pc \in Dropping => call[c].pc \in Dropping
    BY DEF Creating, Dropping
  <1>. QED  BY <1>1, <1>2, <1>3 DEF VaultStep, history

LEMMA NextCases ==
  ASSUME TypeOK, [Next]_vars
  PROVE  UNCHANGED vars \/ \E c \in Calls : VaultStep(c) \/ DocumentStep(c)
  <1>. SUFFICES ASSUME Next PROVE \E c \in Calls : VaultStep(c) \/ DocumentStep(c)
    OBVIOUS
  <1>1. ASSUME NEW c \in Calls, RefuseUpload(c) PROVE VaultStep(c)
    BY <1>1, ArriveBecomes, LeavingStep DEF RefuseUpload
  <1>2. ASSUME NEW c \in Calls, NEW t \in Tenants, NEW v \in vaults, NEW name \in StoredNames,
               BeginUpload(c, t, v, name)
        PROVE  DocumentStep(c)
    BY <1>2, ArriveBecomes DEF BeginUpload, BeginsUpload, DocumentStep
  <1>3. ASSUME NEW c \in Calls, NEW t \in Tenants, NEW id \in 1 .. calls, BeginDownload(c, t, id)
        PROVE  DocumentStep(c)
    BY <1>3, ArriveBecomes DEF BeginDownload, BeginsDownload, DocumentStep
  <1>4. ASSUME NEW c \in Calls, NEW t \in Tenants, NEW id \in 1 .. calls, BeginRemove(c, t, id)
        PROVE  DocumentStep(c)
    BY <1>4, ArriveBecomes DEF BeginRemove, BeginsRemove, DocumentStep
  <1>5. ASSUME NEW c \in Calls, NEW t \in Tenants, NEW slug, BeginCreateVault(c, t, slug)
        PROVE  VaultStep(c)
    <2>. DEFINE k == OfVault(IF t \in Limited THEN "count" ELSE "findSlug", t,
                             VaultRow(<<t, calls + 1>>, t, slug, FALSE), {})
    <2>1. Arrive(c, k)
      BY <1>5 DEF BeginCreateVault
    <2>2. k.pc \in Creating /\ k.pc \notin Dropping
      BY DEF OfVault, CallAt, Creating, Dropping
    <2>. HIDE DEF k
    <2>3. Becomes(c, k) /\ calls' = calls + 1
      BY <2>1, ArriveBecomes
    <2>. QED  BY <1>5, <2>2, <2>3 DEF VaultStep, BeginCreateVault, history, Dropping
  <1>6. ASSUME NEW c \in Calls, NEW t \in Tenants, NEW v \in vaults, BeginRemoveVault(c, t, v)
        PROVE  VaultStep(c)
    <2>. DEFINE k == OfVault("countDocuments", t, v, {d.id : d \in DocumentsIn(t, v.id)})
    <2>1. Arrive(c, k)
      BY <1>6 DEF BeginRemoveVault
    <2>2. /\ k.pc \in Dropping /\ k.pc # "deleteVault"
          /\ k.before = {d.id : d \in DocumentsIn(k.tenant, k.vault.id)}
      BY DEF OfVault, CallAt, Dropping
    <2>. HIDE DEF k
    <2>3. Becomes(c, k) /\ calls' = calls + 1
      BY <2>1, ArriveBecomes
    <2>. QED  BY <1>6, <2>2, <2>3 DEF VaultStep, BeginRemoveVault, history
  <1>7. ASSUME NEW c \in Calls, SaveTenantKey(c) PROVE VaultStep(c) \/ DocumentStep(c)
    <2>1. CASE tenantKeys[call[c].tenant] = NoKey
      BY <1>7, <2>1, GotoBecomes DEF SaveTenantKey, SavesKey, DocumentStep
    <2>2. CASE tenantKeys[call[c].tenant] # NoKey
      BY <1>7, <2>2, EndBecomes, LeavingStep DEF SaveTenantKey, history
    <2>. QED  BY <2>1, <2>2
  <1>8. ASSUME NEW c \in Calls, SaveDocument(c) PROVE VaultStep(c) \/ DocumentStep(c)
    <2>1. CASE \E v \in vaults : v.id = call[c].row.vault
      BY <1>8, <2>1, GotoBecomes DEF SaveDocument, Saves, DocumentStep
    <2>2. CASE ~ \E v \in vaults : v.id = call[c].row.vault
      BY <1>8, <2>2, EndBecomes, LeavingStep DEF SaveDocument
    <2>. QED  BY <2>1, <2>2
  <1>9. ASSUME NEW c \in Calls, Step(c) PROVE VaultStep(c) \/ DocumentStep(c)
    <2>1. ASSUME PutObject(c) PROVE DocumentStep(c)
      BY <2>1, GotoBecomes DEF PutObject, Puts, DocumentStep
    <2>2. ASSUME DeleteObject(c) PROVE DocumentStep(c)
      BY <2>2, GotoBecomes DEF DeleteObject, DeletesObject, DocumentStep
    <2>3. ASSUME DeleteRow(c) PROVE DocumentStep(c)
      BY <2>3, EndBecomes DEF DeleteRow, DeletesRow, DocumentStep
    <2>4. ASSUME CountVaults(c) PROVE VaultStep(c)
      BY <2>4, VaultCallStep DEF CountVaults, Creating
    <2>5. ASSUME FindSlug(c) PROVE VaultStep(c)
      BY <2>5, VaultCallStep DEF FindSlug, Creating
    <2>6. ASSUME InsertVault(c) PROVE VaultStep(c)
      BY <2>6, EndBecomes, LeavingStep DEF InsertVault, history
    <2>7. ASSUME CountDocuments(c) PROVE VaultStep(c)
      BY <2>7, VaultCallStep DEF CountDocuments, Dropping
    <2>8. ASSUME DeleteVault(c) PROVE VaultStep(c)
      BY <2>8, EndBecomes, LeavingStep DEF DeleteVault, history
    <2>9. ASSUME Answer(c) PROVE VaultStep(c)
      BY <2>9, EndBecomes, LeavingStep DEF Answer, history
    <2>10. ASSUME Crash(c) PROVE VaultStep(c)
      BY <2>10, SlotBecomes, LeavingStep DEF Crash
    <2>. QED
      BY <1>7, <1>8, <1>9, <2>1, <2>2, <2>3, <2>4, <2>5, <2>6, <2>7, <2>8, <2>9, <2>10
      DEF Step, DocumentStep
  <1>. QED  BY <1>1, <1>2, <1>3, <1>4, <1>5, <1>6, <1>9 DEF Next

-----------------------------------------------------------------------------
(***************************************************************************)
(* The keys.                                                               *)
(***************************************************************************)

\* The key a call goes on with.
KeyCarried(k) ==
    /\ k.pc = "saveKey" => k.dek # NoKey
    /\ k.pc = "put" => k.dek # NoKey /\ k.dek = tenantKeys[k.tenant]
    /\ k.pc = "saveDocument" => tenantKeys[k.tenant] # NoKey
    /\ k.pc = "getStream" => k.dek # NoKey /\ k.dek = tenantKeys[k.tenant]

KeyInv ==
    /\ KeyOpensObjects
    /\ \A o \in objects : o.key[1] \in Tenants
    /\ \A c \in Calls : KeyCarried(call[c])

\* A step that saves no key and brings neither an object nor a row.
LEMMA KeysKept ==
  ASSUME TypeOK, KeyInv, NEW c \in Calls, NEW k, Becomes(c, k), (KeyCarried(call[c]))',
         tenantKeys' = tenantKeys, objects' \subseteq objects, documents' \subseteq documents
  PROVE  KeyInv'
  <1>1. ASSUME NEW b \in Calls PROVE (KeyCarried(call[b]))'
    <2>1. CASE b = c
      BY <2>1
    <2>2. CASE b # c
      BY <2>2 DEF Becomes, KeyInv, KeyCarried
    <2>. QED  BY <2>1, <2>2
  <1>. QED  BY <1>1 DEF KeyInv, KeyOpensObjects

\* Saved keys do not change.
LEMMA SavesKeyOnce ==
  ASSUME TypeOK, NEW c \in Calls, SavesKey(c)
  PROVE  /\ call[c].pc = "saveKey" /\ call[c].tenant \in Tenants
         /\ tenantKeys'[call[c].tenant] = call[c].dek
         /\ \A t \in Tenants : tenantKeys[t] # NoKey => tenantKeys'[t] = tenantKeys[t]
  BY CarriedType DEF SavesKey, SaveTenantKey, TypeOK

LEMMA KeyInductive == TypeOK /\ KeyInv /\ [Next]_vars => KeyInv'
  <1>. SUFFICES ASSUME TypeOK, KeyInv, [Next]_vars PROVE KeyInv'
    OBVIOUS
  <1>1. CASE UNCHANGED vars
    BY <1>1 DEF vars, KeyInv, KeyOpensObjects, KeyCarried
  <1>2. ASSUME NEW c \in Calls, VaultStep(c) PROVE KeyInv'
    <2>1. PICK k : /\ Becomes(c, k)
                   /\ k.pc \in {"idle"} \union Creating \union Dropping
      BY <1>2 DEF VaultStep
    <2>2. (KeyCarried(call[c]))'
      BY <2>1 DEF Becomes, KeyCarried, Creating, Dropping
    <2>. QED  BY <1>2, <2>1, <2>2, KeysKept DEF VaultStep
  <1>3. ASSUME NEW c \in Calls, BeginsUpload(c) PROVE KeyInv'
    <2>1. PICK t \in Tenants, v \in vaults, name \in StoredNames :
             /\ BeginUpload(c, t, v, name)
             /\ Becomes(c, OfDocument("findKey", t, DocumentRow(calls + 1, t, v.id, name)))
      BY <1>3 DEF BeginsUpload
    <2>2. (KeyCarried(call[c]))'
      BY <2>1 DEF Becomes, KeyCarried, OfDocument, CallAt
    <2>. QED  BY <2>1, <2>2, KeysKept DEF BeginUpload
  <1>4. ASSUME NEW c \in Calls, FindTenantKey(c) PROVE KeyInv'
    <2>1. call[c].pc = "findKey" /\ call[c].row.id # NoKey
      BY <1>4, CarriedType DEF FindTenantKey, Uploading, NoKey
    <2>2. tenantKeys' = tenantKeys /\ objects' = objects /\ documents' = documents
      BY <1>4 DEF FindTenantKey
    <2>3. CASE tenantKeys[call[c].tenant] = NoKey
      <3>1. Becomes(c, CallAt("saveKey", call[c].tenant, call[c].row, call[c].vault,
                              call[c].row.id, call[c].body, call[c].before))
        BY <1>4, <2>3, FindTenantKeyBecomes
      <3>2. (KeyCarried(call[c]))'
        BY <2>1, <3>1 DEF Becomes, KeyCarried, CallAt
      <3>. QED  BY <2>2, <3>1, <3>2, KeysKept
    <2>4. CASE tenantKeys[call[c].tenant] # NoKey
      <3>1. Becomes(c, CallAt("put", call[c].tenant, call[c].row, call[c].vault,
                              tenantKeys[call[c].tenant], call[c].body, call[c].before))
        BY <1>4, <2>4, FindTenantKeyBecomes
      <3>2. (KeyCarried(call[c]))'
        BY <2>2, <2>4, <3>1 DEF Becomes, KeyCarried, CallAt
      <3>. QED  BY <2>2, <3>1, <3>2, KeysKept
    <2>. QED  BY <2>3, <2>4
  <1>5. ASSUME NEW c \in Calls, SavesKey(c) PROVE KeyInv'
    <2>1. /\ objects' = objects /\ documents' = documents
          /\ Becomes(c, At(call[c], "put")) /\ call[c].dek # NoKey
      BY <1>5, SavesKeyOnce DEF SavesKey, SaveTenantKey, KeyInv, KeyCarried
    <2>2. \A o \in objects : o.dek # NoKey /\ o.dek = tenantKeys'[o.key[1]]
      BY <1>5, SavesKeyOnce DEF KeyInv, KeyOpensObjects
    <2>3. \A d \in documents : tenantKeys'[d.tenant] # NoKey
      BY <1>5, SavesKeyOnce DEF KeyInv, KeyOpensObjects, TypeOK
    <2>4. ASSUME NEW b \in Calls PROVE (KeyCarried(call[b]))'
      <3>1. CASE b = c
        BY <1>5, <2>1, <3>1, SavesKeyOnce DEF Becomes, KeyCarried, At, CallAt
      <3>2. CASE b # c
        <4>1. call'[b] = call[b] /\ KeyCarried(call[b])
              /\ (call[b].pc # "idle" => call[b].tenant \in Tenants)
          BY <2>1, <3>2, CarriedType DEF Becomes, KeyInv
        <4>. QED  BY <1>5, <4>1, SavesKeyOnce DEF KeyCarried
      <3>. QED  BY <3>1, <3>2
    <2>. QED  BY <2>1, <2>2, <2>3, <2>4 DEF KeyInv, KeyOpensObjects
  <1>6. ASSUME NEW c \in Calls, Puts(c) PROVE KeyInv'
    <2>1. /\ tenantKeys' = tenantKeys /\ documents' = documents /\ objects' = Put(CipherText(c))
          /\ Becomes(c, At(call[c], "saveDocument")) /\ call[c].pc = "put"
          /\ call[c].dek # NoKey /\ call[c].dek = tenantKeys[call[c].tenant]
          /\ call[c].row.tenant = call[c].tenant /\ call[c].tenant \in Tenants
      BY <1>6, CarriedType DEF Puts, PutObject, KeyInv, KeyCarried, Uploading
    <2>2. CipherText(c).key[1] = call[c].tenant /\ CipherText(c).dek = call[c].dek
      BY <2>1 DEF CipherText, StorageKey
    <2>3. \A o \in objects' : o \in objects \/ o = CipherText(c)
      BY <2>1 DEF Put
    <2>4. ASSUME NEW b \in Calls PROVE (KeyCarried(call[b]))'
      BY <2>1 DEF Becomes, KeyInv, KeyCarried, At, CallAt
    <2>. QED  BY <2>1, <2>2, <2>3, <2>4 DEF KeyInv, KeyOpensObjects
  <1>7. ASSUME NEW c \in Calls, Saves(c) PROVE KeyInv'
    <2>1. /\ tenantKeys' = tenantKeys /\ objects' = objects
          /\ documents' = documents \union {call[c].row}
          /\ Becomes(c, At(call[c], "unlink"))
          /\ tenantKeys[call[c].row.tenant] # NoKey
      BY <1>7, CarriedType DEF Saves, SaveDocument, KeyInv, KeyCarried, Uploading
    <2>2. ASSUME NEW b \in Calls PROVE (KeyCarried(call[b]))'
      BY <2>1 DEF Becomes, KeyInv, KeyCarried, At, CallAt
    <2>. QED  BY <2>1, <2>2 DEF KeyInv, KeyOpensObjects
  <1>8. ASSUME NEW c \in Calls, BeginsDownload(c) PROVE KeyInv'
    <2>1. PICK t \in Tenants, id \in 1 .. calls : \E row \in FindDocument(t, id) :
             /\ BeginDownload(c, t, id)
             /\ Becomes(c, CallAt("getStream", t, row, NoVault, tenantKeys[t], Garbage, {}))
      BY <1>8 DEF BeginsDownload
    <2>2. tenantKeys' = tenantKeys /\ objects' = objects /\ documents' = documents
          /\ tenantKeys[t] # NoKey
      BY <2>1 DEF BeginDownload
    <2>3. (KeyCarried(call[c]))'
      BY <2>1, <2>2 DEF Becomes, KeyCarried, CallAt
    <2>. QED  BY <2>1, <2>2, <2>3, KeysKept
  <1>9. ASSUME NEW c \in Calls, GetStream(c) PROVE KeyInv'
    <2>1. PICK k : Becomes(c, k) /\ k.pc = "streamed"
      BY <1>9, Streamed
    <2>2. (KeyCarried(call[c]))'
      BY <2>1 DEF Becomes, KeyCarried
    <2>. QED  BY <1>9, <2>1, <2>2, KeysKept DEF GetStream
  <1>10. ASSUME NEW c \in Calls, BeginsRemove(c) PROVE KeyInv'
    <2>1. PICK t \in Tenants, id \in 1 .. calls : \E row \in FindDocument(t, id) :
             BeginRemove(c, t, id) /\ Becomes(c, OfDocument("deleteObject", t, row))
      BY <1>10 DEF BeginsRemove
    <2>2. (KeyCarried(call[c]))'
      BY <2>1 DEF Becomes, KeyCarried, OfDocument, CallAt
    <2>. QED  BY <2>1, <2>2, KeysKept DEF BeginRemove
  <1>11. ASSUME NEW c \in Calls, DeletesObject(c) PROVE KeyInv'
    <2>1. (KeyCarried(call[c]))'
      BY <1>11 DEF DeletesObject, Becomes, KeyCarried, At, CallAt
    <2>. QED  BY <1>11, <2>1, KeysKept DEF DeletesObject, DeleteObject
  <1>12. ASSUME NEW c \in Calls, DeletesRow(c) PROVE KeyInv'
    <2>1. (KeyCarried(call[c]))'
      BY <1>12 DEF DeletesRow, Becomes, KeyCarried, IdleCall, CallAt
    <2>. QED  BY <1>12, <2>1, KeysKept DEF DeletesRow, DeleteRow
  <1>. QED
    BY <1>1, <1>2, <1>3, <1>4, <1>5, <1>6, <1>7, <1>8, <1>9, <1>10, <1>11, <1>12, NextCases
    DEF DocumentStep

LEMMA KeyInit == Init => KeyInv
  BY DEF Init, KeyInv, KeyOpensObjects, KeyCarried, IdleCall, CallAt

\* However the first uploads of a tenant race for its key, the key that was saved opens
\* whatever lies in storage, and a tenant with documents has a key.
THEOREM KeyOpensObjectsCorrect == Spec => []KeyOpensObjects
  <1>1. Spec => []KeyInv
    BY KeyInit, KeyInductive, TypeCorrect, PTL DEF Spec
  <1>2. KeyInv => KeyOpensObjects
    BY DEF KeyInv
  <1>. QED  BY <1>1, <1>2, PTL

-----------------------------------------------------------------------------
(***************************************************************************)
(* The rows: an id is one upload's, from its arrival on.                   *)
(***************************************************************************)
Finding == {"getStream", "streamed", "deleteObject", "deleteRow"}

\* What a call knows of the row it is about.
RowCarried(k) ==
    /\ k.pc \in {"findKey", "saveKey", "put"} => \A r \in stored : r.id # k.row.id
    /\ k.pc = "saveDocument" => k.row.id \notin saved
    /\ k.pc \in {"saveDocument", "unlink"} => k.row \in stored
    /\ k.pc \in Finding => k.row \in stored /\ k.row.id \in saved /\ k.row.tenant = k.tenant
    /\ k.pc \in Dropping => k.before \subseteq saved

UploadsApart ==
    \A b, c \in Calls : b # c /\ call[b].pc \in Uploading /\ call[c].pc \in Uploading
        => call[b].row.id # call[c].row.id

RowInv ==
    /\ \A r \in stored : r.id \in 1 .. calls
    /\ \A r, s \in stored : r.id = s.id => r = s
    /\ \A i \in saved : \E r \in stored : r.id = i
    /\ \A d \in documents : d \in stored /\ d.id \in saved
    /\ \A o \in objects : \E r \in stored : r.id = o.doc /\ StorageKey(r) = o.key
    /\ \A c \in Calls : RowCarried(call[c])
    /\ UploadsApart

LEMMA RowInit == Init => RowInv
  BY DEF Init, RowInv, RowCarried, UploadsApart, IdleCall, CallAt, Uploading, Dropping, Finding

\* A step that brings nothing and starts no upload.
LEMMA RowsKept ==
  ASSUME TypeOK, RowInv, NEW c \in Calls, NEW k, Becomes(c, k), (RowCarried(call[c]))',
         k.pc \in Uploading => call[c].pc \in Uploading /\ k.row = call[c].row,
         stored' = stored, saved' = saved, objects' \subseteq objects,
         documents' \subseteq documents, calls' \in {calls, calls + 1}
  PROVE  RowInv'
  <1>1. ASSUME NEW b \in Calls PROVE (RowCarried(call[b]))'
    <2>1. CASE b = c
      BY <2>1
    <2>2. CASE b # c
      <3>1. call'[b] = call[b] /\ RowCarried(call[b])
        BY <2>2 DEF Becomes, RowInv
      <3>. QED  BY <3>1 DEF RowCarried
    <2>. QED  BY <2>1, <2>2
  <1>2. UploadsApart'
    BY DEF UploadsApart, RowInv, Becomes
  <1>3. \A r \in stored : r.id \in 1 .. calls'
    <2>1. calls \in Nat
      BY StoreBoundsAssumption DEF TypeOK
    <2>. QED  BY <2>1 DEF RowInv
  <1>. QED  BY <1>1, <1>2, <1>3 DEF RowInv

LEMMA RowInductive == TypeOK /\ RowInv /\ [Next]_vars => RowInv'
  <1>. SUFFICES ASSUME TypeOK, RowInv, [Next]_vars PROVE RowInv'
    OBVIOUS
  <1>0. calls \in Nat
    BY StoreBoundsAssumption DEF TypeOK
  <1>1. CASE UNCHANGED vars
    BY <1>1 DEF vars, RowInv, RowCarried, UploadsApart
  <1>2. ASSUME NEW c \in Calls, VaultStep(c) PROVE RowInv'
    <2>1. PICK k :
            /\ Becomes(c, k)
            /\ k.pc \in {"idle"} \union Creating \union Dropping
            /\ k.pc \in Dropping =>
                 \/ k.before = {d.id : d \in DocumentsIn(k.tenant, k.vault.id)}
                 \/ call[c].pc \in Dropping /\ k.before = call[c].before
      BY <1>2 DEF VaultStep
    <2>2. k.pc \in Dropping => k.before \subseteq saved
      BY <2>1 DEF RowInv, RowCarried, DocumentsIn
    <2>3. (RowCarried(call[c]))'
      BY <1>2, <2>1, <2>2 DEF VaultStep, Becomes, RowCarried, Creating, Dropping, Finding
    <2>. QED  BY <1>2, <2>1, <2>3, RowsKept DEF VaultStep, Creating, Dropping, Uploading
  <1>3. ASSUME NEW c \in Calls, BeginsUpload(c) PROVE RowInv'
    <2>1. PICK t \in Tenants, v \in vaults, name \in StoredNames :
             /\ BeginUpload(c, t, v, name)
             /\ Becomes(c, OfDocument("findKey", t, DocumentRow(calls + 1, t, v.id, name)))
      BY <1>3 DEF BeginsUpload
    <2>2. /\ calls' = calls + 1 /\ UNCHANGED <<documents, objects>>
          /\ stored' = stored /\ saved' = saved
      BY <2>1 DEF BeginUpload, Arrive, history
    <2>3. call'[c].pc = "findKey" /\ call'[c].row.id = calls + 1
      BY <2>1 DEF Becomes, OfDocument, DocumentRow, CallAt
    <2>4. \A r \in stored : r.id # calls + 1 /\ r.id \in 1 .. calls'
      BY <1>0, <2>2 DEF RowInv
    <2>5. ASSUME NEW b \in Calls PROVE (RowCarried(call[b]))'
      <3>1. CASE b = c
        BY <2>2, <2>3, <2>4, <3>1 DEF RowCarried, Finding, Dropping
      <3>2. CASE b # c
        BY <2>1, <2>2, <3>2 DEF Becomes, RowCarried, RowInv
      <3>. QED  BY <3>1, <3>2
    <2>6. \A b \in Calls : b # c /\ call[b].pc \in Uploading => call[b].row.id # calls + 1
      BY <1>0, CarriedType
    <2>7. UploadsApart'
      BY <2>1, <2>3, <2>6 DEF UploadsApart, RowInv, Becomes
    <2>. QED  BY <2>2, <2>4, <2>5, <2>7 DEF RowInv
  <1>4. ASSUME NEW c \in Calls, FindTenantKey(c) PROVE RowInv'
    <2>1. /\ call[c].pc = "findKey" /\ RowCarried(call[c])
          /\ stored' = stored /\ saved' = saved
          /\ UNCHANGED <<documents, objects, calls>>
      BY <1>4 DEF FindTenantKey, RowInv, history
    <2>2. PICK k : Becomes(c, k) /\ k.pc \in {"saveKey", "put"} /\ k.row = call[c].row
      BY <1>4, KeyFound
    <2>3. (RowCarried(call[c]))'
      BY <2>1, <2>2 DEF Becomes, RowCarried, Finding, Dropping
    <2>. QED  BY <2>1, <2>2, <2>3, RowsKept DEF Uploading
  <1>5. ASSUME NEW c \in Calls, SavesKey(c) PROVE RowInv'
    <2>1. /\ call[c].pc = "saveKey" /\ RowCarried(call[c])
          /\ stored' = stored /\ saved' = saved
          /\ UNCHANGED <<documents, objects, calls>>
          /\ Becomes(c, At(call[c], "put"))
      BY <1>5 DEF SavesKey, SaveTenantKey, RowInv, history
    <2>2. At(call[c], "put").pc = "put" /\ At(call[c], "put").row = call[c].row
      BY DEF At, CallAt
    <2>3. (RowCarried(call[c]))'
      BY <2>1, <2>2 DEF Becomes, RowCarried, Finding, Dropping
    <2>. QED  BY <2>1, <2>2, <2>3, RowsKept DEF Uploading
  <1>6. ASSUME NEW c \in Calls, Puts(c) PROVE RowInv'
    <2>. DEFINE row == call[c].row
    <2>1. /\ call[c].pc = "put" /\ RowCarried(call[c])
          /\ stored' = stored \union {row} /\ saved' = saved
          /\ objects' = Put(CipherText(c))
          /\ UNCHANGED <<documents, calls>>
          /\ Becomes(c, At(call[c], "saveDocument"))
      BY <1>6 DEF Puts, PutObject, RowInv
    <2>2. call'[c].pc = "saveDocument" /\ call'[c].row = row
      BY <2>1 DEF Becomes, At, CallAt
    <2>3. row.id \in 1 .. calls /\ \A r \in stored : r.id # row.id
      BY <2>1, CarriedType DEF Uploading, RowCarried
    <2>4. row.id \notin saved
      BY <2>3 DEF RowInv
    <2>5. \A b \in Calls : b # c /\ call[b].pc \in Uploading => call[b].row.id # row.id
      BY <2>1 DEF RowInv, UploadsApart, Uploading
    <2>6. ASSUME NEW b \in Calls PROVE (RowCarried(call[b]))'
      <3>1. CASE b = c
        BY <2>1, <2>2, <2>4, <3>1 DEF RowCarried, Finding, Dropping
      <3>2. CASE b # c
        <4>1. call'[b] = call[b] /\ RowCarried(call[b])
          BY <2>1, <3>2 DEF Becomes, RowInv
        <4>. QED  BY <2>1, <2>5, <3>2, <4>1 DEF RowCarried, Uploading
      <3>. QED  BY <3>1, <3>2
    <2>7. UploadsApart'
      BY <2>1, <2>2, <2>5 DEF UploadsApart, RowInv, Becomes
    <2>8. \A o \in objects' : \E r \in stored' : r.id = o.doc /\ StorageKey(r) = o.key
      <3>1. CipherText(c).doc = row.id /\ CipherText(c).key = StorageKey(row)
        BY DEF CipherText
      <3>2. \A o \in objects' : o \in objects \/ o = CipherText(c)
        BY <2>1 DEF Put
      <3>. QED  BY <2>1, <3>1, <3>2 DEF RowInv
    <2>. QED  BY <2>1, <2>3, <2>6, <2>7, <2>8 DEF RowInv
  <1>7. ASSUME NEW c \in Calls, Saves(c) PROVE RowInv'
    <2>. DEFINE row == call[c].row
    <2>1. /\ call[c].pc = "saveDocument" /\ RowCarried(call[c])
          /\ saved' = saved \union {row.id} /\ documents' = documents \union {row}
          /\ UNCHANGED <<objects, calls, stored>>
          /\ Becomes(c, At(call[c], "unlink"))
      BY <1>7 DEF Saves, SaveDocument, RowInv
    <2>2. call'[c].pc = "unlink" /\ call'[c].row = row
      BY <2>1 DEF Becomes, At, CallAt
    <2>3. row \in stored
      BY <2>1 DEF RowCarried
    <2>4. \A b \in Calls : b # c /\ call[b].pc \in Uploading => call[b].row.id # row.id
      BY <2>1 DEF RowInv, UploadsApart, Uploading
    <2>5. ASSUME NEW b \in Calls PROVE (RowCarried(call[b]))'
      <3>1. CASE b = c
        BY <2>1, <2>2, <2>3, <3>1 DEF RowCarried, Finding, Dropping
      <3>2. CASE b # c
        <4>1. call'[b] = call[b] /\ RowCarried(call[b])
          BY <2>1, <3>2 DEF Becomes, RowInv
        <4>. QED  BY <2>1, <2>4, <3>2, <4>1 DEF RowCarried, Uploading
      <3>. QED  BY <3>1, <3>2
    <2>6. UploadsApart'
      BY <2>1, <2>2, <2>4 DEF UploadsApart, RowInv, Becomes
    <2>. QED  BY <2>1, <2>3, <2>5, <2>6 DEF RowInv
  <1>8. ASSUME NEW c \in Calls, BeginsDownload(c) PROVE RowInv'
    <2>1. PICK t \in Tenants, id \in 1 .. calls : \E row \in FindDocument(t, id) :
             /\ BeginDownload(c, t, id)
             /\ Becomes(c, CallAt("getStream", t, row, NoVault, tenantKeys[t], Garbage, {}))
      BY <1>8 DEF BeginsDownload
    <2>2. PICK row \in FindDocument(t, id) :
             /\ BeginDownload(c, t, id)
             /\ Becomes(c, CallAt("getStream", t, row, NoVault, tenantKeys[t], Garbage, {}))
      BY <2>1
    <2>3. row \in stored /\ row.id \in saved /\ row.tenant = t
      BY DEF FindDocument, RowInv
    <2>4. stored' = stored /\ saved' = saved /\ UNCHANGED <<documents, objects>> /\ calls' = calls + 1
      BY <2>2 DEF BeginDownload, Arrive, history
    <2>5. (RowCarried(call[c]))'
      BY <2>2, <2>3, <2>4 DEF Becomes, RowCarried, CallAt, Finding, Dropping
    <2>. QED  BY <2>2, <2>4, <2>5, RowsKept DEF CallAt, Uploading
  <1>9. ASSUME NEW c \in Calls, GetStream(c) PROVE RowInv'
    <2>1. PICK k : /\ Becomes(c, k) /\ k.pc = "streamed"
                   /\ k.row = call[c].row /\ k.tenant = call[c].tenant
      BY <1>9, Streamed
    <2>2. /\ call[c].pc = "getStream" /\ RowCarried(call[c])
          /\ stored' = stored /\ saved' = saved /\ UNCHANGED <<documents, objects, calls>>
      BY <1>9 DEF GetStream, RowInv, history
    <2>3. (RowCarried(call[c]))'
      BY <2>1, <2>2 DEF Becomes, RowCarried, Finding, Dropping
    <2>. QED  BY <2>1, <2>2, <2>3, RowsKept DEF Uploading
  <1>10. ASSUME NEW c \in Calls, BeginsRemove(c) PROVE RowInv'
    <2>1. PICK t \in Tenants, id \in 1 .. calls : \E row \in FindDocument(t, id) :
             BeginRemove(c, t, id) /\ Becomes(c, OfDocument("deleteObject", t, row))
      BY <1>10 DEF BeginsRemove
    <2>2. PICK row \in FindDocument(t, id) :
             BeginRemove(c, t, id) /\ Becomes(c, OfDocument("deleteObject", t, row))
      BY <2>1
    <2>3. row \in stored /\ row.id \in saved /\ row.tenant = t
      BY DEF FindDocument, RowInv
    <2>4. stored' = stored /\ saved' = saved /\ UNCHANGED <<documents, objects>> /\ calls' = calls + 1
      BY <2>2 DEF BeginRemove, Arrive, history
    <2>5. (RowCarried(call[c]))'
      BY <2>2, <2>3, <2>4 DEF Becomes, RowCarried, OfDocument, CallAt, Finding, Dropping
    <2>. QED  BY <2>2, <2>4, <2>5, RowsKept DEF OfDocument, CallAt, Uploading
  <1>11. ASSUME NEW c \in Calls, DeletesObject(c) PROVE RowInv'
    <2>1. /\ call[c].pc = "deleteObject" /\ RowCarried(call[c])
          /\ Becomes(c, At(call[c], "deleteRow")) /\ objects' \subseteq objects
          /\ stored' = stored /\ saved' = saved /\ UNCHANGED <<documents, calls>>
      BY <1>11 DEF DeletesObject, DeleteObject, RowInv
    <2>2. (RowCarried(call[c]))'
      BY <2>1 DEF Becomes, RowCarried, At, CallAt, Finding, Dropping
    <2>. QED  BY <2>1, <2>2, RowsKept DEF At, CallAt, Uploading
  <1>12. ASSUME NEW c \in Calls, DeletesRow(c) PROVE RowInv'
    <2>1. /\ Becomes(c, IdleCall) /\ documents' \subseteq documents
          /\ stored' = stored /\ saved' = saved /\ UNCHANGED <<objects, calls>>
      BY <1>12 DEF DeletesRow, DeleteRow, history
    <2>2. (RowCarried(call[c]))'
      BY <2>1 DEF Becomes, RowCarried, IdleCall, CallAt, Finding, Dropping
    <2>. QED  BY <2>1, <2>2, RowsKept DEF IdleCall, CallAt, Uploading
  <1>. QED
    BY <1>1, <1>2, <1>3, <1>4, <1>5, <1>6, <1>7, <1>8, <1>9, <1>10, <1>11, <1>12, NextCases
    DEF DocumentStep

LEMMA RowInvariant == Spec => []RowInv
  BY RowInit, RowInductive, TypeCorrect, PTL DEF Spec

-----------------------------------------------------------------------------
(***************************************************************************)
(* The vaults: an id is one tenant's, from the creation's arrival on.      *)
(***************************************************************************)

\* Vaults come only by an insert whose slug is free.
InsertsVault(c) ==
    /\ call[c].pc = "insert"
    /\ ~ SlugTaken(call[c].vault)
    /\ vaults' = vaults \union {call[c].vault}
    /\ Becomes(c, IdleCall)
    /\ stored' = stored /\ calls' = calls

BeginsCreateVault(c) ==
    \E t \in Tenants, pc \in {"count", "findSlug"}, slug \in Slugs :
        /\ t \in Limited => pc = "count"
        /\ Becomes(c, OfVault(pc, t, VaultRow(<<t, calls + 1>>, t, slug, FALSE), {}))
        /\ vaults' = vaults /\ stored' = stored
        /\ calls' = calls + 1 /\ calls' \in 1 .. MaxCalls

BeginsRemoveVault(c) ==
    \E t \in Tenants, v \in vaults :
        /\ v.tenant = t
        /\ Becomes(c, OfVault("countDocuments", t, v, {d.id : d \in DocumentsIn(t, v.id)}))
        /\ vaults' = vaults /\ stored' = stored
        /\ calls' = calls + 1

\* A step that starts no call on a vault and no upload, and inserts no vault.
GoesOn(c) ==
    \E k :
        /\ Becomes(c, k)
        /\ k.pc \in Uploading => call[c].pc \in Uploading /\ k.row = call[c].row
        /\ k.pc \in Creating => /\ call[c].pc \in Creating
                                /\ k.vault = call[c].vault /\ k.tenant = call[c].tenant
        /\ k.pc \in Dropping => call[c].pc \in Dropping /\ k.vault = call[c].vault
        /\ k.pc \in {"findSlug", "insert"} => \/ call[c].pc \in {"findSlug", "insert"}
                                              \/ CountVaults(c)
        /\ vaults' \subseteq vaults
        /\ \A r \in stored' : r \in stored \/ (call[c].pc \in Uploading /\ r = call[c].row)
        /\ stored \subseteq stored'
        /\ calls' \in {calls, calls + 1}

LEMMA LeavingGoesOn ==
  ASSUME NEW c \in Calls, Becomes(c, IdleCall), vaults' \subseteq vaults, stored' = stored,
         calls' \in {calls, calls + 1}
  PROVE  GoesOn(c)
  <1>1. IdleCall.pc = "idle"
    BY DEF IdleCall, CallAt
  <1>. QED  BY <1>1 DEF GoesOn, Uploading, Creating, Dropping

\* A call found a document, or goes on with it.
LEMMA FindingGoesOn ==
  ASSUME NEW c \in Calls, NEW k, Becomes(c, k), k.pc \in Finding,
         vaults' = vaults, stored' = stored, calls' \in {calls, calls + 1}
  PROVE  GoesOn(c)
  BY DEF GoesOn, Uploading, Creating, Dropping, Finding

LEMMA AtGoesOn ==
  ASSUME NEW c \in Calls, NEW pc, Becomes(c, At(call[c], pc)),
         \/ call[c].pc \in Uploading /\ pc \in Uploading
         \/ call[c].pc = "count" /\ pc = "findSlug" /\ CountVaults(c)
         \/ call[c].pc = "findSlug" /\ pc = "insert"
         \/ call[c].pc \in Dropping /\ pc \in Dropping,
         vaults' = vaults, stored \subseteq stored', calls' = calls,
         \A r \in stored' : r \in stored \/ (call[c].pc \in Uploading /\ r = call[c].row)
  PROVE  GoesOn(c)
  <1>. DEFINE k == At(call[c], pc)
  <1>1. /\ k.pc = pc /\ k.row = call[c].row
        /\ k.vault = call[c].vault /\ k.tenant = call[c].tenant
    BY DEF At, CallAt
  <1>2. Becomes(c, k)
    OBVIOUS
  <1>. HIDE DEF k
  <1>3. k.pc \in Uploading => call[c].pc \in Uploading
    BY <1>1 DEF Uploading, Creating, Dropping
  <1>4. k.pc \in Creating => call[c].pc \in Creating
    BY <1>1 DEF Uploading, Creating, Dropping
  <1>5. k.pc \in Dropping => call[c].pc \in Dropping
    BY <1>1 DEF Uploading, Creating, Dropping
  <1>6. k.pc \in {"findSlug", "insert"} => call[c].pc \in {"findSlug", "insert"} \/ CountVaults(c)
    BY <1>1 DEF Uploading, Creating, Dropping
  <1>. QED  BY <1>1, <1>2, <1>3, <1>4, <1>5, <1>6 DEF GoesOn

VaultCase(c) ==
    \/ GoesOn(c) \/ BeginsUpload(c) \/ BeginsCreateVault(c)
    \/ BeginsRemoveVault(c) \/ InsertsVault(c)

LEMMA VaultCases ==
  ASSUME TypeOK, [Next]_vars
  PROVE  \/ UNCHANGED vars
         \/ \E c \in Calls : VaultCase(c)
  <1>. SUFFICES ASSUME Next PROVE \E c \in Calls : VaultCase(c)
    OBVIOUS
  <1>. USE DEF VaultCase
  <1>1. ASSUME NEW c \in Calls, RefuseUpload(c) PROVE VaultCase(c)
    BY <1>1, ArriveBecomes, LeavingGoesOn DEF RefuseUpload
  <1>2. ASSUME NEW c \in Calls, NEW t \in Tenants, NEW v \in vaults, NEW name \in StoredNames,
               BeginUpload(c, t, v, name)
        PROVE  VaultCase(c)
    BY <1>2, ArriveBecomes DEF BeginUpload, BeginsUpload
  <1>3. ASSUME NEW c \in Calls, NEW t \in Tenants, NEW id \in 1 .. calls, BeginDownload(c, t, id)
        PROVE  VaultCase(c)
    <2>1. PICK row \in FindDocument(t, id) :
             Arrive(c, CallAt("getStream", t, row, NoVault, tenantKeys[t], Garbage, {}))
      BY <1>3 DEF BeginDownload
    <2>. QED  BY <1>3, <2>1, ArriveBecomes, FindingGoesOn DEF BeginDownload, CallAt, Finding, history
  <1>4. ASSUME NEW c \in Calls, NEW t \in Tenants, NEW id \in 1 .. calls, BeginRemove(c, t, id)
        PROVE  VaultCase(c)
    <2>1. PICK row \in FindDocument(t, id) : Arrive(c, OfDocument("deleteObject", t, row))
      BY <1>4 DEF BeginRemove
    <2>. QED
      BY <1>4, <2>1, ArriveBecomes, FindingGoesOn DEF BeginRemove, OfDocument, CallAt, Finding, history
  <1>5. ASSUME NEW c \in Calls, NEW t \in Tenants, NEW slug \in Slugs, BeginCreateVault(c, t, slug)
        PROVE  VaultCase(c)
    <2>. DEFINE pc == IF t \in Limited THEN "count" ELSE "findSlug"
                k == OfVault(pc, t, VaultRow(<<t, calls + 1>>, t, slug, FALSE), {})
    <2>1. Arrive(c, k) /\ vaults' = vaults /\ stored' = stored
      BY <1>5 DEF BeginCreateVault, history
    <2>2. Becomes(c, k) /\ calls' = calls + 1 /\ calls' \in 1 .. MaxCalls
      <3>. HIDE DEF k
      <3>. QED  BY <2>1, ArriveBecomes
    <2>3. pc \in {"count", "findSlug"} /\ (t \in Limited => pc = "count")
      OBVIOUS
    <2>. HIDE DEF pc
    <2>. QED  BY <2>1, <2>2, <2>3 DEF BeginsCreateVault
  <1>6. ASSUME NEW c \in Calls, NEW t \in Tenants, NEW v \in vaults, BeginRemoveVault(c, t, v)
        PROVE  VaultCase(c)
    <2>1. /\ Arrive(c, OfVault("countDocuments", t, v, {d.id : d \in DocumentsIn(t, v.id)}))
          /\ v.tenant = t /\ vaults' = vaults /\ stored' = stored
      BY <1>6 DEF BeginRemoveVault, history
    <2>. QED  BY <2>1, ArriveBecomes DEF BeginsRemoveVault
  <1>7. ASSUME NEW c \in Calls, FindTenantKey(c) PROVE VaultCase(c)
    <2>1. call[c].pc = "findKey" /\ vaults' = vaults /\ stored' = stored /\ calls' = calls
      BY <1>7 DEF FindTenantKey, history
    <2>. QED  BY <1>7, <2>1, KeyFound DEF GoesOn, Uploading, Creating, Dropping
  <1>8. ASSUME NEW c \in Calls, SaveTenantKey(c) PROVE VaultCase(c)
    <2>1. call[c].pc = "saveKey" /\ vaults' = vaults /\ stored' = stored /\ calls' = calls
      BY <1>8 DEF SaveTenantKey, history
    <2>2. Goto(c, "put") \/ End(c)
      BY <1>8 DEF SaveTenantKey
    <2>. QED
      BY <2>1, <2>2, GotoBecomes, EndBecomes, AtGoesOn, LeavingGoesOn
      DEF Uploading
  <1>9. ASSUME NEW c \in Calls, PutObject(c) PROVE VaultCase(c)
    <2>1. /\ call[c].pc = "put" /\ vaults' = vaults /\ calls' = calls
          /\ stored' = stored \union {call[c].row}
          /\ Becomes(c, At(call[c], "saveDocument"))
      BY <1>9, GotoBecomes DEF PutObject
    <2>. QED  BY <2>1, AtGoesOn DEF Uploading
  <1>10. ASSUME NEW c \in Calls, SaveDocument(c) PROVE VaultCase(c)
    <2>1. call[c].pc = "saveDocument" /\ vaults' = vaults /\ stored' = stored /\ calls' = calls
      BY <1>10 DEF SaveDocument
    <2>2. Goto(c, "unlink") \/ End(c)
      BY <1>10 DEF SaveDocument
    <2>. QED
      BY <2>1, <2>2, GotoBecomes, EndBecomes, AtGoesOn, LeavingGoesOn
      DEF Uploading
  <1>11. ASSUME NEW c \in Calls, GetStream(c) PROVE VaultCase(c)
    <2>. QED  BY <1>11, Streamed, FindingGoesOn DEF GetStream, Finding, history
  <1>12. ASSUME NEW c \in Calls, DeleteObject(c) PROVE VaultCase(c)
    <2>1. Becomes(c, At(call[c], "deleteRow")) /\ At(call[c], "deleteRow").pc \in Finding
      BY <1>12, GotoBecomes DEF DeleteObject, At, CallAt, Finding
    <2>. QED  BY <1>12, <2>1, FindingGoesOn DEF DeleteObject
  <1>13. ASSUME NEW c \in Calls, DeleteRow(c) PROVE VaultCase(c)
    BY <1>13, EndBecomes, LeavingGoesOn DEF DeleteRow, history
  <1>14. ASSUME NEW c \in Calls, CountVaults(c) PROVE VaultCase(c)
    <2>1. /\ Becomes(c, At(call[c], "findSlug")) /\ call[c].pc = "count"
          /\ vaults' = vaults /\ stored' = stored /\ calls' = calls
      BY <1>14, GotoBecomes DEF CountVaults, history
    <2>. QED  BY <1>14, <2>1, AtGoesOn
  <1>15. ASSUME NEW c \in Calls, FindSlug(c) PROVE VaultCase(c)
    <2>1. /\ Becomes(c, At(call[c], "insert")) /\ call[c].pc = "findSlug"
          /\ vaults' = vaults /\ stored' = stored /\ calls' = calls
      BY <1>15, GotoBecomes DEF FindSlug, history
    <2>. QED  BY <1>15, <2>1, AtGoesOn
  <1>16. ASSUME NEW c \in Calls, InsertVault(c) PROVE VaultCase(c)
    <2>1. Becomes(c, IdleCall) /\ call[c].pc = "insert" /\ stored' = stored /\ calls' = calls
      BY <1>16, EndBecomes DEF InsertVault, history
    <2>2. CASE SlugTaken(call[c].vault)
      BY <1>16, <2>1, <2>2, LeavingGoesOn DEF InsertVault
    <2>3. CASE ~ SlugTaken(call[c].vault)
      BY <1>16, <2>1, <2>3 DEF InsertVault, InsertsVault
    <2>. QED  BY <2>2, <2>3
  <1>17. ASSUME NEW c \in Calls, CountDocuments(c) PROVE VaultCase(c)
    <2>1. /\ Becomes(c, At(call[c], "deleteVault")) /\ call[c].pc = "countDocuments"
          /\ vaults' = vaults /\ stored' = stored /\ calls' = calls
      BY <1>17, GotoBecomes DEF CountDocuments, history
    <2>. QED  BY <2>1, AtGoesOn DEF Dropping
  <1>18. ASSUME NEW c \in Calls, DeleteVault(c) PROVE VaultCase(c)
    BY <1>18, EndBecomes, LeavingGoesOn DEF DeleteVault, history
  <1>19. ASSUME NEW c \in Calls, Answer(c) PROVE VaultCase(c)
    BY <1>19, EndBecomes, LeavingGoesOn DEF Answer, history
  <1>20. ASSUME NEW c \in Calls, Crash(c) PROVE VaultCase(c)
    BY <1>20, SlotBecomes, LeavingGoesOn DEF Crash
  <1>. QED
    BY <1>1, <1>2, <1>3, <1>4, <1>5, <1>6, <1>7, <1>8, <1>9, <1>10, <1>11, <1>12, <1>13,
       <1>14, <1>15, <1>16, <1>17, <1>18, <1>19, <1>20 DEF Next, Step

\* Two vaults of a tenant never have one slug, although the check and the insert are two
\* statements.
THEOREM SlugsUniqueCorrect == Spec => []SlugsUnique
  <1>1. Init => SlugsUnique
    BY InitialVaultsAssumption DEF Init, SlugsUnique
  <1>2. TypeOK /\ SlugsUnique /\ [Next]_vars => SlugsUnique'
    <2>. SUFFICES ASSUME TypeOK, SlugsUnique, [Next]_vars PROVE SlugsUnique'
      OBVIOUS
    <2>1. vaults' \subseteq vaults \/ \E c \in Calls : InsertsVault(c)
      BY VaultCases
      DEF VaultCase, GoesOn, BeginsUpload, BeginUpload, BeginsCreateVault, BeginsRemoveVault, vars
    <2>2. CASE vaults' \subseteq vaults
      BY <2>2 DEF SlugsUnique
    <2>3. ASSUME NEW c \in Calls, InsertsVault(c) PROVE SlugsUnique'
      BY <2>3 DEF InsertsVault, SlugTaken, VaultsOf, SlugsUnique
    <2>. QED  BY <2>1, <2>2, <2>3
  <1>. QED  BY <1>1, <1>2, TypeCorrect, PTL DEF Spec

\* The tenant t owns the vault id: it had it at the start, or one of its creations made it.
Owns(t, id) ==
    \/ \E v \in InitialVaults : v.id = id /\ v.tenant = t
    \/ t \in Tenants /\ \E n \in 1 .. calls : id = <<t, n>>

\* What a call knows of the vault it is about.
VaultCarried(k) ==
    /\ k.pc \in Creating \union Dropping => Owns(k.vault.tenant, k.vault.id)
    /\ k.pc \in Uploading => Owns(k.row.tenant, k.row.vault)
    /\ k.pc \in Creating => /\ \A v \in vaults : v.id # k.vault.id
                            /\ \A r \in stored : r.vault # k.vault.id
    /\ k.pc \in Dropping => \A v \in vaults : v.id = k.vault.id => v = k.vault

\* No other call is about a vault that is being created.
CreationsApart ==
    \A b, c \in Calls : b # c /\ call[c].pc \in Creating =>
        /\ call[b].pc \in Creating \union Dropping => call[b].vault.id # call[c].vault.id
        /\ call[b].pc \in Uploading => call[b].row.vault # call[c].vault.id

VaultInv ==
    /\ \A v \in vaults : Owns(v.tenant, v.id)
    /\ \A v, w \in vaults : v.id = w.id => v = w
    /\ \A r \in stored : Owns(r.tenant, r.vault)
    /\ \A c \in Calls : VaultCarried(call[c])
    /\ CreationsApart

\* Only one tenant owns an id.
LEMMA OwnerUnique ==
  ASSUME TypeOK, NEW t, NEW u, NEW id, Owns(t, id), Owns(u, id)
  PROVE  t = u
  <1>1. 1 .. calls \subseteq 1 .. MaxCalls
    BY StoreBoundsAssumption DEF TypeOK
  <1>2. \A v \in InitialVaults, x \in Tenants, n \in 1 .. calls : v.id # <<x, n>>
    BY <1>1, InitialVaultsAssumption
  <1>. QED  BY <1>2, InitialVaultsAssumption DEF Owns

\* The id a creation makes is nobody's yet.
LEMMA NewVaultId ==
  ASSUME TypeOK, calls' = calls + 1, calls' \in 1 .. MaxCalls, NEW t \in Tenants,
         NEW u, NEW id, Owns(u, id)
  PROVE  id # <<t, calls + 1>>
  <1>1. calls \in Nat /\ calls + 1 \notin 1 .. calls
    BY StoreBoundsAssumption DEF TypeOK
  <1>2. \A v \in InitialVaults : v.id # <<t, calls + 1>>
    BY InitialVaultsAssumption
  <1>. QED  BY <1>1, <1>2 DEF Owns

LEMMA OwnsGrows ==
  ASSUME TypeOK, calls' \in {calls, calls + 1}
  PROVE  \A t, id : Owns(t, id) => Owns(t, id)'
  <1>1. 1 .. calls \subseteq 1 .. calls'
    BY StoreBoundsAssumption DEF TypeOK
  <1>. QED  BY <1>1 DEF Owns

LEMMA VaultInit == Init => VaultInv
  BY InitialVaultsAssumption
  DEF Init, VaultInv, VaultCarried, CreationsApart, Owns, IdleCall, CallAt,
      Uploading, Creating, Dropping

LEMMA VaultInductive == TypeOK /\ VaultInv /\ [Next]_vars => VaultInv'
  <1>. SUFFICES ASSUME TypeOK, VaultInv, [Next]_vars PROVE VaultInv'
    OBVIOUS
  <1>1. CASE UNCHANGED vars
    BY <1>1 DEF vars, VaultInv, VaultCarried, CreationsApart, Owns
  <1>2. ASSUME NEW c \in Calls, GoesOn(c) PROVE VaultInv'
    <2>1. PICK k :
            /\ Becomes(c, k)
            /\ k.pc \in Uploading => call[c].pc \in Uploading /\ k.row = call[c].row
            /\ k.pc \in Creating => call[c].pc \in Creating /\ k.vault = call[c].vault
            /\ k.pc \in Dropping => call[c].pc \in Dropping /\ k.vault = call[c].vault
      BY <1>2 DEF GoesOn
    <2>2. /\ vaults' \subseteq vaults /\ calls' \in {calls, calls + 1}
          /\ \A r \in stored' : r \in stored \/ (call[c].pc \in Uploading /\ r = call[c].row)
      BY <1>2 DEF GoesOn
    <2>3. \A t, id : Owns(t, id) => Owns(t, id)'
      BY <2>2, OwnsGrows
    <2>4. ASSUME NEW b \in Calls, call[b].pc \in Creating, NEW r \in stored'
          PROVE  r.vault # call[b].vault.id
      <3>1. CASE r \in stored
        BY <2>4, <3>1 DEF VaultInv, VaultCarried
      <3>2. CASE call[c].pc \in Uploading /\ r = call[c].row
        <4>1. b # c
          BY <2>4, <3>2 DEF Uploading, Creating
        <4>. QED  BY <2>4, <3>2, <4>1 DEF VaultInv, CreationsApart
      <3>. QED  BY <2>2, <3>1, <3>2
    <2>5. ASSUME NEW b \in Calls PROVE (VaultCarried(call[b]))'
      <3>1. VaultCarried(call[b])
        BY DEF VaultInv
      <3>2. /\ call'[b].pc \in Uploading => call[b].pc \in Uploading /\ call'[b].row = call[b].row
            /\ call'[b].pc \in Creating => call[b].pc \in Creating /\ call'[b].vault = call[b].vault
            /\ call'[b].pc \in Dropping => call[b].pc \in Dropping /\ call'[b].vault = call[b].vault
        BY <2>1 DEF Becomes
      <3>. QED  BY <2>2, <2>3, <2>4, <3>1, <3>2 DEF VaultCarried
    <2>6. CreationsApart'
      BY <2>1 DEF Becomes, VaultInv, CreationsApart
    <2>7. ASSUME NEW r \in stored' PROVE Owns(r.tenant, r.vault)'
      BY <2>2, <2>3 DEF VaultInv, VaultCarried
    <2>. QED  BY <2>2, <2>3, <2>5, <2>6, <2>7 DEF VaultInv
  <1>3. ASSUME NEW c \in Calls, BeginsUpload(c) PROVE VaultInv'
    <2>1. PICK t \in Tenants, v \in vaults, name \in StoredNames :
             /\ BeginUpload(c, t, v, name)
             /\ Becomes(c, OfDocument("findKey", t, DocumentRow(calls + 1, t, v.id, name)))
      BY <1>3 DEF BeginsUpload
    <2>2. /\ vaults' = vaults /\ stored' = stored /\ calls' = calls + 1
          /\ v.tenant = t
      BY <2>1 DEF BeginUpload, Arrive, history
    <2>3. \A u, id : Owns(u, id) => Owns(u, id)'
      BY <2>2, OwnsGrows
    <2>4. call'[c].pc = "findKey" /\ call'[c].row.tenant = t /\ call'[c].row.vault = v.id
      BY <2>1 DEF Becomes, OfDocument, DocumentRow, CallAt
    <2>5. Owns(t, v.id)
      BY <2>2 DEF VaultInv
    <2>6. ASSUME NEW b \in Calls PROVE (VaultCarried(call[b]))'
      <3>1. CASE b = c
        BY <2>3, <2>4, <2>5, <3>1 DEF VaultCarried, Uploading, Creating, Dropping
      <3>2. CASE b # c
        <4>1. call'[b] = call[b] /\ VaultCarried(call[b])
          BY <2>1, <3>2 DEF Becomes, VaultInv
        <4>. QED  BY <2>2, <2>3, <4>1 DEF VaultCarried
      <3>. QED  BY <3>1, <3>2
    <2>7. CreationsApart'
      BY <2>1, <2>4 DEF Becomes, VaultInv, VaultCarried, CreationsApart, Creating, Dropping
    <2>. QED  BY <2>2, <2>3, <2>6, <2>7 DEF VaultInv
  <1>4. ASSUME NEW c \in Calls, BeginsCreateVault(c) PROVE VaultInv'
    <2>1. PICK t \in Tenants, pc \in {"count", "findSlug"}, slug \in Slugs :
             Becomes(c, OfVault(pc, t, VaultRow(<<t, calls + 1>>, t, slug, FALSE), {}))
      BY <1>4 DEF BeginsCreateVault
    <2>2. /\ vaults' = vaults /\ stored' = stored /\ calls' = calls + 1 /\ calls' \in 1 .. MaxCalls
      BY <1>4 DEF BeginsCreateVault
    <2>3. PICK new : new = <<t, calls + 1>>
      OBVIOUS
    <2>10. \A u, id : Owns(u, id) => Owns(u, id)'
      BY <2>2, OwnsGrows
    <2>11. \A u, id : Owns(u, id) => id # new
      BY <2>2, <2>3, NewVaultId
    <2>4. /\ call'[c].pc \in Creating \ (Uploading \union Dropping)
          /\ call'[c].vault.id = new /\ call'[c].vault.tenant = t
      BY <2>1, <2>3 DEF Becomes, OfVault, VaultRow, CallAt, Creating, Uploading, Dropping
    <2>5. Owns(t, new)'
      <3>1. calls + 1 \in 1 .. calls'
        BY <2>2
      <3>. QED  BY <2>3, <3>1 DEF Owns
    <2>6. ASSUME NEW b \in Calls PROVE (VaultCarried(call[b]))'
      <3>1. CASE b = c
        BY <2>2, <2>11, <2>4, <2>5, <3>1 DEF VaultCarried, VaultInv
      <3>2. CASE b # c
        <4>1. call'[b] = call[b] /\ VaultCarried(call[b])
          BY <2>1, <3>2 DEF Becomes, VaultInv
        <4>. QED  BY <2>2, <2>10, <4>1 DEF VaultCarried
      <3>. QED  BY <3>1, <3>2
    <2>7. ASSUME NEW b \in Calls
          PROVE  /\ call[b].pc \in Creating \union Dropping => call[b].vault.id # new
                 /\ call[b].pc \in Uploading => call[b].row.vault # new
      <3>1. VaultCarried(call[b])
        BY DEF VaultInv
      <3>. QED  BY <2>11, <3>1 DEF VaultCarried
    <2>8. CreationsApart'
      <3>. SUFFICES ASSUME NEW b \in Calls, NEW d \in Calls, b # d, call'[d].pc \in Creating
                    PROVE  /\ call'[b].pc \in Creating \union Dropping
                                 => call'[b].vault.id # call'[d].vault.id
                           /\ call'[b].pc \in Uploading => call'[b].row.vault # call'[d].vault.id
        BY DEF CreationsApart
      <3>1. CASE d = c
        <4>1. call'[b] = call[b] /\ call'[d].vault.id = new
          BY <2>1, <2>4, <3>1 DEF Becomes
        <4>. QED  BY <2>7, <4>1
      <3>2. CASE d # c /\ b = c
        <4>1. call'[d] = call[d]
          BY <2>1, <3>2 DEF Becomes
        <4>2. call[d].vault.id # new
          BY <2>7, <4>1
        <4>. QED  BY <2>4, <3>2, <4>1, <4>2
      <3>3. CASE d # c /\ b # c
        <4>1. call'[b] = call[b] /\ call'[d] = call[d]
          BY <2>1, <3>3 DEF Becomes
        <4>. QED  BY <4>1 DEF VaultInv, CreationsApart
      <3>. QED  BY <3>1, <3>2, <3>3
    <2>. QED  BY <2>2, <2>10, <2>6, <2>8 DEF VaultInv
  <1>5. ASSUME NEW c \in Calls, BeginsRemoveVault(c) PROVE VaultInv'
    <2>1. PICK t \in Tenants, v \in vaults :
             Becomes(c, OfVault("countDocuments", t, v, {d.id : d \in DocumentsIn(t, v.id)}))
      BY <1>5 DEF BeginsRemoveVault
    <2>2. vaults' = vaults /\ stored' = stored /\ calls' = calls + 1
      BY <1>5 DEF BeginsRemoveVault
    <2>3. \A u, id : Owns(u, id) => Owns(u, id)'
      BY <2>2, OwnsGrows
    <2>4. call'[c].pc = "countDocuments" /\ call'[c].vault = v
      BY <2>1 DEF Becomes, OfVault, CallAt
    <2>5. ASSUME NEW b \in Calls PROVE (VaultCarried(call[b]))'
      <3>1. CASE b = c
        BY <2>2, <2>3, <2>4, <3>1 DEF VaultCarried, VaultInv, Uploading, Creating, Dropping
      <3>2. CASE b # c
        <4>1. call'[b] = call[b] /\ VaultCarried(call[b])
          BY <2>1, <3>2 DEF Becomes, VaultInv
        <4>. QED  BY <2>2, <2>3, <4>1 DEF VaultCarried
      <3>. QED  BY <3>1, <3>2
    <2>6. CreationsApart'
      BY <2>1, <2>4 DEF Becomes, VaultInv, VaultCarried, CreationsApart, Creating, Uploading
    <2>. QED  BY <2>2, <2>3, <2>5, <2>6 DEF VaultInv
  <1>6. ASSUME NEW c \in Calls, InsertsVault(c) PROVE VaultInv'
    <2>. DEFINE v == call[c].vault
    <2>1. /\ vaults' = vaults \union {v} /\ stored' = stored /\ calls' = calls
          /\ Becomes(c, IdleCall) /\ call[c].pc \in Creating
      BY <1>6 DEF InsertsVault, Creating
    <2>2. \A u, id : Owns(u, id) => Owns(u, id)'
      BY <2>1, OwnsGrows
    <2>3. Owns(v.tenant, v.id) /\ \A w \in vaults : w.id # v.id
      BY <2>1 DEF VaultInv, VaultCarried
    <2>4. call'[c].pc = "idle"
      BY <2>1 DEF Becomes, IdleCall, CallAt
    <2>5. ASSUME NEW b \in Calls PROVE (VaultCarried(call[b]))'
      <3>1. CASE b = c
        BY <2>4, <3>1 DEF VaultCarried, Uploading, Creating, Dropping
      <3>2. CASE b # c
        <4>1. call'[b] = call[b] /\ VaultCarried(call[b])
          BY <2>1, <3>2 DEF Becomes, VaultInv
        <4>2. call[b].pc \in Creating \union Dropping => call[b].vault.id # v.id
          BY <2>1, <3>2 DEF VaultInv, CreationsApart
        <4>. QED  BY <2>1, <2>2, <4>1, <4>2 DEF VaultCarried
      <3>. QED  BY <3>1, <3>2
    <2>6. CreationsApart'
      BY <2>1, <2>4 DEF Becomes, VaultInv, CreationsApart, Creating, Uploading, Dropping
    <2>. QED  BY <2>1, <2>2, <2>3, <2>5, <2>6 DEF VaultInv
  <1>. QED  BY <1>1, <1>2, <1>3, <1>4, <1>5, <1>6, VaultCases DEF VaultCase

LEMMA VaultInvariant == Spec => []VaultInv
  BY VaultInit, VaultInductive, TypeCorrect, PTL DEF Spec

-----------------------------------------------------------------------------
(***************************************************************************)
(* How a call gets where it is, and what the histories keep.               *)
(***************************************************************************)
LEMMA HistoriesGrow ==
  ASSUME TypeOK, [Next]_vars
  PROVE  stored \subseteq stored' /\ saved \subseteq saved' /\ removing \subseteq removing'
  <1>1. CASE UNCHANGED vars
    BY <1>1 DEF vars
  <1>2. ASSUME NEW c \in Calls, VaultStep(c)
        PROVE  stored \subseteq stored' /\ saved \subseteq saved' /\ removing \subseteq removing'
    BY <1>2 DEF VaultStep
  <1>3. ASSUME NEW c \in Calls, DocumentStep(c)
        PROVE  stored \subseteq stored' /\ saved \subseteq saved' /\ removing \subseteq removing'
    BY <1>3
    DEF DocumentStep, BeginsUpload, BeginUpload, FindTenantKey, SavesKey, SaveTenantKey, Puts,
        PutObject, Saves, SaveDocument, BeginsDownload, BeginDownload, GetStream,
        BeginsRemove, BeginRemove, DeletesObject, DeleteObject, DeletesRow, DeleteRow, history
  <1>. QED  BY <1>1, <1>2, <1>3, NextCases

\* A call is where it was, or has just made the step that leads there.
LEMMA Arrived ==
  ASSUME TypeOK, [Next]_vars, NEW c \in Calls
  PROVE  \/ call'[c] = call[c]
         \/ call'[c].pc = "streamed" /\ GetStream(c)
         \/ call'[c].pc = "saveDocument" /\ Puts(c)
         \/ call'[c].pc = "deleteRow" /\ DeletesObject(c)
         \/ call'[c].pc = "deleteVault" /\ CountDocuments(c)
         \/ call'[c].pc \notin {"streamed", "saveDocument", "deleteRow", "deleteVault"}
  <1>. DEFINE Later == {"streamed", "saveDocument", "deleteRow", "deleteVault"}
  <1>1. CASE UNCHANGED vars
    BY <1>1 DEF vars
  <1>2. ASSUME NEW b \in Calls, b # c, VaultStep(b) PROVE call'[c] = call[c]
    BY <1>2 DEF VaultStep, Becomes
  <1>3. ASSUME NEW b \in Calls, b # c, DocumentStep(b) PROVE call'[c] = call[c]
    <2>1. FindTenantKey(b) => \E k : Becomes(b, k)
      BY FindTenantKeyBecomes
    <2>2. GetStream(b) => \E k : Becomes(b, k)
      BY GetStreamBecomes
    <2>3. \E k : Becomes(b, k)
      BY <1>3, <2>1, <2>2
      DEF DocumentStep, BeginsUpload, SavesKey, Puts, Saves, BeginsDownload, BeginsRemove,
          DeletesObject, DeletesRow
    <2>. QED  BY <1>3, <2>3 DEF Becomes
  <1>4. CASE VaultStep(c)
    <2>1. PICK k : /\ Becomes(c, k)
                   /\ k.pc \in {"idle"} \union Creating \union Dropping
                   /\ k.pc = "deleteVault" => CountDocuments(c)
      BY <1>4 DEF VaultStep
    <2>. QED  BY <2>1 DEF Becomes, Creating, Dropping
  <1>5. CASE BeginsUpload(c) \/ BeginsDownload(c) \/ BeginsRemove(c)
    <2>1. BeginsUpload(c) => call'[c].pc = "findKey"
      BY DEF BeginsUpload, OfDocument, CallAt, Becomes
    <2>2. BeginsDownload(c) => call'[c].pc = "getStream"
      BY DEF BeginsDownload, CallAt, Becomes
    <2>3. BeginsRemove(c) => call'[c].pc = "deleteObject"
      BY DEF BeginsRemove, OfDocument, CallAt, Becomes
    <2>. QED  BY <1>5, <2>1, <2>2, <2>3
  <1>6. CASE FindTenantKey(c)
    <2>1. call'[c].pc \in {"saveKey", "put"}
      BY <1>6, KeyFound DEF Becomes
    <2>. QED  BY <2>1
  <1>7. CASE SavesKey(c) \/ Puts(c) \/ Saves(c) \/ DeletesObject(c) \/ DeletesRow(c)
    BY <1>7 DEF SavesKey, Puts, Saves, DeletesObject, DeletesRow, Becomes, At, CallAt, IdleCall
  <1>8. CASE GetStream(c)
    <2>1. call'[c].pc = "streamed"
      BY <1>8, Streamed DEF Becomes
    <2>. QED  BY <1>8, <2>1
  <1>. QED
    BY <1>1, <1>2, <1>3, <1>4, <1>5, <1>6, <1>7, <1>8, NextCases DEF DocumentStep

\* What happens to the rows of documents, to the objects and to the rows of vaults.
LEMMA DocumentsChange ==
  ASSUME TypeOK, [Next]_vars
  PROVE  documents' \subseteq documents \/ \E c \in Calls : Saves(c)
  <1>1. ASSUME NEW c \in Calls, DocumentStep(c) PROVE documents' \subseteq documents \/ Saves(c)
    BY <1>1
    DEF DocumentStep, BeginsUpload, BeginUpload, FindTenantKey, SavesKey, SaveTenantKey, Puts,
        PutObject, BeginsDownload, BeginDownload, GetStream,
        BeginsRemove, BeginRemove, DeletesObject, DeleteObject, DeletesRow, DeleteRow
  <1>. QED  BY <1>1, NextCases DEF VaultStep, vars

LEMMA ObjectsChange ==
  ASSUME TypeOK, [Next]_vars
  PROVE  objects' = objects \/ \E c \in Calls : Puts(c) \/ DeletesObject(c)
  <1>1. ASSUME NEW c \in Calls, DocumentStep(c)
        PROVE  objects' = objects \/ Puts(c) \/ DeletesObject(c)
    BY <1>1
    DEF DocumentStep, BeginsUpload, BeginUpload, FindTenantKey, SavesKey, SaveTenantKey,
        Saves, SaveDocument, BeginsDownload, BeginDownload, GetStream,
        BeginsRemove, BeginRemove, DeletesRow, DeleteRow
  <1>. QED  BY <1>1, NextCases DEF VaultStep, vars

LEMMA VaultsGo ==
  ASSUME [Next]_vars
  PROVE  vaults \subseteq vaults' \/ \E c \in Calls : DeleteVault(c)
  <1>1. ASSUME NEW c \in Calls, Step(c) PROVE vaults \subseteq vaults' \/ DeleteVault(c)
    BY <1>1
    DEF Step, FindTenantKey, SaveTenantKey, PutObject, SaveDocument, GetStream, DeleteObject,
        DeleteRow, CountVaults, FindSlug, InsertVault, CountDocuments, Answer, Crash
  <1>. QED
    BY <1>1
    DEF Next, vars, RefuseUpload, BeginUpload, BeginDownload, BeginRemove, BeginCreateVault,
        BeginRemoveVault

-----------------------------------------------------------------------------
(***************************************************************************)
(* Documents lie in their own tenant's vaults.                             *)
(***************************************************************************)

\* A document always lies in an existing vault of its own tenant, although its vault is
\* looked up when the upload begins and may be deleted at any later step.
THEOREM RowsInOwnVaultCorrect == Spec => []RowsInOwnVault
  <1>1. Init => RowsInOwnVault
    BY DEF Init, RowsInOwnVault
  <1>2. TypeOK /\ VaultInv /\ RowsInOwnVault /\ [Next]_vars => RowsInOwnVault'
    <2>. SUFFICES ASSUME TypeOK, VaultInv, RowsInOwnVault, [Next]_vars PROVE RowsInOwnVault'
      OBVIOUS
    <2>1. ASSUME NEW c \in Calls, DeleteVault(c) PROVE RowsInOwnVault'
      <3>1. /\ vaults' = vaults \ {call[c].vault}
            /\ documents' = {d \in documents : d.vault # call[c].vault.id}
        BY <2>1 DEF DeleteVault
      <3>. QED  BY <3>1 DEF RowsInOwnVault
    <2>2. ASSUME NEW c \in Calls, Saves(c) PROVE RowsInOwnVault'
      <3>. DEFINE row == call[c].row
      <3>1. /\ vaults' = vaults /\ documents' = documents \union {row}
            /\ call[c].pc \in Uploading
        BY <2>2 DEF Saves, SaveDocument, Uploading
      <3>2. PICK v \in vaults : v.id = row.vault
        BY <2>2 DEF Saves
      <3>3. Owns(row.tenant, row.vault) /\ Owns(v.tenant, v.id)
        BY <3>1 DEF VaultInv, VaultCarried
      <3>4. v.tenant = row.tenant
        BY <3>2, <3>3, OwnerUnique
      <3>. QED  BY <3>1, <3>2, <3>4 DEF RowsInOwnVault
    <2>3. CASE documents' \subseteq documents /\ vaults \subseteq vaults'
      BY <2>3 DEF RowsInOwnVault
    <2>. QED  BY <2>1, <2>2, <2>3, VaultsGo, DocumentsChange
  <1>. QED  BY <1>1, <1>2, TypeCorrect, VaultInvariant, PTL DEF Spec

-----------------------------------------------------------------------------
(***************************************************************************)
(* What a download streams.                                                *)
(***************************************************************************)

\* A row whose key is shared stays so.
LEMMA SharedGrows ==
  ASSUME stored \subseteq stored'
  PROVE  \A row : Shared(row) => Shared(row)'
  BY DEF Shared

\* The object a download finds is the one that was uploaded, under the key it has, or
\* another upload's under the same storage key.
LEMMA StreamedRight ==
  ASSUME TypeOK, KeyInv, RowInv, NEW c \in Calls, GetStream(c)
  PROVE  /\ call'[c].row = call[c].row
         /\ call'[c].row.tenant = call'[c].tenant
         /\ call'[c].body = call[c].row.id \/ Shared(call[c].row)
  <1>. DEFINE row == call[c].row
  <1>1. PICK o \in ObjectAt(StorageKey(row)) :
          Becomes(c, CallAt("streamed", call[c].tenant, row, call[c].vault,
                            call[c].dek, Decipher(o, row, call[c].dek), call[c].before))
    BY GetStreamBecomes
  <1>2. /\ row.tenant = call[c].tenant
        /\ call[c].dek = tenantKeys[call[c].tenant]
    BY DEF GetStream, RowInv, RowCarried, KeyInv, KeyCarried, Finding
  <1>3. o \in objects /\ o.key = StorageKey(row)
    BY DEF ObjectAt
  <1>4. PICK r \in stored : r.id = o.doc /\ StorageKey(r) = o.key
    BY <1>3 DEF RowInv
  <1>5. CASE o.doc # row.id
    BY <1>1, <1>2, <1>3, <1>4, <1>5 DEF Shared, Becomes, CallAt
  <1>6. CASE o.doc = row.id
    <2>1. o.dek = call[c].dek
      BY <1>2, <1>3 DEF KeyInv, KeyOpensObjects, StorageKey
    <2>2. Decipher(o, row, call[c].dek) = row.id
      BY <1>6, <2>1 DEF Decipher
    <2>. QED  BY <1>1, <1>2, <2>2 DEF Becomes, CallAt
  <1>7. call'[c].row = row /\ call'[c].tenant = call[c].tenant
    BY <1>1 DEF Becomes, CallAt
  <1>. QED  BY <1>2, <1>5, <1>6, <1>7

\* A download streams a document of its tenant, and streams what was uploaded, whatever
\* else is uploaded or removed meanwhile, unless its storage key is shared.
THEOREM DownloadGivesUploadCorrect == Spec => []DownloadGivesUpload
  <1>1. Init => DownloadGivesUpload
    BY DEF Init, DownloadGivesUpload, IdleCall, CallAt
  <1>2. TypeOK /\ KeyInv /\ RowInv /\ DownloadGivesUpload /\ [Next]_vars
          => DownloadGivesUpload'
    <2>. SUFFICES ASSUME TypeOK, KeyInv, RowInv, DownloadGivesUpload, [Next]_vars,
                         NEW c \in Calls, call'[c].pc = "streamed"
                  PROVE  /\ call'[c].row.tenant = call'[c].tenant
                         /\ call'[c].body = call'[c].row.id \/ (Shared(call[c].row))'
      BY DEF DownloadGivesUpload
    <2>1. \A row : Shared(row) => Shared(row)'
      BY HistoriesGrow, SharedGrows
    <2>2. CASE call'[c] = call[c]
      <3>1. call[c].row.tenant = call[c].tenant
            /\ (call[c].body = call[c].row.id \/ Shared(call[c].row))
        BY <2>2 DEF DownloadGivesUpload
      <3>. QED  BY <2>1, <2>2, <3>1 DEF Shared
    <2>3. CASE GetStream(c)
      BY <2>1, <2>3, StreamedRight, HistoriesGrow DEF Shared
    <2>. QED  BY <2>2, <2>3, Arrived
  <1>3. Spec => []KeyInv
    BY KeyInit, KeyInductive, TypeCorrect, PTL DEF Spec
  <1>. QED  BY <1>1, <1>2, <1>3, TypeCorrect, RowInvariant, PTL DEF Spec

-----------------------------------------------------------------------------
(***************************************************************************)
(* A document that can be listed has its object.                           *)
(***************************************************************************)

\* The object of a row is there, or was removed for its own tenant, or may have been
\* replaced or removed through a shared storage key.
Backed(row) ==
    \/ \E o \in ObjectAt(StorageKey(row)) : o.doc = row.id
    \/ <<row.tenant, row.id>> \in removing
    \/ Shared(row)

BackedInv ==
    /\ \A d \in documents : Backed(d)
    /\ \A c \in Calls : call[c].pc = "saveDocument" => Backed(call[c].row)

\* A stored row stays backed.
LEMMA BackedStays ==
  ASSUME TypeOK, RowInv, [Next]_vars, NEW row \in stored, Backed(row)
  PROVE  Backed(row)'
  <1>1. stored \subseteq stored' /\ removing \subseteq removing'
    BY HistoriesGrow
  <1>2. CASE objects' = objects
    BY <1>1, <1>2 DEF Backed, Shared, ObjectAt
  <1>3. ASSUME NEW c \in Calls, Puts(c) PROVE Backed(row)'
    <2>1. /\ objects' = Put(CipherText(c)) /\ call[c].row \in stored'
          /\ CipherText(c).key = StorageKey(call[c].row) /\ CipherText(c).doc = call[c].row.id
      BY <1>3 DEF Puts, PutObject, CipherText
    <2>2. CASE StorageKey(call[c].row) # StorageKey(row)
      BY <1>1, <2>1, <2>2 DEF Backed, Shared, Put, ObjectAt
    <2>3. CASE StorageKey(call[c].row) = StorageKey(row) /\ call[c].row.id # row.id
      BY <2>1, <2>3 DEF Backed, Shared
    <2>4. CASE StorageKey(call[c].row) = StorageKey(row) /\ call[c].row.id = row.id
      BY <2>1, <2>4 DEF Backed, Put, ObjectAt
    <2>. QED  BY <2>2, <2>3, <2>4
  <1>4. ASSUME NEW c \in Calls, DeletesObject(c) PROVE Backed(row)'
    <2>. DEFINE gone == call[c].row
    <2>1. /\ objects' = objects \ ObjectAt(StorageKey(gone))
          /\ removing' = removing \union {<<call[c].tenant, gone.id>>}
          /\ gone \in stored /\ gone.tenant = call[c].tenant
      BY <1>4 DEF DeletesObject, DeleteObject, RowInv, RowCarried, Finding
    <2>2. CASE StorageKey(gone) # StorageKey(row)
      BY <1>1, <2>1, <2>2 DEF Backed, Shared, ObjectAt
    <2>3. CASE StorageKey(gone) = StorageKey(row) /\ gone.id # row.id
      BY <1>1, <2>1, <2>3 DEF Backed, Shared
    <2>4. CASE StorageKey(gone) = StorageKey(row) /\ gone.id = row.id
      <3>1. gone.tenant = row.tenant
        BY <2>4 DEF StorageKey
      <3>. QED  BY <2>1, <2>4, <3>1 DEF Backed
    <2>. QED  BY <2>2, <2>3, <2>4
  <1>. QED  BY <1>2, <1>3, <1>4, ObjectsChange

LEMMA BackedInductive == TypeOK /\ RowInv /\ BackedInv /\ [Next]_vars => BackedInv'
  <1>. SUFFICES ASSUME TypeOK, RowInv, BackedInv, [Next]_vars PROVE BackedInv'
    OBVIOUS
  <1>1. ASSUME NEW d \in documents' PROVE Backed(d)'
    <2>1. CASE d \in documents
      BY <2>1, BackedStays DEF BackedInv, RowInv
    <2>2. ASSUME NEW c \in Calls, Saves(c), d = call[c].row PROVE Backed(d)'
      <3>1. d \in stored /\ Backed(d)
        BY <2>2 DEF Saves, SaveDocument, RowInv, RowCarried, BackedInv
      <3>. QED  BY <3>1, BackedStays
    <2>3. d \in documents \/ \E c \in Calls : Saves(c) /\ d = call[c].row
      BY DocumentsChange DEF Saves, SaveDocument
    <2>. QED  BY <2>1, <2>2, <2>3
  <1>2. ASSUME NEW c \in Calls, call'[c].pc = "saveDocument" PROVE (Backed(call[c].row))'
    <2>1. CASE call'[c] = call[c]
      <3>1. PICK row : row = call[c].row
        OBVIOUS
      <3>2. row \in stored /\ Backed(row)
        BY <1>2, <2>1, <3>1 DEF RowInv, RowCarried, BackedInv
      <3>3. Backed(row)'
        BY <3>2, BackedStays
      <3>. QED  BY <2>1, <3>1, <3>3 DEF Backed, Shared, ObjectAt
    <2>2. CASE Puts(c)
      <3>1. /\ objects' = Put(CipherText(c)) /\ call'[c].row = call[c].row
            /\ CipherText(c).key = StorageKey(call[c].row) /\ CipherText(c).doc = call[c].row.id
        BY <2>2 DEF Puts, PutObject, CipherText, Becomes, At, CallAt
      <3>. QED  BY <3>1 DEF Backed, Put, ObjectAt
    <2>. QED  BY <1>2, <2>1, <2>2, Arrived
  <1>. QED  BY <1>1, <1>2 DEF BackedInv

\* A document that can be listed has its object, unless its own tenant began to remove
\* it, or its storage key is shared with another upload.
THEOREM RowHasObjectCorrect == Spec => []RowHasObject
  <1>1. Init => BackedInv
    BY DEF Init, BackedInv, IdleCall, CallAt
  <1>2. Spec => []BackedInv
    BY <1>1, BackedInductive, TypeCorrect, RowInvariant, PTL DEF Spec
  <1>3. BackedInv => RowHasObject
    BY DEF BackedInv, Backed, RowHasObject
  <1>. QED  BY <1>2, <1>3, PTL

-----------------------------------------------------------------------------
(***************************************************************************)
(* Objects nobody can find.                                                *)
(***************************************************************************)

\* Once its removal has deleted the object of a document, no object of it comes back.
OrphanInv ==
    /\ OrphansExplained
    /\ \A c \in Calls : call[c].pc = "deleteRow" => \A o \in objects : o.doc # call[c].row.id

LEMMA RemovedStaysAway ==
  ASSUME TypeOK, RowInv, OrphanInv, [Next]_vars, NEW c \in Calls, call'[c].pc = "deleteRow"
  PROVE  \A o \in objects' : o.doc # call'[c].row.id
  <1>1. CASE DeletesObject(c)
    <2>. DEFINE row == call[c].row
    <2>1. /\ objects' = objects \ ObjectAt(StorageKey(row))
          /\ call'[c].row = row /\ row \in stored
      BY <1>1 DEF DeletesObject, DeleteObject, RowInv, RowCarried, Finding, Becomes, At, CallAt
    <2>2. ASSUME NEW o \in objects', o.doc = row.id PROVE FALSE
      <3>1. PICK r \in stored : r.id = o.doc /\ StorageKey(r) = o.key
        BY <2>1 DEF RowInv
      <3>2. r = row
        BY <2>1, <2>2, <3>1 DEF RowInv
      <3>. QED  BY <2>1, <3>1, <3>2 DEF ObjectAt
    <2>. QED  BY <2>1, <2>2
  <1>2. CASE call'[c] = call[c]
    <2>1. /\ \A o \in objects : o.doc # call[c].row.id
          /\ call[c].row.id \in saved
      BY <1>2 DEF OrphanInv, RowInv, RowCarried, Finding
    <2>2. CASE objects' = objects
      BY <1>2, <2>1, <2>2
    <2>3. ASSUME NEW b \in Calls, Puts(b) PROVE \A o \in objects' : o.doc # call'[c].row.id
      <3>1. objects' = Put(CipherText(b)) /\ CipherText(b).doc = call[b].row.id
        BY <2>3 DEF Puts, PutObject, CipherText
      <3>2. call[b].row.id \notin saved
        BY <2>3 DEF Puts, PutObject, RowInv, RowCarried
      <3>. QED  BY <1>2, <2>1, <3>1, <3>2 DEF Put
    <2>4. ASSUME NEW b \in Calls, DeletesObject(b) PROVE objects' \subseteq objects
      BY <2>4 DEF DeletesObject, DeleteObject
    <2>. QED  BY <1>2, <2>1, <2>2, <2>3, <2>4, ObjectsChange
  <1>. QED  BY <1>1, <1>2, Arrived

\* A vault in which something was stored, once gone, does not come back.
LEMMA VaultsStayGone ==
  ASSUME TypeOK, VaultInv, [Next]_vars, NEW r \in stored, \A v \in vaults : v.id # r.vault
  PROVE  \A v \in vaults' : v.id # r.vault
  <1>1. vaults' \subseteq vaults \/ \E c \in Calls : InsertsVault(c)
    BY VaultCases
    DEF VaultCase, GoesOn, BeginsUpload, BeginUpload, BeginsCreateVault, BeginsRemoveVault, vars
  <1>2. ASSUME NEW c \in Calls, InsertsVault(c) PROVE \A v \in vaults' : v.id # r.vault
    <2>1. vaults' = vaults \union {call[c].vault} /\ call[c].pc \in Creating
      BY <1>2 DEF InsertsVault, Creating
    <2>2. call[c].vault.id # r.vault
      BY <2>1 DEF VaultInv, VaultCarried
    <2>. QED  BY <2>1, <2>2
  <1>. QED  BY <1>1, <1>2

\* Rows go by the removal of the document or of its vault.
LEMMA DocumentsGo ==
  ASSUME TypeOK, [Next]_vars
  PROVE  documents \subseteq documents' \/ \E c \in Calls : DeletesRow(c) \/ DeleteVault(c)
  <1>1. ASSUME NEW c \in Calls, Step(c)
        PROVE  documents \subseteq documents' \/ DeleteRow(c) \/ DeleteVault(c)
    BY <1>1
    DEF Step, FindTenantKey, SaveTenantKey, PutObject, SaveDocument, GetStream, DeleteObject,
        CountVaults, FindSlug, InsertVault, CountDocuments, Answer, Crash
  <1>2. ASSUME NEW c \in Calls, DeleteRow(c) PROVE DeletesRow(c)
    BY <1>2, EndBecomes DEF DeleteRow, DeletesRow
  <1>. QED
    BY <1>1, <1>2
    DEF Next, vars, RefuseUpload, BeginUpload, BeginDownload, BeginRemove, BeginCreateVault,
        BeginRemoveVault

LEMMA OrphanInductive ==
  TypeOK /\ RowInv /\ VaultInv /\ OrphanInv /\ [Next]_vars => OrphanInv'
  <1>. SUFFICES ASSUME TypeOK, RowInv, VaultInv, OrphanInv, [Next]_vars PROVE OrphanInv'
    OBVIOUS
  <1>1. ASSUME NEW o \in objects', o.doc \in saved'
        PROVE  (\E d \in documents' : d.id = o.doc) \/ (\A v \in vaults' : v.id # o.key[2])
    <2>. DEFINE Explained == (\E d \in documents' : d.id = o.doc)
                                \/ (\A v \in vaults' : v.id # o.key[2])
    <2>. HIDE DEF Explained
    <2>1. CASE o \in objects /\ o.doc \in saved
      <3>1. PICK r \in stored : r.id = o.doc /\ StorageKey(r) = o.key
        BY <2>1 DEF RowInv
      <3>2. o.key[2] = r.vault
        BY <3>1 DEF StorageKey
      <3>3. CASE \A v \in vaults : v.id # o.key[2]
        BY <3>2, <3>3, VaultsStayGone DEF Explained
      <3>4. CASE \E d \in documents : d.id = o.doc
        <4>1. PICK d \in documents : d.id = o.doc
          BY <3>4
        <4>2. d = r
          BY <3>1, <4>1 DEF RowInv
        <4>3. CASE documents \subseteq documents'
          BY <4>1, <4>3 DEF Explained
        <4>4. ASSUME NEW c \in Calls, DeletesRow(c) PROVE Explained
          <5>1. /\ documents' = documents \ FindDocument(call[c].tenant, call[c].row.id)
                /\ call[c].row.id # o.doc
            BY <2>1, <4>4 DEF DeletesRow, DeleteRow, OrphanInv
          <5>. QED  BY <4>1, <5>1 DEF FindDocument, Explained
        <4>5. ASSUME NEW c \in Calls, DeleteVault(c) PROVE Explained
          <5>. DEFINE w == call[c].vault
          <5>1. /\ call[c].pc \in Dropping /\ vaults' = vaults \ {w}
                /\ documents' = {e \in documents : e.vault # w.id}
            BY <4>5 DEF DeleteVault, Dropping
          <5>2. \A v \in vaults : v.id = w.id => v = w
            BY <5>1 DEF VaultInv, VaultCarried
          <5>. QED  BY <3>2, <4>1, <4>2, <5>1, <5>2 DEF Explained
        <4>6. documents \subseteq documents' \/ \E c \in Calls : DeletesRow(c) \/ DeleteVault(c)
          BY DocumentsGo
        <4>7. Explained
          BY <4>3, <4>4, <4>5, <4>6 DEF Explained
        <4>. QED  BY <4>7 DEF Explained
      <3>. QED  BY <2>1, <3>3, <3>4 DEF OrphanInv, OrphansExplained
    <2>2. ASSUME NEW c \in Calls, Saves(c), ~ (o \in objects /\ o.doc \in saved) PROVE Explained
      BY <1>1, <2>2 DEF Saves, SaveDocument, Explained
    <2>3. ASSUME NEW c \in Calls, Puts(c), o \notin objects PROVE FALSE
      <3>1. o = CipherText(c) /\ saved' = saved
        BY <2>3 DEF Puts, PutObject, Put
      <3>2. call[c].row.id \notin saved /\ o.doc = call[c].row.id
        BY <2>3, <3>1 DEF Puts, PutObject, CipherText, RowInv, RowCarried
      <3>. QED  BY <1>1, <3>1, <3>2
    <2>4. o \in objects \/ \E c \in Calls : Puts(c)
      BY ObjectsChange DEF DeletesObject, DeleteObject
    <2>5. saved' = saved \/ \E c \in Calls : Saves(c)
      <3>1. ASSUME NEW c \in Calls, DocumentStep(c) PROVE saved' = saved \/ Saves(c)
        BY <3>1
        DEF DocumentStep, BeginsUpload, BeginUpload, FindTenantKey, SavesKey, SaveTenantKey, Puts,
            PutObject, BeginsDownload, BeginDownload, GetStream, BeginsRemove, BeginRemove,
            DeletesObject, DeleteObject, DeletesRow, DeleteRow, history
      <3>. QED  BY <3>1, NextCases DEF VaultStep, vars
    <2>6. Explained
      <3>1. o \in objects
        BY <2>3, <2>4
      <3>2. o.doc \in saved \/ \E c \in Calls : Saves(c)
        BY <1>1, <2>5
      <3>. QED  BY <2>1, <2>2, <3>1, <3>2 DEF Explained
    <2>. QED  BY <2>6 DEF Explained
  <1>2. OrphansExplained'
    BY <1>1 DEF OrphansExplained
  <1>. QED  BY <1>2, RemovedStaysAway DEF OrphanInv

\* The object of a saved document outlives its row only when the row went with its vault.
THEOREM OrphansExplainedCorrect == Spec => []OrphansExplained
  <1>1. Init => OrphanInv
    BY DEF Init, OrphanInv, OrphansExplained, IdleCall, CallAt
  <1>2. OrphanInv => OrphansExplained
    BY DEF OrphanInv
  <1>. QED
    BY <1>1, <1>2, OrphanInductive, TypeCorrect, RowInvariant, VaultInvariant, PTL DEF Spec

-----------------------------------------------------------------------------
(***************************************************************************)
(* The removal of a vault.                                                 *)
(***************************************************************************)

\* A vault about to be deleted holds none of the documents it held when its removal
\* began: its documents were counted since, and no document is saved twice.
CountedInv ==
    \A c \in Calls : call[c].pc = "deleteVault" =>
        \A d \in documents : d.id \in call[c].before => d.vault # call[c].vault.id

LEMMA CountedInductive ==
  TypeOK /\ RowInv /\ VaultInv /\ RowsInOwnVault /\ CountedInv /\ [Next]_vars => CountedInv'
  <1>. SUFFICES ASSUME TypeOK, RowInv, VaultInv, RowsInOwnVault, CountedInv, [Next]_vars,
                       NEW c \in Calls, call'[c].pc = "deleteVault",
                       NEW d \in documents', d.id \in call'[c].before
                PROVE  d.vault # call'[c].vault.id
    BY DEF CountedInv
  <1>1. CASE CountDocuments(c)
    <2>1. /\ documents' = documents /\ call[c].pc \in Dropping
          /\ DocumentsIn(call[c].tenant, call[c].vault.id) = {}
          /\ Becomes(c, At(call[c], "deleteVault"))
      BY <1>1, GotoBecomes DEF CountDocuments, Dropping
    <2>2. PICK v \in vaults : v.id = d.vault /\ v.tenant = d.tenant
      BY <2>1 DEF RowsInOwnVault
    <2>3. d.vault = call[c].vault.id => d.tenant = call[c].tenant
      BY <2>1, <2>2, CarriedType DEF VaultInv, VaultCarried
    <2>4. call'[c].vault = call[c].vault
      BY <2>1 DEF Becomes, At, CallAt
    <2>. QED  BY <2>1, <2>3, <2>4 DEF DocumentsIn
  <1>2. CASE call'[c] = call[c]
    <2>1. CASE d \in documents
      BY <1>2, <2>1 DEF CountedInv
    <2>2. ASSUME NEW b \in Calls, Saves(b) PROVE d \in documents
      <3>1. documents' = documents \union {call[b].row} /\ call[b].row.id \notin saved
        BY <2>2 DEF Saves, SaveDocument, RowInv, RowCarried
      <3>2. d.id \in saved
        BY <1>2 DEF RowInv, RowCarried, Dropping
      <3>. QED  BY <3>1, <3>2
    <2>. QED  BY <2>1, <2>2, DocumentsChange
  <1>. QED  BY <1>1, <1>2, Arrived

\* A row disappears by its own removal, or with its vault; and then it was not in the
\* vault when the removal of the vault began.
THEOREM VaultRemovalSparesDocumentsCorrect == Spec => VaultRemovalSparesDocuments
  <1>. DEFINE Spares ==
         \A d \in documents \ documents' : \E c \in Calls :
             \/ call[c].pc = "deleteRow" /\ call[c].row.id = d.id
             \/ /\ call[c].pc = "deleteVault"
                /\ call[c].vault.id = d.vault
                /\ d.id \notin call[c].before
  <1>1. Init => CountedInv
    BY DEF Init, CountedInv
  <1>2. TypeOK /\ CountedInv /\ [Next]_vars => [Spares]_vars
    <2>. SUFFICES ASSUME TypeOK, CountedInv, [Next]_vars PROVE Spares
      OBVIOUS
    <2>1. ASSUME NEW c \in Calls, DeletesRow(c) PROVE Spares
      BY <2>1 DEF DeletesRow, DeleteRow, FindDocument
    <2>2. ASSUME NEW c \in Calls, DeleteVault(c) PROVE Spares
      BY <2>2 DEF DeleteVault, CountedInv
    <2>. QED  BY <2>1, <2>2, DocumentsGo
  <1>. QED
    BY <1>1, <1>2, CountedInductive, TypeCorrect, RowInvariant, VaultInvariant,
       RowsInOwnVaultCorrect, PTL
    DEF Spec, VaultRemovalSparesDocuments

-----------------------------------------------------------------------------
(***************************************************************************)
(* Temporary files.                                                        *)
(***************************************************************************)
LEMMA StepBecomes ==
  ASSUME TypeOK, NEW c \in Calls, Step(c)
  PROVE  \E k : Becomes(c, k)
  <1>1. ASSUME NEW pc, Goto(c, pc) PROVE \E k : Becomes(c, k)
    BY <1>1, GotoBecomes
  <1>2. ASSUME End(c) PROVE \E k : Becomes(c, k)
    BY <1>2, EndBecomes
  <1>3. CASE SaveTenantKey(c) \/ PutObject(c) \/ SaveDocument(c) \/ DeleteObject(c)
    BY <1>1, <1>2, <1>3 DEF SaveTenantKey, PutObject, SaveDocument, DeleteObject
  <1>4. CASE CountVaults(c) \/ FindSlug(c) \/ CountDocuments(c)
    BY <1>1, <1>4 DEF CountVaults, FindSlug, CountDocuments
  <1>5. CASE DeleteRow(c) \/ InsertVault(c) \/ DeleteVault(c) \/ Answer(c)
    BY <1>2, <1>5 DEF DeleteRow, InsertVault, DeleteVault, Answer
  <1>6. CASE Crash(c)
    BY <1>6, SlotBecomes DEF Crash
  <1>. QED  BY <1>3, <1>4, <1>5, <1>6, KeyFound, Streamed DEF Step

\* A call in progress is moved by its own steps only.
LEMMA OthersStay ==
  ASSUME TypeOK, [Next]_vars, NEW c \in Calls, call[c].pc # "idle"
  PROVE  call'[c] = call[c] \/ Step(c)
  <1>1. ASSUME NEW b \in Calls, NEW k, Arrive(b, k) PROVE call'[c] = call[c]
    BY <1>1, ArriveBecomes DEF Becomes
  <1>2. ASSUME NEW b \in Calls, Step(b), b # c PROVE call'[c] = call[c]
    BY <1>2, StepBecomes DEF Becomes
  <1>3. ASSUME NEW b \in Calls, RefuseUpload(b) PROVE call'[c] = call[c]
    BY <1>1, <1>3 DEF RefuseUpload
  <1>4. ASSUME NEW b \in Calls, NEW t, NEW v, NEW name, BeginUpload(b, t, v, name)
        PROVE  call'[c] = call[c]
    <2>1. PICK k : k = OfDocument("findKey", t, DocumentRow(calls + 1, t, v.id, name))
      OBVIOUS
    <2>2. Arrive(b, k)
      BY <1>4, <2>1 DEF BeginUpload
    <2>. QED  BY <1>1, <2>2
  <1>5. ASSUME NEW b \in Calls, NEW t, NEW id, BeginDownload(b, t, id) \/ BeginRemove(b, t, id)
        PROVE  call'[c] = call[c]
    BY <1>1, <1>5 DEF BeginDownload, BeginRemove
  <1>6. ASSUME NEW b \in Calls, NEW t, NEW slug, BeginCreateVault(b, t, slug)
        PROVE  call'[c] = call[c]
    BY <1>1, <1>6 DEF BeginCreateVault
  <1>7. ASSUME NEW b \in Calls, NEW t, NEW v, BeginRemoveVault(b, t, v)
        PROVE  call'[c] = call[c]
    BY <1>1, <1>7 DEF BeginRemoveVault
  <1>8. CASE UNCHANGED vars
    BY <1>8 DEF vars
  <1>. QED  BY <1>2, <1>3, <1>4, <1>5, <1>6, <1>7, <1>8 DEF Next

\* An upload goes on, or its file is gone, or is counted as left behind.
LEMMA UploadsKeepFiles ==
  ASSUME TypeOK, [Next]_vars, NEW c \in Calls, call[c].pc \in Uploading
  PROVE  \/ call'[c].pc \in Uploading /\ call'[c].row = call[c].row
         \/ call[c].row.id \notin tempFiles' \ spilled'
  <1>. DEFINE GoesOnUploading == call'[c].pc \in Uploading /\ call'[c].row = call[c].row
              FileGone == call[c].row.id \notin tempFiles' \ spilled'
  <1>1. ASSUME NEW pc \in Uploading, Goto(c, pc) PROVE GoesOnUploading
    <2>1. Becomes(c, At(call[c], pc))
      BY <1>1, GotoBecomes
    <2>. QED  BY <1>1, <2>1 DEF Becomes, At, CallAt
  <1>2. ASSUME End(c) PROVE FileGone
    BY <1>2 DEF End
  <1>3. ASSUME Crash(c) PROVE FileGone
    BY <1>3 DEF Crash
  <1>4. ASSUME FindTenantKey(c) PROVE GoesOnUploading
    BY <1>4, KeyFound DEF Becomes, Uploading
  <1>5. ASSUME Step(c) PROVE GoesOnUploading \/ FileGone
    <2>1. SaveTenantKey(c) => Goto(c, "put") \/ End(c)
      BY DEF SaveTenantKey
    <2>2. PutObject(c) => Goto(c, "saveDocument")
      BY DEF PutObject
    <2>3. SaveDocument(c) => Goto(c, "unlink") \/ End(c)
      BY DEF SaveDocument
    <2>4. Answer(c) => End(c)
      BY DEF Answer
    <2>5. \/ FindTenantKey(c) \/ SaveTenantKey(c) \/ PutObject(c) \/ SaveDocument(c)
          \/ Answer(c) \/ Crash(c)
      BY <1>5
      DEF Step, GetStream, DeleteObject, DeleteRow, CountVaults, FindSlug, InsertVault,
          CountDocuments, DeleteVault, Uploading
    <2>6. "put" \in Uploading /\ "saveDocument" \in Uploading /\ "unlink" \in Uploading
      BY DEF Uploading
    <2>. HIDE DEF GoesOnUploading, FileGone
    <2>. QED  BY <1>1, <1>2, <1>3, <1>4, <2>1, <2>2, <2>3, <2>4, <2>5, <2>6
  <1>6. call[c].pc # "idle"
    BY DEF Uploading
  <1>. QED  BY <1>5, <1>6, OthersStay

\* New files are a new upload's, or are counted as left behind at once.
LEMMA NewFiles ==
  ASSUME TypeOK, [Next]_vars, NEW f \in tempFiles' \ tempFiles
  PROVE  f \in spilled' \/ \E c \in Calls : call'[c].pc \in Uploading /\ call'[c].row.id = f
  <1>1. ASSUME NEW c \in Calls, Step(c) PROVE tempFiles' \subseteq tempFiles
    BY <1>1
    DEF Step, FindTenantKey, SaveTenantKey, PutObject, SaveDocument, GetStream, DeleteObject,
        DeleteRow, CountVaults, FindSlug, InsertVault, CountDocuments, DeleteVault, Answer,
        Crash, End
  <1>2. ASSUME NEW c \in Calls, NEW t \in Tenants, NEW v \in vaults, NEW name \in StoredNames,
               BeginUpload(c, t, v, name)
        PROVE  call'[c].pc \in Uploading /\ call'[c].row.id = f
    <2>1. Arrive(c, OfDocument("findKey", t, DocumentRow(calls + 1, t, v.id, name)))
      BY <1>2 DEF BeginUpload
    <2>2. f = calls + 1
      BY <1>2, <2>1 DEF BeginUpload, Arrive
    <2>3. call'[c] = OfDocument("findKey", t, DocumentRow(calls + 1, t, v.id, name))
      BY <2>1, ArriveBecomes DEF Becomes
    <2>. QED  BY <2>2, <2>3 DEF OfDocument, DocumentRow, CallAt, Uploading
  <1>. QED
    BY <1>1, <1>2
    DEF Next, vars, RefuseUpload, BeginDownload, BeginRemove, BeginCreateVault, BeginRemoveVault

LEMMA SpilledGrows ==
  ASSUME [Next]_vars
  PROVE  spilled \subseteq spilled'
  <1>1. ASSUME NEW c \in Calls, Step(c) PROVE spilled \subseteq spilled'
    <2>1. CASE End(c)
      BY <2>1 DEF End
    <2>. QED
      BY <1>1, <2>1
      DEF Step, FindTenantKey, SaveTenantKey, PutObject, SaveDocument, GetStream, DeleteObject,
          DeleteRow, CountVaults, FindSlug, InsertVault, CountDocuments, DeleteVault, Answer,
          Crash, history
  <1>. QED
    BY <1>1
    DEF Next, vars, RefuseUpload, BeginUpload, BeginDownload, BeginRemove, BeginCreateVault,
        BeginRemoveVault, history

\* A temporary file belongs to an upload in progress, or was left by a crash, by a
\* refusal before the handler's `try`, or by an unlink that failed unnoticed.
THEOREM TempFilesAccountedCorrect == Spec => []TempFilesAccounted
  <1>1. Init => TempFilesAccounted
    BY DEF Init, TempFilesAccounted
  <1>2. TypeOK /\ TempFilesAccounted /\ [Next]_vars => TempFilesAccounted'
    <2>. SUFFICES ASSUME TypeOK, TempFilesAccounted, [Next]_vars, NEW f \in tempFiles' \ spilled'
                  PROVE  \E c \in Calls : call'[c].pc \in Uploading /\ call'[c].row.id = f
      BY DEF TempFilesAccounted
    <2>1. CASE f \in tempFiles
      <3>1. f \in tempFiles \ spilled
        BY <2>1, SpilledGrows
      <3>2. PICK c \in Calls : call[c].pc \in Uploading /\ call[c].row.id = f
        BY <3>1 DEF TempFilesAccounted
      <3>. QED  BY <3>2, UploadsKeepFiles
    <2>2. CASE f \notin tempFiles
      BY <2>2, NewFiles
    <2>. QED  BY <2>1, <2>2
  <1>. QED  BY <1>1, <1>2, TypeCorrect, PTL DEF Spec

-----------------------------------------------------------------------------
(***************************************************************************)
(* The plan's limit on vaults.                                             *)
(***************************************************************************)

\* The creations of a tenant that have passed the count.
Counted(t) == {c \in Calls : call[c].pc \in {"findSlug", "insert"} /\ call[c].tenant = t}

\* A tenant's vaults, and the vaults its creations may still insert.
LimitInv ==
    /\ IsFiniteSet(vaults)
    /\ \A t \in Limited :
           Cardinality(VaultsOf(t)) + Cardinality(Counted(t)) < MaxVaults + Cardinality(Calls)

LEMMA CountedFinite ==
  ASSUME NEW t
  PROVE  /\ IsFiniteSet(Counted(t)) /\ Cardinality(Counted(t)) \in Nat
         /\ Cardinality(Counted(t)) <= Cardinality(Calls)
         /\ Cardinality(Calls) \in Nat
  <1>1. Counted(t) \subseteq Calls /\ IsFiniteSet(Calls)
    BY StoreBoundsAssumption DEF Counted
  <1>. QED  BY <1>1, FS_Subset, FS_CardinalityType

LEMMA VaultsFinite ==
  ASSUME IsFiniteSet(vaults), NEW t
  PROVE  IsFiniteSet(VaultsOf(t)) /\ Cardinality(VaultsOf(t)) \in Nat
  <1>1. VaultsOf(t) \subseteq vaults
    BY DEF VaultsOf
  <1>. QED  BY <1>1, FS_Subset, FS_CardinalityType

LEMMA LimitInit == Init => LimitInv
  <1>. SUFFICES ASSUME Init PROVE LimitInv
    OBVIOUS
  <1>1. IsFiniteSet(vaults)
    BY InitialVaultsAssumption DEF Init
  <1>2. ASSUME NEW t \in Limited
        PROVE  Cardinality(VaultsOf(t)) + Cardinality(Counted(t)) < MaxVaults + Cardinality(Calls)
    <2>1. Counted(t) = {}
      BY DEF Init, Counted, IdleCall, CallAt
    <2>2. Cardinality(Counted(t)) = 0
      BY <2>1, FS_EmptySet
    <2>3. Cardinality(VaultsOf(t)) <= MaxVaults
      BY InitialVaultsAssumption DEF Init, VaultsOf
    <2>4. Cardinality(Calls) \in Nat /\ Cardinality(Calls) # 0
      BY StoreBoundsAssumption, FS_EmptySet, FS_CardinalityType
    <2>5. MaxVaults \in Nat /\ Cardinality(VaultsOf(t)) \in Nat
      BY <1>1, VaultsFinite, StoreBoundsAssumption
    <2>. QED  BY <2>2, <2>3, <2>4, <2>5
  <1>. QED  BY <1>1, <1>2 DEF LimitInv

\* Fewer vaults, and no more creations past the count.
LEMMA LimitKept ==
  ASSUME LimitInv, NEW t \in Limited, vaults' \subseteq vaults, Counted(t)' \subseteq Counted(t)
  PROVE  (Cardinality(VaultsOf(t)) + Cardinality(Counted(t)) < MaxVaults + Cardinality(Calls))'
  <1>1. VaultsOf(t)' \subseteq VaultsOf(t)
    BY DEF VaultsOf
  <1>2. IsFiniteSet(VaultsOf(t)) /\ Cardinality(VaultsOf(t)) \in Nat
    BY VaultsFinite DEF LimitInv
  <1>3. Cardinality(VaultsOf(t)') <= Cardinality(VaultsOf(t)) /\ Cardinality(VaultsOf(t)') \in Nat
    BY <1>1, <1>2, FS_Subset, FS_CardinalityType
  <1>4. Cardinality(Counted(t)') <= Cardinality(Counted(t)) /\ Cardinality(Counted(t)') \in Nat
    BY CountedFinite, FS_Subset, FS_CardinalityType
  <1>5. Cardinality(VaultsOf(t)) + Cardinality(Counted(t)) < MaxVaults + Cardinality(Calls)
        /\ MaxVaults \in Nat /\ Cardinality(Calls) \in Nat /\ Cardinality(Counted(t)) \in Nat
    BY CountedFinite, StoreBoundsAssumption DEF LimitInv
  <1>. QED  BY <1>2, <1>3, <1>4, <1>5

LEMMA LimitInductive == TypeOK /\ LimitInv /\ [Next]_vars => LimitInv'
  <1>. SUFFICES ASSUME TypeOK, LimitInv, [Next]_vars PROVE LimitInv'
    OBVIOUS
  <1>1. IsFiniteSet(vaults')
    <2>1. vaults' \subseteq vaults \/ \E v : vaults' = vaults \union {v}
      BY VaultCases
      DEF VaultCase, GoesOn, BeginsUpload, BeginUpload, BeginsCreateVault, BeginsRemoveVault,
          InsertsVault, vars
    <2>. QED  BY <2>1, FS_Subset, FS_AddElement DEF LimitInv
  <1>2. ASSUME NEW t \in Limited
        PROVE  (Cardinality(VaultsOf(t)) + Cardinality(Counted(t))
                  < MaxVaults + Cardinality(Calls))'
    <2>1. CASE UNCHANGED vars
      BY <2>1, LimitKept DEF vars, Counted
    <2>2. ASSUME NEW c \in Calls, NEW k, Becomes(c, k), vaults' \subseteq vaults,
                 k.pc \in {"findSlug", "insert"} /\ k.tenant = t =>
                    call[c].pc \in {"findSlug", "insert"} /\ call[c].tenant = t
          PROVE  (Cardinality(VaultsOf(t)) + Cardinality(Counted(t))
                    < MaxVaults + Cardinality(Calls))'
      <3>1. Counted(t)' \subseteq Counted(t)
        BY <2>2 DEF Counted, Becomes
      <3>. QED  BY <2>2, <3>1, LimitKept
    <2>3. ASSUME NEW c \in Calls, CountVaults(c), call[c].tenant = t
          PROVE  (Cardinality(VaultsOf(t)) + Cardinality(Counted(t))
                    < MaxVaults + Cardinality(Calls))'
      <3>1. Cardinality(VaultsOf(t)) < MaxVaults /\ VaultsOf(t)' = VaultsOf(t)
        BY <2>3 DEF CountVaults, BelowLimit, VaultsOf
      <3>2. /\ Cardinality(Counted(t)') \in Nat
            /\ Cardinality(Counted(t)') <= Cardinality(Calls) /\ Cardinality(Calls) \in Nat
        <4>1. Counted(t)' \subseteq Calls /\ IsFiniteSet(Calls)
          BY StoreBoundsAssumption DEF Counted
        <4>. QED  BY <4>1, FS_Subset, FS_CardinalityType
      <3>3. Cardinality(VaultsOf(t)) \in Nat /\ MaxVaults \in Nat
        BY VaultsFinite, StoreBoundsAssumption DEF LimitInv
      <3>. QED  BY <3>1, <3>2, <3>3
    <2>4. ASSUME NEW c \in Calls, GoesOn(c)
          PROVE  (Cardinality(VaultsOf(t)) + Cardinality(Counted(t))
                    < MaxVaults + Cardinality(Calls))'
      <3>1. PICK k : /\ Becomes(c, k)
                     /\ k.pc \in Creating => call[c].pc \in Creating /\ k.tenant = call[c].tenant
                     /\ k.pc \in {"findSlug", "insert"} =>
                          call[c].pc \in {"findSlug", "insert"} \/ CountVaults(c)
                     /\ vaults' \subseteq vaults
        BY <2>4 DEF GoesOn
      <3>2. CASE CountVaults(c) /\ call[c].tenant = t
        BY <2>3, <3>2
      <3>3. CASE ~ (CountVaults(c) /\ call[c].tenant = t)
        BY <2>2, <3>1, <3>3 DEF Creating
      <3>. QED  BY <3>2, <3>3
    <2>5. ASSUME NEW c \in Calls, BeginsUpload(c) \/ BeginsCreateVault(c) \/ BeginsRemoveVault(c)
          PROVE  (Cardinality(VaultsOf(t)) + Cardinality(Counted(t))
                    < MaxVaults + Cardinality(Calls))'
      <3>1. vaults' = vaults
        BY <2>5 DEF BeginsUpload, BeginUpload, BeginsCreateVault, BeginsRemoveVault
      <3>2. CASE BeginsUpload(c)
        <4>1. PICK u \in Tenants, v \in vaults, name \in StoredNames :
                Becomes(c, OfDocument("findKey", u, DocumentRow(calls + 1, u, v.id, name)))
          BY <3>2 DEF BeginsUpload
        <4>. QED  BY <2>2, <3>1, <4>1 DEF OfDocument, CallAt
      <3>3. CASE BeginsCreateVault(c)
        <4>1. PICK u \in Tenants, pc \in {"count", "findSlug"}, slug \in Slugs :
                /\ u \in Limited => pc = "count"
                /\ Becomes(c, OfVault(pc, u, VaultRow(<<u, calls + 1>>, u, slug, FALSE), {}))
          BY <3>3 DEF BeginsCreateVault
        <4>. QED  BY <2>2, <3>1, <4>1 DEF OfVault, CallAt
      <3>4. CASE BeginsRemoveVault(c)
        <4>1. PICK u \in Tenants, v \in vaults :
                Becomes(c, OfVault("countDocuments", u, v, {d.id : d \in DocumentsIn(u, v.id)}))
          BY <3>4 DEF BeginsRemoveVault
        <4>. QED  BY <2>2, <3>1, <4>1 DEF OfVault, CallAt
      <3>. QED  BY <2>5, <3>2, <3>3, <3>4
    <2>6. ASSUME NEW c \in Calls, InsertsVault(c)
          PROVE  (Cardinality(VaultsOf(t)) + Cardinality(Counted(t))
                    < MaxVaults + Cardinality(Calls))'
      <3>. DEFINE v == call[c].vault
      <3>1. /\ call[c].pc = "insert" /\ vaults' = vaults \union {v} /\ Becomes(c, IdleCall)
            /\ v.tenant = call[c].tenant
        BY <2>6, CarriedType DEF InsertsVault, Creating
      <3>2. call'[c].pc = "idle"
        BY <3>1 DEF Becomes, IdleCall, CallAt
      <3>3. Counted(t)' \subseteq Counted(t) \ {c}
        BY <3>1, <3>2 DEF Counted, Becomes
      <3>4. /\ IsFiniteSet(Counted(t)) /\ Cardinality(Counted(t)) \in Nat
            /\ Cardinality(Calls) \in Nat
            /\ IsFiniteSet(VaultsOf(t)) /\ Cardinality(VaultsOf(t)) \in Nat /\ MaxVaults \in Nat
        BY CountedFinite, VaultsFinite, StoreBoundsAssumption DEF LimitInv
      <3>5. Cardinality(VaultsOf(t)) + Cardinality(Counted(t)) < MaxVaults + Cardinality(Calls)
        BY DEF LimitInv
      <3>6. CASE call[c].tenant = t
        <4>1. c \in Counted(t)
          BY <3>1, <3>6 DEF Counted
        <4>2. /\ Cardinality(Counted(t) \ {c}) = Cardinality(Counted(t)) - 1
              /\ IsFiniteSet(Counted(t) \ {c})
          BY <3>4, <4>1, FS_RemoveElement
        <4>3. Cardinality(Counted(t)') <= Cardinality(Counted(t)) - 1
              /\ Cardinality(Counted(t)') \in Nat
          BY <3>3, <4>2, FS_Subset, FS_CardinalityType
        <4>4. VaultsOf(t)' = VaultsOf(t) \union {v}
          BY <3>1, <3>6 DEF VaultsOf
        <4>5. Cardinality(VaultsOf(t)') <= Cardinality(VaultsOf(t)) + 1
              /\ Cardinality(VaultsOf(t)') \in Nat
          <5>1. /\ IsFiniteSet(VaultsOf(t) \union {v})
                /\ Cardinality(VaultsOf(t) \union {v}) =
                       IF v \in VaultsOf(t) THEN Cardinality(VaultsOf(t))
                       ELSE Cardinality(VaultsOf(t)) + 1
            BY <3>4, FS_AddElement
          <5>2. CASE v \in VaultsOf(t)
            <6>. QED  BY <3>4, <4>4, <5>1, <5>2
          <5>3. CASE v \notin VaultsOf(t)
            <6>. QED  BY <3>4, <4>4, <5>1, <5>3
          <5>. QED  BY <5>2, <5>3
        <4>. QED  BY <3>4, <3>5, <4>3, <4>5
      <3>7. CASE call[c].tenant # t
        <4>1. VaultsOf(t)' = VaultsOf(t)
          BY <3>1, <3>7 DEF VaultsOf
        <4>2. Cardinality(Counted(t)') <= Cardinality(Counted(t))
              /\ Cardinality(Counted(t)') \in Nat
          BY <3>3, <3>4, FS_Subset, FS_CardinalityType
        <4>. QED  BY <3>4, <3>5, <4>1, <4>2
      <3>. QED  BY <3>6, <3>7
    <2>. QED  BY <2>1, <2>4, <2>5, <2>6, VaultCases DEF VaultCase
  <1>. QED  BY <1>1, <1>2 DEF LimitInv

\* Concurrent creations pass the plan's limit by at most one vault for each further call
\* in progress.
THEOREM LimitOverrunBoundedCorrect == Spec => []LimitOverrunBounded
  <1>1. LimitInv => LimitOverrunBounded
    <2>. SUFFICES ASSUME LimitInv, NEW t \in Limited
                  PROVE  Cardinality(VaultsOf(t)) < MaxVaults + Cardinality(Calls)
      BY DEF LimitOverrunBounded
    <2>1. /\ Cardinality(VaultsOf(t)) \in Nat /\ Cardinality(Counted(t)) \in Nat
          /\ Cardinality(Calls) \in Nat /\ MaxVaults \in Nat
      BY VaultsFinite, CountedFinite, StoreBoundsAssumption DEF LimitInv
    <2>2. Cardinality(VaultsOf(t)) + Cardinality(Counted(t)) < MaxVaults + Cardinality(Calls)
      BY DEF LimitInv
    <2>. QED  BY <2>1, <2>2
  <1>. QED  BY <1>1, LimitInit, LimitInductive, TypeCorrect, PTL DEF Spec
=============================================================================
