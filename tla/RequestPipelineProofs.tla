---------------------- MODULE RequestPipelineProofs ----------------------
(***************************************************************************)
(* Theorems about RequestPipeline for every set of requests, deliveries    *)
(* and instances, every clock skew and delay: no replay, no unauthorised   *)
(* execution, and the audit rows of a request.                             *)
(***************************************************************************)
EXTENDS RequestPipeline, TLAPS

\* The steps that neither verify a request nor record its nonce as new.
LaterStep(d) ==
  \/ RejectReplay(d) \/ NonceFails(d)
  \/ CheckMembership(d) \/ DirectoryFails(d) \/ AuditDenied(d)
  \/ HandlerReturns(d) \/ HandlerThrows(d) \/ StreamBegins(d) \/ StreamFails(d)
  \/ AuditSuccess(d) \/ AuditFailure(d) \/ Crash(d)

\* The steps, by what they change.
LEMMA NextCases ==
  Next => \/ Tick
          \/ \E d \in Deliveries, r \in Requests, i \in Instances : Deliver(d, r, i)
          \/ \E d \in Deliveries : RecordNonce(d) \/ LaterStep(d)
          \/ \E i \in Instances : PruneExpired(i)
          \/ \E u \in Users, role \in LaterRoles : ChangeMembership(u, role)
  BY DEF Next, Guarded, Handled, LaterStep

-----------------------------------------------------------------------------
(***************************************************************************)
(* Types.                                                                  *)
(***************************************************************************)

\* The initial state is well typed.
LEMMA InitType == Init => TypeOK
  BY TimesAssumption, UsersAssumption
  DEF Init, TypeOK, IdleDelivery, DeliverySet, PCs, BehindGuard

\* What a delivery becomes in a step that leaves the others alone.
LEMMA DeliveryType ==
  ASSUME TypeOK, NEW d \in Deliveries, NEW e \in DeliverySet,
         delivery' = [delivery EXCEPT ![d] = e],
         UNCHANGED <<now, directory, changes>>,
         nonces' \subseteq [key : {ReplayKey(r) : r \in Requests}, expiresAt : Int],
         e.pc # "idle" => e.req \in Requests,
         BehindGuard(e) => e.accepted
  PROVE  TypeOK'
  BY DEF TypeOK

\* The rows a delivery can add to the table of nonces.
LEMMA NonceRowType ==
  ASSUME TypeOK, NEW d \in Deliveries, delivery[d].pc # "idle"
  PROVE  NonceRow(d) \in [key : {ReplayKey(r) : r \in Requests}, expiresAt : Int]
  <1>1. delivery[d] \in DeliverySet /\ delivery[d].req \in Requests
    BY DEF TypeOK
  <1>2. ExpiresAt(d) \in Int
    BY <1>1, TimesAssumption DEF ExpiresAt, DeliverySet
  <1>. QED  BY <1>1, <1>2 DEF NonceRow

\* A verified request is a delivery.
LEMMA ArrivedType ==
  ASSUME TypeOK, NEW r \in Requests, NEW i \in Instances
  PROVE  /\ Arrived(r, i) \in DeliverySet
         /\ Arrived(r, i).pc = "record" /\ Arrived(r, i).req = r
         /\ Arrived(r, i).checkedAt = now /\ Arrived(r, i).clock = now + Skew[i]
         /\ Arrived(r, i).accepted = FALSE /\ Arrived(r, i).handler = "none"
         /\ Arrived(r, i).rows = {} /\ Arrived(r, i).answer = "none"
         /\ Arrived(r, i).seen = {directory[r.user]}
         /\ now \in Int /\ Skew[i] \in Int
  <1>1. Clock(i) \in Int /\ now \in Nat /\ Skew[i] \in Int
    BY ClocksAssumption, TimesAssumption DEF TypeOK, Clock
  <1>2. directory[r.user] \in Roles \union {NoMember}
    BY UsersAssumption DEF TypeOK
  <1>3. Arrived(r, i) \in DeliverySet
    BY <1>1, <1>2 DEF Arrived, IdleDelivery, DeliverySet, PCs
  <1>4. Clock(i) = now + Skew[i]
    BY DEF Clock
  <1>. QED  BY <1>1, <1>3, <1>4 DEF Arrived, IdleDelivery

\* A delivery whose nonce is accepted.
Accepted(e) ==
  [e EXCEPT !.pc = IF AfterNonce(e.req) = "refused" THEN "done" ELSE AfterNonce(e.req),
            !.answer = IF AfterNonce(e.req) = "refused" THEN "error" ELSE "none",
            !.checkedAt = 0, !.accepted = TRUE]

\* It keeps its request and is behind the guard.
LEMMA AcceptedType ==
  ASSUME NEW e \in DeliverySet
  PROVE  /\ Accepted(e) \in DeliverySet
         /\ Accepted(e).pc \in {"done", "handle", "member"}
         /\ Accepted(e).pc = IF AfterNonce(e.req) = "refused" THEN "done" ELSE AfterNonce(e.req)
         /\ Accepted(e).answer = IF AfterNonce(e.req) = "refused" THEN "error" ELSE "none"
         /\ Accepted(e).accepted = TRUE
         /\ Accepted(e).req = e.req /\ Accepted(e).clock = e.clock /\ Accepted(e).seen = e.seen
         /\ Accepted(e).handler = e.handler /\ Accepted(e).rows = e.rows
         /\ Accepted(e).faulty = e.faulty
  <1>1. AfterNonce(e.req) \in {"refused", "handle", "member"}
    BY DEF AfterNonce
  <1>. QED  BY <1>1 DEF Accepted, DeliverySet, PCs

\* What a delivery keeps in a later step.
Kept(e, f) ==
  /\ f \in DeliverySet
  /\ f.req = e.req /\ f.accepted = e.accepted /\ f.clock = e.clock /\ f.seen = e.seen
  /\ \/ f.pc = e.pc /\ f.checkedAt = e.checkedAt
     \/ e.pc # "idle" /\ f.pc \notin {"idle", "record", "member"}
  /\ BehindGuard(f) => BehindGuard(e)

\* The later steps only let their delivery go on.
LEMMA LaterStepKeeps ==
  ASSUME TypeOK, NEW d \in Deliveries, LaterStep(d)
  PROVE  \E new : Kept(delivery[d], new) /\ delivery' = [delivery EXCEPT ![d] = new]
  <1>. DEFINE e == delivery[d]
  <1>1. e \in DeliverySet
    BY DEF TypeOK
  <1>2. CASE CheckMembership(d)
    BY <1>1, <1>2 DEF CheckMembership, Finish, Goto, Become, Kept, DeliverySet, PCs, BehindGuard
  <1>3. CASE DirectoryFails(d)
    BY <1>1, <1>3 DEF DirectoryFails, FinishFaulty, Become, Kept, DeliverySet, PCs, BehindGuard
  <1>4. CASE AuditDenied(d)
    BY <1>1, <1>4 DEF AuditDenied, AppendRow, AppendFails, Become, Kept, DeliverySet, PCs, BehindGuard
  <1>5. CASE HandlerReturns(d) \/ HandlerThrows(d)
    BY <1>1, <1>5 DEF HandlerReturns, HandlerThrows, Become, Kept, DeliverySet, PCs, BehindGuard
  <1>6. CASE StreamBegins(d) \/ StreamFails(d)
    BY <1>1, <1>6 DEF StreamBegins, StreamFails, Become, Kept, DeliverySet, PCs, BehindGuard
  <1>7. CASE AuditSuccess(d)
    BY <1>1, <1>7 DEF AuditSuccess, AppendRow, AppendFails, Become, Kept, DeliverySet, PCs, BehindGuard
  <1>8. CASE AuditFailure(d)
    BY <1>1, <1>8 DEF AuditFailure, AppendRow, AppendFails, Become, Kept, DeliverySet, PCs, BehindGuard
  <1>9. CASE Crash(d)
    BY <1>1, <1>9 DEF Crash, InProgress, FinishFaulty, Become, Kept, DeliverySet, PCs, BehindGuard
  <1>10. CASE RejectReplay(d)
    BY <1>1, <1>10 DEF RejectReplay, Finish, Become, Kept, DeliverySet, PCs, BehindGuard
  <1>11. CASE NonceFails(d)
    BY <1>1, <1>11 DEF NonceFails, FinishFaulty, Become, Kept, DeliverySet, PCs, BehindGuard
  <1>. QED
    BY <1>2, <1>3, <1>4, <1>5, <1>6, <1>7, <1>8, <1>9, <1>10, <1>11 DEF LaterStep

\* What they leave alone besides.
LEMMA LaterStepFrame ==
  ASSUME TypeOK, NEW d \in Deliveries, LaterStep(d)
  PROVE  /\ UNCHANGED <<now, directory, changes>>
         /\ nonces \subseteq nonces'
         /\ nonces' \subseteq [key : {ReplayKey(r) : r \in Requests}, expiresAt : Int]
  <1>1. UNCHANGED <<now, directory, changes>>
    BY DEF LaterStep, RejectReplay, NonceFails, CheckMembership, DirectoryFails, AuditDenied,
           HandlerReturns, HandlerThrows, StreamBegins, StreamFails, AuditSuccess,
           AuditFailure, Crash
  <1>2. CASE NonceFails(d)
    BY <1>1, <1>2, NonceRowType DEF NonceFails, TypeOK
  <1>3. CASE ~ NonceFails(d)
    <2>1. UNCHANGED nonces
      BY <1>3 DEF LaterStep, RejectReplay, CheckMembership, DirectoryFails, AuditDenied,
                  HandlerReturns, HandlerThrows, StreamBegins, StreamFails, AuditSuccess,
           AuditFailure, Crash
    <2>. QED  BY <1>1, <2>1 DEF TypeOK
  <1>. QED  BY <1>2, <1>3

\* Every step keeps the types.
LEMMA NextType ==
  ASSUME TypeOK, [Next]_vars
  PROVE  TypeOK'
  <1>1. CASE Tick
    BY <1>1, TimesAssumption DEF Tick, TypeOK
  <1>2. CASE \E d \in Deliveries, r \in Requests, i \in Instances : Deliver(d, r, i)
    <2>. PICK d \in Deliveries, r \in Requests, i \in Instances : Deliver(d, r, i)
      BY <1>2
    <2>1. /\ ~ BehindGuard(Arrived(r, i))
          /\ Arrived(r, i) \in DeliverySet /\ Arrived(r, i).req = r
      BY ArrivedType DEF BehindGuard
    <2>2. /\ delivery' = [delivery EXCEPT ![d] = Arrived(r, i)]
          /\ UNCHANGED <<now, directory, changes>>
          /\ nonces' \subseteq [key : {ReplayKey(q) : q \in Requests}, expiresAt : Int]
      BY DEF Deliver, Become, TypeOK
    <2>. QED  BY <2>1, <2>2, DeliveryType
  <1>3. CASE \E d \in Deliveries : RecordNonce(d)
    <2>. PICK d \in Deliveries : RecordNonce(d)
      BY <1>3
    <2>1. delivery[d] \in DeliverySet /\ delivery[d].pc = "record" /\ delivery[d].req \in Requests
      BY DEF TypeOK, RecordNonce
    <2>2. nonces' \subseteq [key : {ReplayKey(r) : r \in Requests}, expiresAt : Int]
      BY <2>1, NonceRowType DEF RecordNonce, TypeOK
    <2>3. delivery' = [delivery EXCEPT ![d] = Accepted(delivery[d])]
      BY DEF RecordNonce, Become, Accepted
    <2>. QED  BY <2>1, <2>2, <2>3, AcceptedType, DeliveryType DEF RecordNonce
  <1>4. CASE \E d \in Deliveries : LaterStep(d)
    <2>. PICK d \in Deliveries : LaterStep(d)
      BY <1>4
    <2>1. PICK new : Kept(delivery[d], new) /\ delivery' = [delivery EXCEPT ![d] = new]
      BY LaterStepKeeps
    <2>2. /\ new.pc # "idle" => new.req \in Requests
          /\ BehindGuard(new) => new.accepted
      BY <2>1 DEF Kept, TypeOK
    <2>. QED  BY <2>1, <2>2, LaterStepFrame, DeliveryType DEF Kept
  <1>5. CASE \E i \in Instances : PruneExpired(i)
    BY <1>5 DEF PruneExpired, TypeOK
  <1>6. CASE \E u \in Users, role \in LaterRoles : ChangeMembership(u, role)
    <2>. PICK u \in Users, role \in LaterRoles : ChangeMembership(u, role)
      BY <1>6
    <2>1. role \in Roles \union {NoMember} /\ changes + 1 \in 0 .. MaxChanges
      BY UsersAssumption, TimesAssumption DEF TypeOK, ChangeMembership
    <2>2. \A d \in Deliveries :
            /\ delivery'[d] \in DeliverySet
            /\ delivery'[d].pc = delivery[d].pc /\ delivery'[d].req = delivery[d].req
            /\ delivery'[d].accepted = delivery[d].accepted
            /\ delivery'[d].handler = delivery[d].handler
      BY <2>1 DEF ChangeMembership, TypeOK, DeliverySet
    <2>3. delivery' \in [Deliveries -> DeliverySet]
      BY <2>2 DEF ChangeMembership
    <2>4. directory' \in [Users -> Roles \union {NoMember}]
      BY <2>1 DEF ChangeMembership, TypeOK
    <2>. QED  BY <2>1, <2>2, <2>3, <2>4 DEF ChangeMembership, TypeOK, BehindGuard
  <1>7. CASE UNCHANGED vars
    BY <1>7 DEF vars, TypeOK
  <1>. QED  BY <1>1, <1>2, <1>3, <1>4, <1>5, <1>6, <1>7, NextCases

\* The variables have their types, and nothing behind JwtAuthGuard is reached without a
\* nonce that was new.
THEOREM TypeCorrect == Spec => []TypeOK
  <1>1. TypeOK /\ [Next]_vars => TypeOK'
    BY NextType
  <1>. QED  BY <1>1, InitType, PTL DEF Spec

-----------------------------------------------------------------------------
(***************************************************************************)
(* Replays.                                                                *)
(***************************************************************************)

\* A pending INSERT is at most MaxDelay old, and the clock is that of an instance.
PendingOK(e) ==
  e.pc = "record" =>
    /\ now - e.checkedAt <= MaxDelay
    /\ \E j \in Instances : e.clock = e.checkedAt + Skew[j]

\* The timestamp was in the window.
WindowOK(e) == e.pc # "idle" => e.clock - e.req.ts <= MaxSkewMs

\* The nonce of an accepted delivery is in the table, or some instance's clock is past it.
Remembered(e) ==
  e.accepted =>
    \/ \E n \in nonces : n.key = ReplayKey(e.req) /\ n.expiresAt = e.clock + MaxSkewMs
    \/ \E i \in Instances : now + Skew[i] > e.clock + MaxSkewMs

\* What AcceptedOnce rests on.
ReplayInv ==
  \A d \in Deliveries : PendingOK(delivery[d]) /\ WindowOK(delivery[d]) /\ Remembered(delivery[d])

\* A request accepted again was fresh when it was accepted before.
LEMMA LateAcceptance ==
  ASSUME TypeOK, ReplayInv, NEW d \in Deliveries, NEW e \in Deliveries,
         RecordNonce(d), delivery[e].accepted, delivery[e].req = delivery[d].req
  PROVE  delivery[e].clock - delivery[e].req.ts < MaxDelay + Spread
  <1>. DEFINE ts == delivery[d].req.ts
  <1>1. /\ delivery[d].clock \in Int /\ delivery[e].clock \in Int
        /\ delivery[d].checkedAt \in Int
        /\ now \in Int /\ ts \in Int
        /\ MaxSkewMs \in Int /\ MaxDelay \in Int /\ Spread \in Int
    BY TimesAssumption DEF TypeOK, DeliverySet, RecordNonce
  <1>2. PICK i \in Instances : now + Skew[i] > delivery[e].clock + MaxSkewMs
    <2>1. ~ \E n \in nonces : n.key = ReplayKey(delivery[e].req)
      BY DEF RecordNonce, Recorded, NonceRow
    <2>. QED  BY <2>1 DEF ReplayInv, Remembered
  <1>3. PICK j \in Instances : delivery[d].clock = delivery[d].checkedAt + Skew[j]
    BY DEF ReplayInv, PendingOK, RecordNonce
  <1>4. now - delivery[d].checkedAt <= MaxDelay /\ delivery[d].clock - ts <= MaxSkewMs
    BY DEF ReplayInv, PendingOK, WindowOK, RecordNonce
  <1>5. Skew[i] \in Int /\ Skew[j] \in Int /\ Skew[i] - Skew[j] <= Spread
    BY ClocksAssumption
  <1>6. delivery[e].clock - ts < MaxDelay + Spread
    BY <1>1, <1>2, <1>3, <1>4, <1>5
  <1>. QED  BY <1>6

\* A step in which time stands still, no nonce is deleted, and every delivery keeps its
\* request, its clock and its acceptance.
Quiet ==
  /\ now' = now
  /\ nonces \subseteq nonces'
  /\ \A d \in Deliveries :
       /\ delivery'[d].req = delivery[d].req /\ delivery'[d].accepted = delivery[d].accepted
       /\ delivery'[d].clock = delivery[d].clock
       /\ \/ delivery'[d].pc = delivery[d].pc /\ delivery'[d].checkedAt = delivery[d].checkedAt
          \/ delivery[d].pc # "idle" /\ delivery'[d].pc \notin {"idle", "record"}

\* Such a step disturbs nothing.
LEMMA QuietKeeps ==
  ASSUME ReplayInv, AcceptedOnce, Quiet
  PROVE  ReplayInv' /\ AcceptedOnce'
  <1>1. ASSUME NEW d \in Deliveries
        PROVE  (PendingOK(delivery[d]) /\ WindowOK(delivery[d]) /\ Remembered(delivery[d]))'
    <2>1. PendingOK(delivery[d]) /\ WindowOK(delivery[d]) /\ Remembered(delivery[d])
      BY DEF ReplayInv
    <2>. QED  BY <2>1 DEF Quiet, PendingOK, WindowOK, Remembered
  <1>2. AcceptedOnce'
    BY DEF AcceptedOnce, Quiet
  <1>. QED  BY <1>1, <1>2 DEF ReplayInv

\* Later steps, changes of memberships and stuttering are quiet.
LEMMA QuietSteps ==
  ASSUME TypeOK,
         \/ \E d \in Deliveries : LaterStep(d)
         \/ \E u \in Users, role \in LaterRoles : ChangeMembership(u, role)
         \/ UNCHANGED vars
  PROVE  Quiet
  <1>1. CASE \E d \in Deliveries : LaterStep(d)
    <2>. PICK d \in Deliveries : LaterStep(d)
      BY <1>1
    <2>1. PICK new : Kept(delivery[d], new) /\ delivery' = [delivery EXCEPT ![d] = new]
      BY LaterStepKeeps
    <2>. QED  BY <2>1, LaterStepFrame DEF Kept, Quiet, TypeOK
  <1>2. CASE \E u \in Users, role \in LaterRoles : ChangeMembership(u, role)
    <2>. PICK u \in Users, role \in LaterRoles : ChangeMembership(u, role)
      BY <1>2
    <2>1. \A d \in Deliveries :
            /\ delivery'[d].req = delivery[d].req /\ delivery'[d].accepted = delivery[d].accepted
            /\ delivery'[d].clock = delivery[d].clock /\ delivery'[d].pc = delivery[d].pc
            /\ delivery'[d].checkedAt = delivery[d].checkedAt
      BY DEF ChangeMembership, TypeOK, DeliverySet
    <2>. QED  BY <2>1 DEF ChangeMembership, Quiet
  <1>3. CASE UNCHANGED vars
    BY <1>3 DEF vars, Quiet
  <1>. QED  BY <1>1, <1>2, <1>3

\* The verification of a request establishes what is assumed of a pending INSERT.
LEMMA DeliverReplay ==
  ASSUME TypeOK, ReplayInv, AcceptedOnce,
         NEW d \in Deliveries, NEW r \in Requests, NEW i \in Instances, Deliver(d, r, i)
  PROVE  ReplayInv' /\ AcceptedOnce'
  <1>. DEFINE new == Arrived(r, i)
  <1>1. /\ delivery' = [delivery EXCEPT ![d] = new]
        /\ now' = now /\ nonces' = nonces
    BY DEF Deliver, Become
  <1>2. /\ new.pc = "record" /\ new.req = r /\ new.checkedAt = now /\ new.accepted = FALSE
        /\ new.clock = now + Skew[i] /\ now \in Int /\ Skew[i] \in Int
    BY ArrivedType
  <1>. HIDE DEF new
  <1>3. /\ delivery'[d] = new
        /\ \A e \in Deliveries \ {d} : delivery'[e] = delivery[e]
    BY <1>1 DEF TypeOK
  <1>4. new.clock - r.ts <= MaxSkewMs
    BY <1>2 DEF Deliver, InWindow, Clock
  <1>5. ASSUME NEW e \in Deliveries
        PROVE  (PendingOK(delivery[e]) /\ WindowOK(delivery[e]) /\ Remembered(delivery[e]))'
    <2>1. CASE e = d
      <3>1. /\ delivery'[e].pc = "record" /\ delivery'[e].req = r
            /\ delivery'[e].checkedAt = now /\ delivery'[e].clock = now + Skew[i]
            /\ ~ delivery'[e].accepted
        BY <1>2, <1>3, <2>1
      <3>2. delivery'[e].clock - delivery'[e].req.ts <= MaxSkewMs
        BY <1>2, <1>3, <1>4, <2>1
      <3>. QED  BY <1>1, <1>2, <3>1, <3>2, TimesAssumption DEF PendingOK, WindowOK, Remembered
    <2>2. CASE e # d
      <3>1. PendingOK(delivery[e]) /\ WindowOK(delivery[e]) /\ Remembered(delivery[e])
        BY DEF ReplayInv
      <3>. QED  BY <1>1, <1>3, <2>2, <3>1 DEF PendingOK, WindowOK, Remembered
    <2>. QED  BY <2>1, <2>2
  <1>6. ReplayInv'
    BY <1>5 DEF ReplayInv
  <1>7. AcceptedOnce'
    BY <1>2, <1>3 DEF AcceptedOnce
  <1>. QED  BY <1>6, <1>7

\* The acceptance of a nonce.
LEMMA RecordReplay ==
  ASSUME TypeOK, ReplayInv, AcceptedOnce, NEW d \in Deliveries, RecordNonce(d)
  PROVE  ReplayInv' /\ AcceptedOnce'
  <1>. DEFINE old == delivery[d]
              new == Accepted(delivery[d])
  <1>1. /\ delivery' = [delivery EXCEPT ![d] = new]
        /\ now' = now /\ nonces' = nonces \union {NonceRow(d)}
    BY DEF RecordNonce, Become, Accepted
  <1>2. /\ new.pc \in {"done", "handle", "member"} /\ new.accepted = TRUE
        /\ new.req = old.req /\ new.clock = old.clock /\ old.pc = "record"
    BY AcceptedType DEF TypeOK, RecordNonce
  <1>3. /\ delivery'[d] = new
        /\ \A e \in Deliveries \ {d} : delivery'[e] = delivery[e]
    BY <1>1 DEF TypeOK
  <1>4. /\ NonceRow(d) \in nonces'
        /\ NonceRow(d).key = ReplayKey(old.req)
        /\ NonceRow(d).expiresAt = old.clock + MaxSkewMs
    BY <1>1 DEF NonceRow, ExpiresAt
  <1>. HIDE DEF new
  <1>5. ASSUME NEW e \in Deliveries
        PROVE  (PendingOK(delivery[e]) /\ WindowOK(delivery[e]) /\ Remembered(delivery[e]))'
    <2>1. PendingOK(delivery[e]) /\ WindowOK(delivery[e]) /\ Remembered(delivery[e])
      BY DEF ReplayInv
    <2>2. CASE e = d
      <3>1. PendingOK(delivery[d])' /\ WindowOK(delivery[d])'
        BY <1>2, <1>3, <2>1, <2>2 DEF PendingOK, WindowOK
      <3>2. Remembered(delivery[d])'
        BY <1>2, <1>3, <1>4 DEF Remembered
      <3>. QED  BY <2>2, <3>1, <3>2
    <2>3. CASE e # d
      BY <1>1, <1>3, <2>1, <2>3 DEF PendingOK, WindowOK, Remembered
    <2>. QED  BY <2>2, <2>3
  <1>6. ASSUME NEW e \in Deliveries \ {d}, delivery[e].accepted, delivery[e].req = old.req
        PROVE  delivery'[e].clock - delivery'[e].req.ts < MaxDelay + Spread
    BY <1>3, <1>6, LateAcceptance
  <1>7. AcceptedOnce'
    <2>. SUFFICES ASSUME NEW e \in Deliveries, NEW f \in Deliveries, e # f,
                         delivery'[e].accepted, delivery'[f].accepted,
                         delivery'[e].req = delivery'[f].req
                  PROVE  \E g \in {e, f} :
                           delivery'[g].clock - delivery'[g].req.ts < MaxDelay + Spread
      BY DEF AcceptedOnce
    <2>1. CASE e = d
      BY <1>2, <1>3, <1>6, <2>1
    <2>2. CASE f = d
      BY <1>2, <1>3, <1>6, <2>2
    <2>3. CASE e # d /\ f # d
      BY <1>3, <2>3 DEF AcceptedOnce
    <2>. QED  BY <2>1, <2>2, <2>3
  <1>. QED  BY <1>5, <1>7 DEF ReplayInv

\* A row is pruned only when the instance's clock is past it.
LEMMA PruneReplay ==
  ASSUME TypeOK, ReplayInv, AcceptedOnce, NEW i \in Instances, PruneExpired(i)
  PROVE  ReplayInv' /\ AcceptedOnce'
  <1>1. /\ now' = now /\ delivery' = delivery
        /\ nonces' = {n \in nonces : n.expiresAt >= now + Skew[i]}
    BY DEF PruneExpired, Clock
  <1>2. now \in Int /\ Skew[i] \in Int /\ \A n \in nonces : n.expiresAt \in Int
    BY TimesAssumption, ClocksAssumption DEF TypeOK
  <1>3. ASSUME NEW d \in Deliveries
        PROVE  Remembered(delivery[d])'
    <2>1. Remembered(delivery[d])
      BY DEF ReplayInv
    <2>2. CASE \E n \in nonces : /\ n.key = ReplayKey(delivery[d].req)
                                 /\ n.expiresAt = delivery[d].clock + MaxSkewMs
      <3>. PICK n \in nonces : /\ n.key = ReplayKey(delivery[d].req)
                               /\ n.expiresAt = delivery[d].clock + MaxSkewMs
        BY <2>2
      <3>1. CASE n \in nonces'
        BY <1>1, <3>1 DEF Remembered
      <3>2. CASE n \notin nonces'
        <4>1. now + Skew[i] > delivery[d].clock + MaxSkewMs
          BY <1>1, <1>2, <3>2
        <4>. QED  BY <1>1, <4>1 DEF Remembered
      <3>. QED  BY <3>1, <3>2
    <2>3. CASE ~ \E n \in nonces : /\ n.key = ReplayKey(delivery[d].req)
                                   /\ n.expiresAt = delivery[d].clock + MaxSkewMs
      BY <1>1, <2>1, <2>3 DEF Remembered
    <2>. QED  BY <2>2, <2>3
  <1>. QED  BY <1>1, <1>3 DEF ReplayInv, AcceptedOnce, PendingOK, WindowOK

\* Time does not pass over a pending INSERT that is MaxDelay old.
LEMMA TickReplay ==
  ASSUME TypeOK, ReplayInv, AcceptedOnce, Tick
  PROVE  ReplayInv' /\ AcceptedOnce'
  <1>1. now' = now + 1 /\ delivery' = delivery /\ nonces' = nonces /\ now \in Int
    BY DEF Tick, TypeOK
  <1>2. ASSUME NEW d \in Deliveries
        PROVE  PendingOK(delivery[d])' /\ WindowOK(delivery[d])' /\ Remembered(delivery[d])'
    <2>1. /\ PendingOK(delivery[d]) /\ WindowOK(delivery[d]) /\ Remembered(delivery[d])
          /\ delivery[d].checkedAt \in Int /\ delivery[d].clock \in Int
      BY DEF ReplayInv, TypeOK, DeliverySet
    <2>2. PendingOK(delivery[d])'
      BY <1>1, <2>1, TimesAssumption DEF PendingOK, Tick
    <2>3. Remembered(delivery[d])'
      BY <1>1, <2>1, TimesAssumption, ClocksAssumption DEF Remembered
    <2>. QED  BY <1>1, <2>1, <2>2, <2>3 DEF WindowOK
  <1>. QED  BY <1>1, <1>2 DEF ReplayInv, AcceptedOnce

\* Initially nothing was accepted.
LEMMA InitReplay == Init => ReplayInv /\ AcceptedOnce
  BY DEF Init, IdleDelivery, ReplayInv, PendingOK, WindowOK, Remembered, AcceptedOnce

\* A request is accepted once, wherever and however often it is delivered and whenever
\* the table is pruned, unless it was fresher than MaxDelay + Spread when it was accepted:
\* for every number of instances, every skew of their clocks, and every window.
THEOREM NoReplay == Spec => []AcceptedOnce
  <1>1. Init => TypeOK /\ ReplayInv /\ AcceptedOnce
    BY InitType, InitReplay
  <1>2. TypeOK /\ ReplayInv /\ AcceptedOnce /\ [Next]_vars
        => TypeOK' /\ ReplayInv' /\ AcceptedOnce'
    <2>. SUFFICES ASSUME TypeOK, ReplayInv, AcceptedOnce, [Next]_vars
                  PROVE  ReplayInv' /\ AcceptedOnce'
      BY NextType
    <2>1. CASE Tick
      BY <2>1, TickReplay
    <2>2. CASE \E d \in Deliveries, r \in Requests, i \in Instances : Deliver(d, r, i)
      BY <2>2, DeliverReplay
    <2>3. CASE \E d \in Deliveries : RecordNonce(d)
      BY <2>3, RecordReplay
    <2>4. CASE \E i \in Instances : PruneExpired(i)
      BY <2>4, PruneReplay
    <2>5. CASE \/ \E d \in Deliveries : LaterStep(d)
               \/ \E u \in Users, role \in LaterRoles : ChangeMembership(u, role)
               \/ UNCHANGED vars
      BY <2>5, QuietSteps, QuietKeeps
    <2>. QED  BY <2>1, <2>2, <2>3, <2>4, <2>5, NextCases
  <1>. QED  BY <1>1, <1>2, PTL DEF Spec

-----------------------------------------------------------------------------
(***************************************************************************)
(* Authorisation and the audit rows.                                       *)
(***************************************************************************)

\* What holds of the request of a delivery, its user having the role dir[user] now.
Vouched(e, dir) ==
  /\ e.pc = "idle" => e.handler = "none"
  /\ e.pc # "idle" => Authentic(e.req) /\ e.seen # {}
  /\ e.pc \in {"record", "member"} => dir[e.req.user] \in e.seen
  /\ e.pc = "member" => e.req.route.required # {} /\ ~ e.req.apiClient
  /\ e.pc \in {"handle", "success", "failure"} \/ e.handler # "none"
       => \E role \in e.seen : MayExecute(role, e.req)

\* The rows and the answer of a request that has ended and that nothing failed.
Concluded(e) ==
  \/ /\ e.handler = "returned" /\ e.rows = {"SUCCESS"}
     /\ e.req.route.streams \/ e.answer = "ok"
  \/ e.handler = "threw" /\ e.rows = {"FAILURE"} /\ e.answer = "error"
  \/ /\ e.handler = "none" /\ e.answer = "error"
     /\ \/ e.rows = {"FAILURE"} /\ e.accepted
        \/ e.rows = {} /\ (~ e.accepted \/ AfterNonce(e.req) = "refused" \/ NoMember \in e.seen)

\* The handler, the rows and the answer, by where the delivery stands.
Accounted(e) ==
  /\ e.pc \in {"idle", "record", "member", "denied", "handle"}
       => e.handler = "none" /\ e.rows = {} /\ e.answer = "none"
  /\ e.pc = "record" => ~ e.accepted
  /\ e.pc = "success" =>
       /\ e.handler = "returned" /\ e.rows = {}
       /\ e.answer = "none" \/ e.req.route.streams
  /\ e.pc = "failure" =>
       \/ e.handler = "threw" /\ e.rows = {} /\ e.answer = "none"
       \/ e.handler = "returned" /\ e.faulty
  /\ e.answer = "ok" /\ ~ e.req.route.streams => e.rows = {"SUCCESS"} /\ e.pc = "done"
  /\ e.pc = "done" /\ ~ e.faulty => Concluded(e)

Sound(e, dir) == Vouched(e, dir) /\ Accounted(e)

\* What ExecutedIsAuthorised, SuccessIsRecorded and OneRowPerRequest rest on.
SoundInv == \A d \in Deliveries : Sound(delivery[d], directory)

\* A delivery goes on soundly and the others stay where they are.
SoundStep(d) ==
  \E new : /\ Sound(new, directory)
           /\ delivery' = [delivery EXCEPT ![d] = new]
           /\ directory' = directory

\* Such a step keeps the invariant.
LEMMA SoundStepKeeps ==
  ASSUME TypeOK, SoundInv, NEW d \in Deliveries, SoundStep(d)
  PROVE  SoundInv'
  BY DEF TypeOK, SoundInv, SoundStep

\* A verified request is sound.
LEMMA DeliverSound ==
  ASSUME TypeOK, NEW d \in Deliveries, NEW r \in Requests, NEW i \in Instances, Deliver(d, r, i)
  PROVE  SoundStep(d)
  <1>. DEFINE new == Arrived(r, i)
  <1>1. /\ new.pc = "record" /\ new.req = r /\ new.accepted = FALSE /\ new.handler = "none"
        /\ new.rows = {} /\ new.answer = "none" /\ new.seen = {directory[r.user]}
        /\ Authentic(r)
    BY ArrivedType DEF Deliver
  <1>. HIDE DEF new
  <1>2. Sound(new, directory)
    BY <1>1 DEF Sound, Vouched, Accounted
  <1>. QED  BY <1>2 DEF Deliver, Become, SoundStep, new

\* So is an accepted one: the guards that follow refuse it, pass it on or ask.
LEMMA RecordSound ==
  ASSUME TypeOK, SoundInv, NEW d \in Deliveries, RecordNonce(d)
  PROVE  SoundStep(d)
  <1>. DEFINE old == delivery[d]
              new == Accepted(delivery[d])
  <1>1. /\ delivery' = [delivery EXCEPT ![d] = new] /\ directory' = directory
        /\ old.pc = "record" /\ old \in DeliverySet
    BY DEF RecordNonce, Become, Accepted, TypeOK
  <1>2. /\ new.pc = IF AfterNonce(old.req) = "refused" THEN "done" ELSE AfterNonce(old.req)
        /\ new.answer = IF AfterNonce(old.req) = "refused" THEN "error" ELSE "none"
        /\ new.pc \in {"done", "handle", "member"}
        /\ new.accepted = TRUE /\ new.req = old.req /\ new.seen = old.seen
        /\ new.handler = old.handler /\ new.rows = old.rows
    BY <1>1, AcceptedType
  <1>3. Sound(old, directory)
    BY DEF SoundInv
  <1>. HIDE DEF new
  <1>4. /\ old.handler = "none" /\ old.rows = {}
        /\ Authentic(old.req) /\ old.seen # {} /\ directory[old.req.user] \in old.seen
    BY <1>1, <1>3 DEF Sound, Vouched, Accounted
  <1>5. /\ AfterNonce(old.req) = "member" => old.req.route.required # {} /\ ~ old.req.apiClient
        /\ AfterNonce(old.req) = "handle" => \A role \in old.seen : MayExecute(role, old.req)
        /\ AfterNonce(old.req) \in {"refused", "handle", "member"}
    BY DEF AfterNonce, MayExecute
  <1>6. Vouched(new, directory)
    BY <1>2, <1>4, <1>5 DEF Vouched
  <1>7. Accounted(new)
    BY <1>2, <1>4, <1>5 DEF Accounted, Concluded
  <1>. QED  BY <1>1, <1>6, <1>7 DEF Sound, SoundStep

\* The later steps.
LEMMA LaterStepSound ==
  ASSUME TypeOK, SoundInv, NEW d \in Deliveries, LaterStep(d)
  PROVE  SoundStep(d)
  <1>. DEFINE e == delivery[d]
  <1>1. /\ e \in DeliverySet /\ Sound(e, directory) /\ directory' = directory
        /\ BehindGuard(e) => e.accepted
    BY LaterStepFrame DEF TypeOK, SoundInv
  <1>2. CASE RejectReplay(d)
    BY <1>1, <1>2 DEF RejectReplay, Finish, Become, SoundStep,
                      Sound, Vouched, Accounted, Concluded, DeliverySet
  <1>3. CASE NonceFails(d) \/ DirectoryFails(d)
    BY <1>1, <1>3 DEF NonceFails, DirectoryFails, FinishFaulty, Become, SoundStep,
                      Sound, Vouched, Accounted, Concluded, DeliverySet
  <1>4. CASE CheckMembership(d)
    BY <1>1, <1>4 DEF CheckMembership, Finish, Goto, Become, SoundStep, MayExecute,
                      Sound, Vouched, Accounted, Concluded, DeliverySet
  <1>5. CASE AuditDenied(d)
    <2>1. /\ e.pc = "denied" /\ e.handler = "none" /\ e.accepted
          /\ e.rows \union {"FAILURE"} = {"FAILURE"}
      BY <1>1, <1>5 DEF AuditDenied, Sound, Accounted, BehindGuard
    <2>2. CASE AppendRow(d, "FAILURE", "done", "error")
      <3>. DEFINE new == [e EXCEPT !.rows = {"FAILURE"}, !.pc = "done", !.answer = "error"]
      <3>1. delivery' = [delivery EXCEPT ![d] = new]
        BY <2>1, <2>2 DEF AppendRow, Become
      <3>2. Sound(new, directory)
        BY <1>1, <2>1 DEF Sound, Vouched, Accounted, Concluded, DeliverySet
      <3>. QED  BY <1>1, <3>1, <3>2 DEF SoundStep
    <2>3. CASE AppendFails(d, "FAILURE", "done", "error")
      BY <1>1, <2>1, <2>3 DEF AppendFails, Become, SoundStep,
                              Sound, Vouched, Accounted, DeliverySet
    <2>. QED  BY <1>5, <2>2, <2>3 DEF AuditDenied
  <1>6. CASE HandlerReturns(d) \/ HandlerThrows(d)
    BY <1>1, <1>6 DEF HandlerReturns, HandlerThrows, Become, SoundStep,
                      Sound, Vouched, Accounted, Concluded, DeliverySet
  <1>7. CASE StreamBegins(d) \/ StreamFails(d)
    BY <1>1, <1>7 DEF StreamBegins, StreamFails, Streams, Become, SoundStep,
                      Sound, Vouched, Accounted, Concluded, DeliverySet
  <1>8. CASE AuditSuccess(d)
    <2>1. /\ e.pc = "success" /\ e.handler = "returned"
          /\ e.answer = "none" \/ e.req.route.streams
          /\ e.rows \union {"SUCCESS"} = {"SUCCESS"}
      BY <1>1, <1>8 DEF AuditSuccess, Sound, Accounted
    <2>. DEFINE answer == IF Streams(d) THEN e.answer ELSE "ok"
    <2>2. CASE AppendRow(d, "SUCCESS", "done", answer)
      <3>. DEFINE new == [e EXCEPT !.rows = {"SUCCESS"}, !.pc = "done", !.answer = answer]
      <3>1. delivery' = [delivery EXCEPT ![d] = new]
        BY <2>1, <2>2 DEF AppendRow, Become
      <3>2. answer = "ok" \/ e.req.route.streams
        BY DEF Streams
      <3>. HIDE DEF answer
      <3>3. Sound(new, directory)
        BY <1>1, <2>1, <3>2 DEF Sound, Vouched, Accounted, Concluded, DeliverySet
      <3>. QED  BY <1>1, <3>1, <3>3 DEF SoundStep
    <2>3. CASE AppendFails(d, "SUCCESS", "failure", e.answer)
      <3>. PICK rows \in SUBSET (e.rows \union {"SUCCESS"}) :
                  Become(d, [e EXCEPT !.rows = rows, !.pc = "failure", !.answer = e.answer,
                                      !.faulty = TRUE])
        BY <2>3 DEF AppendFails
      <3>. DEFINE new == [e EXCEPT !.rows = rows, !.pc = "failure", !.answer = e.answer,
                                   !.faulty = TRUE]
      <3>1. Sound(new, directory)
        BY <1>1, <2>1 DEF Sound, Vouched, Accounted, DeliverySet
      <3>. QED  BY <1>1, <3>1 DEF SoundStep, Become
    <2>. QED  BY <1>8, <2>2, <2>3 DEF AuditSuccess
  <1>9. CASE AuditFailure(d)
    <2>. DEFINE answer == IF e.answer \in {"ok", "truncated"} THEN e.answer ELSE "error"
    <2>1. /\ e.pc = "failure"
          /\ \/ e.handler = "threw" /\ e.rows \union {"FAILURE"} = {"FAILURE"} /\ answer = "error"
             \/ e.handler = "returned" /\ e.faulty
          /\ answer = "ok" => e.req.route.streams
      BY <1>1, <1>9 DEF AuditFailure, Sound, Accounted
    <2>. HIDE DEF answer
    <2>2. CASE AppendRow(d, "FAILURE", "done", answer)
      <3>. DEFINE new == [e EXCEPT !.rows = @ \union {"FAILURE"}, !.pc = "done", !.answer = answer]
      <3>1. delivery' = [delivery EXCEPT ![d] = new]
        BY <2>2 DEF AppendRow, Become
      <3>2. Sound(new, directory)
        BY <1>1, <2>1 DEF Sound, Vouched, Accounted, Concluded, DeliverySet
      <3>. QED  BY <1>1, <3>1, <3>2 DEF SoundStep
    <2>3. CASE AppendFails(d, "FAILURE", "done", answer)
      <3>. PICK rows \in SUBSET (e.rows \union {"FAILURE"}) :
                  Become(d, [e EXCEPT !.rows = rows, !.pc = "done", !.answer = answer,
                                      !.faulty = TRUE])
        BY <2>3 DEF AppendFails
      <3>. DEFINE new == [e EXCEPT !.rows = rows, !.pc = "done", !.answer = answer,
                                   !.faulty = TRUE]
      <3>1. Sound(new, directory)
        BY <1>1, <2>1 DEF Sound, Vouched, Accounted, DeliverySet
      <3>. QED  BY <1>1, <3>1 DEF SoundStep, Become
    <2>. QED  BY <1>9, <2>2, <2>3 DEF AuditFailure, answer
  <1>10. CASE Crash(d)
    <2>1. PICK answer : answer = IF e.answer = "none" THEN "reset" ELSE e.answer
      OBVIOUS
    <2>. DEFINE new == [e EXCEPT !.pc = "done", !.answer = answer, !.checkedAt = 0,
                                 !.faulty = TRUE]
    <2>2. e.pc \notin {"idle", "done"} /\ delivery' = [delivery EXCEPT ![d] = new]
      BY <1>10, <2>1 DEF Crash, InProgress, FinishFaulty, Become
    <2>3. answer = "ok" => e.req.route.streams
      BY <1>1, <2>1, <2>2 DEF Sound, Accounted
    <2>4. Sound(new, directory)
      BY <1>1, <2>2, <2>3 DEF Sound, Vouched, Accounted, DeliverySet
    <2>. QED  BY <1>1, <2>2, <2>4 DEF SoundStep
  <1>. QED
    BY <1>2, <1>3, <1>4, <1>5, <1>6, <1>7, <1>8, <1>9, <1>10 DEF LaterStep

\* A change of a membership is seen by the requests that have not asked yet.
LEMMA ChangeSound ==
  ASSUME TypeOK, SoundInv, NEW u \in Users, NEW role \in LaterRoles, ChangeMembership(u, role)
  PROVE  SoundInv'
  <1>. SUFFICES ASSUME NEW d \in Deliveries
                PROVE  Sound(delivery'[d], directory')
    BY DEF SoundInv
  <1>. DEFINE e == delivery[d]
              f == [e EXCEPT !.seen = @ \union {role}]
  <1>1. /\ e \in DeliverySet /\ Sound(e, directory)
        /\ e.pc # "idle" => e.req.user \in Users
    BY UsersAssumption DEF TypeOK, SoundInv
  <1>2. /\ directory' = [directory EXCEPT ![u] = role]
        /\ directory'[u] = role
        /\ \A v \in Users \ {u} : directory'[v] = directory[v]
    BY DEF ChangeMembership, TypeOK
  <1>3. CASE e.pc \in {"record", "member"} /\ e.req.user = u
    <2>1. delivery'[d] = f
      BY <1>3 DEF ChangeMembership
    <2>2. Vouched(f, directory')
      BY <1>1, <1>2, <1>3 DEF Sound, Vouched, DeliverySet
    <2>3. Accounted(f)
      BY <1>1, <1>3 DEF Sound, Accounted, DeliverySet
    <2>. QED  BY <2>1, <2>2, <2>3 DEF Sound
  <1>4. CASE ~ (e.pc \in {"record", "member"} /\ e.req.user = u)
    <2>1. delivery'[d] = e
      BY <1>4 DEF ChangeMembership
    <2>. QED  BY <1>1, <1>2, <1>4, <2>1 DEF Sound, Vouched
  <1>. QED  BY <1>3, <1>4

\* The invariant holds initially and every step keeps it.
LEMMA SoundInvariant == Spec => []SoundInv
  <1>1. Init => SoundInv
    BY DEF Init, IdleDelivery, SoundInv, Sound, Vouched, Accounted
  <1>2. TypeOK /\ SoundInv /\ [Next]_vars => SoundInv'
    <2>. SUFFICES ASSUME TypeOK, SoundInv, [Next]_vars
                  PROVE  SoundInv'
      OBVIOUS
    <2>1. CASE \E d \in Deliveries, r \in Requests, i \in Instances : Deliver(d, r, i)
      BY <2>1, DeliverSound, SoundStepKeeps
    <2>2. CASE \E d \in Deliveries : RecordNonce(d)
      BY <2>2, RecordSound, SoundStepKeeps
    <2>3. CASE \E d \in Deliveries : LaterStep(d)
      BY <2>3, LaterStepSound, SoundStepKeeps
    <2>4. CASE \E u \in Users, role \in LaterRoles : ChangeMembership(u, role)
      BY <2>4, ChangeSound
    <2>5. CASE Tick \/ (\E i \in Instances : PruneExpired(i)) \/ UNCHANGED vars
      BY <2>5 DEF Tick, PruneExpired, vars, SoundInv
    <2>. QED  BY <2>1, <2>2, <2>3, <2>4, <2>5, NextCases
  <1>. QED  BY <1>1, <1>2, TypeCorrect, PTL DEF Spec

\* A handler runs only for a request that a trusted key signed and whose user was allowed
\* to between its arrival and the answer of the directory: for every set of requests,
\* routes and keys, and however memberships change.
THEOREM Authorised == Spec => []ExecutedIsAuthorised
  <1>1. TypeOK /\ SoundInv => ExecutedIsAuthorised
    <2>. SUFFICES ASSUME SoundInv, NEW d \in Deliveries, delivery[d].handler # "none"
                  PROVE  LET r == delivery[d].req
                         IN  /\ r.signer \in Trusted /\ r.intact
                             /\ r.url[1] = r.signedUrl[1]
                             /\ r.signedUrl[2] = IF Len(r.url) > 1 THEN r.url[2] ELSE ""
                             /\ SeesBody(r) => r.bodyIntact \/ r.route.multipart
                             /\ \E role \in delivery[d].seen : MayExecute(role, r)
      BY DEF ExecutedIsAuthorised
    <2>1. /\ Authentic(delivery[d].req)
          /\ \E role \in delivery[d].seen : MayExecute(role, delivery[d].req)
      BY DEF SoundInv, Sound, Vouched
    <2>2. delivery[d].req.signer \in Trusted /\ ClaimsAsSigned(delivery[d].req)
      BY <2>1 DEF Authentic, SignedV1, SignedV2, Trusted
    <2>3. /\ delivery[d].req.signedUrl[1] = delivery[d].req.url[1]
          /\ delivery[d].req.signedUrl[2] =
                 IF Len(delivery[d].req.url) > 1 THEN delivery[d].req.url[2] ELSE ""
      <3>1. PICK path, query :
                /\ path = delivery[d].req.url[1]
                /\ query = IF Len(delivery[d].req.url) > 1 THEN delivery[d].req.url[2] ELSE ""
        OBVIOUS
      <3>2. delivery[d].req.signedUrl = <<path, query>>
        BY <2>2, <3>1, Zenon DEF ClaimsAsSigned, PathAndQuery
      <3>3. delivery[d].req.signedUrl[1] = path /\ delivery[d].req.signedUrl[2] = query
        BY <3>2
      <3>. QED  BY <3>1, <3>3, Zenon
    <2>4. SeesBody(delivery[d].req) =>
              delivery[d].req.bodyIntact \/ delivery[d].req.route.multipart
      BY <2>1 DEF Authentic, BodyMatches, RawBody, SeesBody
    <2>. QED  BY <2>1, <2>2, <2>3, <2>4 DEF ClaimsAsSigned
  <1>. QED  BY <1>1, TypeCorrect, SoundInvariant, PTL

\* An answer of success is sent after its SUCCESS row, streamed downloads excepted.
THEOREM AnswersAreRecorded == Spec => []SuccessIsRecorded
  <1>1. SoundInv => SuccessIsRecorded
    BY DEF SoundInv, Sound, Accounted, SuccessIsRecorded, Streams
  <1>. QED  BY <1>1, SoundInvariant, PTL

\* A request that nothing failed leaves the one row that agrees with what happened.
THEOREM RowsAgree == Spec => []OneRowPerRequest
  <1>1. SoundInv => OneRowPerRequest
    BY DEF SoundInv, Sound, Accounted, Concluded, OneRowPerRequest, Streams
  <1>. QED  BY <1>1, SoundInvariant, PTL
=============================================================================
