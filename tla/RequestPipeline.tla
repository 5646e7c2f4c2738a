--------------------------- MODULE RequestPipeline ---------------------------
(***************************************************************************)
(* The way of a request through vault-api: JwtAuthGuard with the nonces    *)
(* that all instances share (common/guards, common/replay), the tenant     *)
(* guards with the external auth directory, the handler, and the audit     *)
(* interceptor around it.                                                  *)
(*                                                                         *)
(*   verify the signature and the timestamp    "idle"         -> "record"  *)
(*   INSERT the nonce ON CONFLICT DO NOTHING   "record"       -> "member"  *)
(*   ask the auth directory                    "member"       -> "handle"  *)
(*   run the handler                           "handle"       -> "success" *)
(*   append the SUCCESS row, then answer       "success"      -> "done"    *)
(*   append the FAILURE row, then answer       "failure"      -> "done"    *)
(*   (role insufficient: the guard appends)    "denied"       -> "done"    *)
(*                                                                         *)
(* The network may deliver a signed request several times.  Instances have *)
(* clocks of their own.  Time is discrete; an INSERT of a nonce executes   *)
(* at most MaxDelay after the timestamp was checked.  A request that       *)
(* arrives before its timestamp was signed by a clock that is ahead.  What *)
(* the handlers do is in the modules of their components.                  *)
(***************************************************************************)
EXTENDS ZeroTrust

CONSTANTS
    Requests,       \* the signed requests, each with its x-zt-ts
    Deliveries,     \* the times one of them reaches an instance
    Instances,
    Users,
    Skew,           \* instance -> its clock minus real time
    MaxSkewMs,      \* zt.maxClockSkewMs
    MaxDelay,
    Spread,         \* bound on the difference of two instances' clocks
    InitialRoles,   \* the roles the directory may start with
    LaterRoles,     \* those it may change to
    MaxChanges,     \* bound on the changes of memberships
    MaxFaulty,      \* bound on the deliveries that something fails
    MaxTime         \* bound on time

ASSUME TimesAssumption ==
    /\ MaxSkewMs \in Nat /\ MaxDelay \in Nat /\ Spread \in Nat
    /\ MaxChanges \in Nat /\ MaxFaulty \in Nat /\ MaxTime \in Nat
    /\ \A r \in Requests : r.ts \in Int
ASSUME ClocksAssumption ==
    /\ Skew \in [Instances -> Int]
    /\ \A i, j \in Instances : Skew[i] - Skew[j] <= Spread
ASSUME UsersAssumption ==
    /\ \A r \in Requests : r.user \in Users
    /\ InitialRoles \union LaterRoles \subseteq Roles \union {NoMember}

VARIABLES
    now,        \* real time
    nonces,     \* the rows of table replay_nonces
    directory,  \* user -> the role the auth directory knows, or NoMember
    changes,    \* the number of changes of the directory
    delivery    \* delivery -> where it stands

vars == <<now, nonces, directory, changes, delivery>>

Clock(i) == now + Skew[i]

\* A delivery: its request, the real time (0 once its nonce has been dealt with) and the
\* instance's clock when its timestamp was checked, whether its nonce was fresh, how the
\* handler ended, the outcomes of its audit rows, its answer; and, as history, the roles
\* its user has had until the directory was asked and whether an append, the directory
\* or the process failed it.
NoRequest == Request("none", "none", 0, "0", "none", "none", <<"none">>, <<"none", "">>, FALSE,
                     "none", FALSE, FALSE, FALSE, Route({}, FALSE, FALSE, FALSE))
IdleDelivery ==
    [pc |-> "idle", req |-> NoRequest, checkedAt |-> 0, clock |-> 0, accepted |-> FALSE,
     handler |-> "none", rows |-> {}, answer |-> "none", seen |-> {}, faulty |-> FALSE]

Become(d, e) == delivery' = [delivery EXCEPT ![d] = e]
Goto(d, pc) == Become(d, [delivery[d] EXCEPT !.pc = pc])
Finish(d, answer) ==
    Become(d, [delivery[d] EXCEPT !.pc = "done", !.answer = answer, !.checkedAt = 0])
FinishFaulty(d, answer) ==
    Become(d, [delivery[d] EXCEPT !.pc = "done", !.answer = answer, !.checkedAt = 0,
                                  !.faulty = TRUE])

MayFail(d) == Cardinality({e \in Deliveries \ {d} : delivery[e].faulty}) < MaxFaulty

InProgress(d) == delivery[d].pc \notin {"idle", "done"}

Init ==
    /\ now = 0
    /\ nonces = {}
    /\ directory \in [Users -> InitialRoles]
    /\ changes = 0
    /\ delivery = [d \in Deliveries |-> IdleDelivery]

-----------------------------------------------------------------------------
(***************************************************************************)
(* JwtAuthGuard.                                                           *)
(***************************************************************************)

\* Time passes, but not over the execution of a pending INSERT.
Tick ==
    /\ now < MaxTime
    /\ \A d \in Deliveries : delivery[d].pc = "record" => now - delivery[d].checkedAt < MaxDelay
    /\ now' = now + 1
    /\ UNCHANGED <<nonces, directory, changes, delivery>>

\* A delivery whose request has just been verified.
Arrived(r, i) ==
    [IdleDelivery EXCEPT !.pc = "record", !.req = r, !.checkedAt = now,
                         !.clock = Clock(i), !.seen = {directory[r.user]}]

\* Mutant: the nonce is not recorded.
DeliverUnrecorded(d, r, i) ==
    /\ delivery[d].pc = "idle"
    /\ InWindow(Clock(i), r.ts, MaxSkewMs)
    /\ Authentic(r)
    /\ Become(d, [Arrived(r, i) EXCEPT !.pc = "member"])
    /\ UNCHANGED <<now, nonces, directory, changes>>

\* The request arrives and verifyZtRequest accepts it; otherwise the answer is 401 and
\* nothing has happened.
Deliver(d, r, i) ==
    /\ delivery[d].pc = "idle"
    /\ InWindow(Clock(i), r.ts, MaxSkewMs)
    /\ Authentic(r)
    /\ Become(d, Arrived(r, i))
    /\ UNCHANGED <<now, nonces, directory, changes>>

ExpiresAt(d) == delivery[d].clock + MaxSkewMs
Recorded(key) == \E row \in nonces : row.key = key
NonceRow(d) == [key |-> ReplayKey(delivery[d].req), expiresAt |-> ExpiresAt(d)]

TenantContextGuard(r) == r.tenantIsUuid

\* What TenantRbacGuard decides without the directory: where the request goes once its
\* nonce is accepted.
AfterNonce(r) ==
    IF ~ TenantContextGuard(r) THEN "refused"
    ELSE IF r.route.required = {} THEN "handle"
    ELSE IF ~ r.apiClient THEN "member"
    ELSE IF r.route.apiClientAllowed THEN "handle" ELSE "refused"

\* INSERT INTO replay_nonces ... ON CONFLICT DO NOTHING RETURNING key.
RecordNonce(d) ==
    LET next == AfterNonce(delivery[d].req)
    IN  /\ delivery[d].pc = "record"
        /\ ~ Recorded(NonceRow(d).key)
        /\ nonces' = nonces \union {NonceRow(d)}
        /\ Become(d, [delivery[d] EXCEPT
               !.pc = IF next = "refused" THEN "done" ELSE next,
               !.answer = IF next = "refused" THEN "error" ELSE "none",
               !.checkedAt = 0,
               !.accepted = TRUE])
        /\ UNCHANGED <<now, directory, changes>>

\* The key exists: 401 Replay detected.
RejectReplay(d) ==
    /\ delivery[d].pc = "record"
    /\ Recorded(NonceRow(d).key)
    /\ Finish(d, "error")
    /\ UNCHANGED <<now, nonces, directory, changes>>

\* The statement fails, or only its acknowledgement is lost: 500.
NonceFails(d) ==
    /\ MayFail(d)
    /\ delivery[d].pc = "record"
    /\ \/ UNCHANGED nonces
       \/ ~ Recorded(NonceRow(d).key) /\ nonces' = nonces \union {NonceRow(d)}
    /\ FinishFaulty(d, "error")
    /\ UNCHANGED <<now, directory, changes>>

\* Mutant: LessThanOrEqual.
PruneExpiredInclusive(i) ==
    /\ nonces' = {n \in nonces : n.expiresAt > Clock(i)}
    /\ nonces' # nonces
    /\ UNCHANGED <<now, directory, changes, delivery>>

\* Mutant: MoreThan.
PruneLive(i) ==
    /\ nonces' = {n \in nonces : n.expiresAt <= Clock(i)}
    /\ nonces' # nonces
    /\ UNCHANGED <<now, directory, changes, delivery>>

\* pruneExpired, every minute in every instance: LessThan(new Date()).
PruneExpired(i) ==
    /\ nonces' = {n \in nonces : n.expiresAt >= Clock(i)}
    /\ nonces' # nonces
    /\ UNCHANGED <<now, directory, changes, delivery>>

-----------------------------------------------------------------------------
(***************************************************************************)
(* TenantRbacGuard: one GET to the auth directory, with a timeout.         *)
(***************************************************************************)

\* The external directory grants, changes or revokes a membership at any time.
ChangeMembership(u, role) ==
    /\ changes < MaxChanges
    /\ role # directory[u]
    /\ changes' = changes + 1
    /\ directory' = [directory EXCEPT ![u] = role]
    /\ delivery' = [d \in Deliveries |->
           IF delivery[d].pc \in {"record", "member"} /\ delivery[d].req.user = u
           THEN [delivery[d] EXCEPT !.seen = @ \union {role}] ELSE delivery[d]]
    /\ UNCHANGED <<now, nonces>>

\* Mutant: any member may.
CheckMembershipOnly(d) ==
    LET role == directory[delivery[d].req.user]
    IN  /\ delivery[d].pc = "member"
        /\ IF role = NoMember THEN Finish(d, "error") ELSE Goto(d, "handle")
        /\ UNCHANGED <<now, nonces, directory, changes>>

\* No membership is a 403 without a row; an insufficient role is recorded first.
CheckMembership(d) ==
    LET role == directory[delivery[d].req.user]
    IN  /\ delivery[d].pc = "member"
        /\ IF role = NoMember THEN Finish(d, "error")
           ELSE Goto(d, IF RoleSuffices(role, delivery[d].req.route) THEN "handle" ELSE "denied")
        /\ UNCHANGED <<now, nonces, directory, changes>>

\* A timeout, a refusal or an error of the directory: 500 or 403, without a row.
DirectoryFails(d) ==
    /\ MayFail(d)
    /\ delivery[d].pc = "member"
    /\ FinishFaulty(d, "error")
    /\ UNCHANGED <<now, nonces, directory, changes>>

-----------------------------------------------------------------------------
(***************************************************************************)
(* The handler and the audit rows.  An append takes effect at once or not  *)
(* at all; when it fails, its row may be in the table all the same.        *)
(***************************************************************************)
Streams(d) == delivery[d].req.route.streams

AppendRow(d, outcome, pc, answer) ==
    Become(d, [delivery[d] EXCEPT !.rows = @ \union {outcome}, !.pc = pc, !.answer = answer])

AppendFails(d, outcome, pc, answer) ==
    /\ MayFail(d)
    /\ \E rows \in {delivery[d].rows, delivery[d].rows \union {outcome}} :
           Become(d, [delivery[d] EXCEPT !.rows = rows, !.pc = pc, !.answer = answer,
                                         !.faulty = TRUE])

\* The guard's own FAILURE row, and the 403 (500 when the append fails).
AuditDenied(d) ==
    /\ delivery[d].pc = "denied"
    /\ AppendRow(d, "FAILURE", "done", "error") \/ AppendFails(d, "FAILURE", "done", "error")
    /\ UNCHANGED <<now, nonces, directory, changes>>

\* next.handle(): the handler returns, or throws, whether or not it did anything.
HandlerReturns(d) ==
    /\ delivery[d].pc = "handle"
    /\ Become(d, [delivery[d] EXCEPT !.pc = "success", !.handler = "returned"])
    /\ UNCHANGED <<now, nonces, directory, changes>>

HandlerThrows(d) ==
    /\ delivery[d].pc = "handle"
    /\ Become(d, [delivery[d] EXCEPT !.pc = "failure", !.handler = "threw"])
    /\ UNCHANGED <<now, nonces, directory, changes>>

\* stream.pipe(res): the status and the first bytes leave when they are there, and
\* nothing waits for the audit row.
StreamBegins(d) ==
    /\ Streams(d)
    /\ delivery[d].handler = "returned"
    /\ delivery[d].answer = "none"
    /\ Become(d, [delivery[d] EXCEPT !.answer = "ok"])
    /\ UNCHANGED <<now, nonces, directory, changes>>

\* stream.on('error'), at any time after the handler returned, with its row written or
\* not: a 500 when no byte has left, otherwise a 200 that breaks off.
StreamFails(d) ==
    /\ Streams(d)
    /\ delivery[d].handler = "returned"
    /\ \/ /\ delivery[d].answer = "none"
          /\ Become(d, [delivery[d] EXCEPT !.answer = "error"])
       \/ /\ delivery[d].answer = "ok"
          /\ Become(d, [delivery[d] EXCEPT !.answer = "truncated"])
    /\ UNCHANGED <<now, nonces, directory, changes>>

\* Mutant: the append is started and not awaited.
AuditSuccessUnawaited(d) ==
    /\ delivery[d].pc = "success"
    /\ \/ AppendRow(d, "SUCCESS", "done", "ok")
       \/ AppendFails(d, "SUCCESS", "done", "ok")
    /\ UNCHANGED <<now, nonces, directory, changes>>

\* mergeMap: the value is passed on when the SUCCESS row is written; a failure of the
\* append goes to catchError like the handler's own.
AuditSuccess(d) ==
    /\ delivery[d].pc = "success"
    /\ \/ AppendRow(d, "SUCCESS", "done", IF Streams(d) THEN delivery[d].answer ELSE "ok")
       \/ AppendFails(d, "SUCCESS", "failure", delivery[d].answer)
    /\ UNCHANGED <<now, nonces, directory, changes>>

\* Mutant: catchError answers without a row.
AuditNoFailure(d) ==
    /\ delivery[d].pc = "failure"
    /\ Finish(d, IF delivery[d].answer \in {"ok", "truncated"} THEN delivery[d].answer ELSE "error")
    /\ UNCHANGED <<now, nonces, directory, changes>>

\* catchError: the FAILURE row, then the error; of an answer that is being streamed only
\* the end changes.
AuditFailure(d) ==
    LET answer == IF delivery[d].answer \in {"ok", "truncated"} THEN delivery[d].answer ELSE "error"
    IN  /\ delivery[d].pc = "failure"
        /\ AppendRow(d, "FAILURE", "done", answer) \/ AppendFails(d, "FAILURE", "done", answer)
        /\ UNCHANGED <<now, nonces, directory, changes>>

\* The process dies: the connection is reset (a stream that has begun breaks off, or is
\* just complete).
Crash(d) ==
    /\ MayFail(d)
    /\ InProgress(d)
    /\ FinishFaulty(d, IF delivery[d].answer = "none" THEN "reset" ELSE delivery[d].answer)
    /\ UNCHANGED <<now, nonces, directory, changes>>

-----------------------------------------------------------------------------
Guarded(d) ==
    \/ RecordNonce(d) \/ RejectReplay(d) \/ NonceFails(d)
    \/ CheckMembership(d) \/ DirectoryFails(d) \/ AuditDenied(d)

Handled(d) ==
    \/ HandlerReturns(d) \/ HandlerThrows(d) \/ StreamBegins(d) \/ StreamFails(d)
    \/ AuditSuccess(d) \/ AuditFailure(d)

Next ==
    \/ Tick
    \/ \E d \in Deliveries, r \in Requests, i \in Instances : Deliver(d, r, i)
    \/ \E d \in Deliveries : Guarded(d) \/ Handled(d) \/ Crash(d)
    \/ \E i \in Instances : PruneExpired(i)
    \/ \E u \in Users, role \in LaterRoles : ChangeMembership(u, role)

Spec == Init /\ [][Next]_vars

\* Time passes, the prune fires every minute, and the INSERT of a nonce ends.
FairSpec ==
    /\ Spec
    /\ WF_vars(Tick)
    /\ \A i \in Instances : WF_vars(PruneExpired(i))
    /\ \A d \in Deliveries : WF_vars(RecordNonce(d) \/ RejectReplay(d) \/ NonceFails(d))

-----------------------------------------------------------------------------
(***************************************************************************)
(* Properties.                                                             *)
(***************************************************************************)
PCs == {"idle", "record", "member", "denied", "handle", "success", "failure", "done"}
DeliverySet ==
    [pc : PCs, req : Requests \union {NoRequest}, checkedAt : Nat, clock : Int,
     accepted : BOOLEAN, handler : {"none", "returned", "threw"},
     rows : SUBSET {"SUCCESS", "FAILURE"}, answer : {"none", "ok", "truncated", "error", "reset"},
     seen : SUBSET (Roles \union {NoMember}), faulty : BOOLEAN]

BehindGuard(e) ==
    e.pc \in {"member", "denied", "handle", "success", "failure"} \/ e.handler # "none"

\* The types of the variables; and nothing behind JwtAuthGuard is reached by a delivery
\* whose nonce was not recorded as new.
TypeOK ==
    /\ now \in 0 .. MaxTime
    /\ nonces \subseteq [key : {ReplayKey(r) : r \in Requests}, expiresAt : Int]
    /\ directory \in [Users -> Roles \union {NoMember}]
    /\ changes \in 0 .. MaxChanges
    /\ delivery \in [Deliveries -> DeliverySet]
    /\ \A d \in Deliveries :
           /\ delivery[d].pc # "idle" => delivery[d].req \in Requests
           /\ BehindGuard(delivery[d]) => delivery[d].accepted

\* A request whose timestamp was, when it was first accepted, at least as old as an
\* INSERT takes plus what the instances' clocks differ by, is accepted once and no more,
\* however often and wherever it is delivered and whenever the table is pruned
\* (checkAndRecord, pruneExpired and the window of parseCommon).  Only a request that is
\* fresher than that, its signer's clock being ahead, can outlive its nonce.
AcceptedOnce ==
    \A d, e \in Deliveries :
        /\ d # e
        /\ delivery[d].accepted /\ delivery[e].accepted
        /\ delivery[d].req = delivery[e].req
        => \E f \in {d, e} : delivery[f].clock - delivery[f].req.ts < MaxDelay + Spread

\* A handler ran only for a request that a trusted key signed, with the path and the
\* query as signed up to a second '?', and with every other claim; on a route that takes
\* no multipart upload it saw no body but the one whose hash was signed; and its user was
\* allowed to at some moment between its arrival and the answer of the directory: no
\* decision rests on a membership read before (JwtAuthGuard, TenantRbacGuard).  What
\* follows a second '?', and the content of an upload, nobody compares with the signature.
ExecutedIsAuthorised ==
    \A d \in Deliveries : delivery[d].handler # "none" =>
        LET r == delivery[d].req
        IN  /\ r.signer \in Trusted /\ r.intact
            /\ r.url[1] = r.signedUrl[1]
            /\ r.signedUrl[2] = IF Len(r.url) > 1 THEN r.url[2] ELSE ""
            /\ SeesBody(r) => r.bodyIntact \/ r.route.multipart
            /\ \E role \in delivery[d].seen : MayExecute(role, r)

\* No answer that reports success is sent before the SUCCESS row is in the log, and no
\* FAILURE row stands beside it; streamed downloads excepted (AuditInterceptor).
SuccessIsRecorded ==
    \A d \in Deliveries :
        delivery[d].answer = "ok" /\ ~ Streams(d) => delivery[d].rows = {"SUCCESS"}

\* Unless an append, the directory or the process fails: a request that reached its
\* handler has exactly one row when it ends, which agrees with what the handler did and,
\* unless it is streamed, with the answer (the row of a streamed download says that its
\* stream was opened, not that it was delivered); and of the others, the refusal of a
\* member for his role has one, and only that of a user who was no member has none.
OneRowPerRequest ==
    \A d \in Deliveries :
        delivery[d].pc = "done" /\ ~ delivery[d].faulty =>
            LET e == delivery[d]
            IN  \/ /\ e.handler = "returned" /\ e.rows = {"SUCCESS"}
                   /\ Streams(d) \/ e.answer = "ok"
                \/ e.handler = "threw" /\ e.rows = {"FAILURE"} /\ e.answer = "error"
                \/ /\ e.handler = "none" /\ e.answer = "error"
                   /\ \/ e.rows = {"FAILURE"} /\ e.accepted
                      \/ e.rows = {} /\ (~ e.accepted \/ AfterNonce(e.req) = "refused"
                                                    \/ NoMember \in e.seen)

\* Every nonce leaves the table: it holds only the replay window, and once requests stop
\* arriving it empties (pruneExpired).
NoncesPruned == nonces # {} ~> nonces = {}
=============================================================================
