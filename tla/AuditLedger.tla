---------------------------- MODULE AuditLedger ----------------------------
(***************************************************************************)
(* What AuditService.createChained promises its callers, without the       *)
(* database: one ledger per scope; a call appends its event to the ledger  *)
(* of its scope in one atomic step, at most once, between its start and    *)
(* its end; a call that ends "ok" has appended; a call that ends "failed"  *)
(* may have appended (the acknowledgement of the COMMIT was lost).         *)
(***************************************************************************)
EXTENDS Sequences

CONSTANTS Writers, Scopes, Events

VARIABLES
    ledger,   \* scope -> sequence of the events recorded under it
    status,   \* writer -> where its call stands
    request   \* writer -> the scope and event of its call

vars == <<ledger, status, request>>

NoRequest == [scope |-> "none", event |-> "none"]

Init ==
    /\ ledger = [s \in Scopes |-> <<>>]
    /\ status = [w \in Writers |-> "idle"]
    /\ request = [w \in Writers |-> NoRequest]

Move(w, from, to) ==
    /\ status[w] = from
    /\ status' = [status EXCEPT ![w] = to]

Request(w) ==
    /\ Move(w, "idle", "pending")
    /\ \E s \in Scopes, e \in Events :
           request' = [request EXCEPT ![w] = [scope |-> s, event |-> e]]
    /\ UNCHANGED ledger

Record(w) ==
    /\ Move(w, "pending", "recorded")
    /\ ledger' = [ledger EXCEPT ![request[w].scope] = Append(@, request[w].event)]
    /\ UNCHANGED request

Refuse(w) == Move(w, "pending", "failed") /\ UNCHANGED <<ledger, request>>
Confirm(w) == Move(w, "recorded", "ok") /\ UNCHANGED <<ledger, request>>
LoseConfirmation(w) == Move(w, "recorded", "failed") /\ UNCHANGED <<ledger, request>>

Return(w) ==
    /\ \/ Move(w, "ok", "idle")
       \/ Move(w, "failed", "idle")
    /\ request' = [request EXCEPT ![w] = NoRequest]
    /\ UNCHANGED ledger

Next ==
    \E w \in Writers :
        \/ Request(w)
        \/ Record(w)
        \/ Refuse(w)
        \/ Confirm(w)
        \/ LoseConfirmation(w)
        \/ Return(w)

Spec == Init /\ [][Next]_vars
=============================================================================
