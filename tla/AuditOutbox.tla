---------------------------- MODULE AuditOutbox ----------------------------
(***************************************************************************)
(* The durable audit outbox: service operations that admit evidence inside *)
(* their SQL transaction (AuditOperation, Admit) and dispatch workers that *)
(* move committed evidence to the audit log (Claim, Deliver, FailClaim).   *)
(*                                                                         *)
(* One SQL statement or transaction is one step.  An operation keeps the   *)
(* audit_heads row lock from its first Admit to its end, so its steps are  *)
(* separate; a delivery keeps the outbox row lock while it waits for that  *)
(* head, so it is split where it waits.                                    *)
(*                                                                         *)
(* Time is relative: a row's timer is what is left until available_at (of  *)
(* a pending row) or lease_until (of a leased one), 0 once it has passed,  *)
(* by the slowest of the replicas' clocks.  A replica reads its own, which *)
(* is ahead of that one by some d in Skews, another d at each reading.     *)
(* The record hash of an event is the event itself: HMAC-SHA256 over the   *)
(* canonical form, which contains the UUID, is taken to be injective.      *)
(***************************************************************************)
EXTENDS Integers, FiniteSets

CONSTANTS
    Tenants,
    Events,       \* the event UUIDs; one that was rolled back may come again
    Ops,          \* goroutines that run service operations
    Workers,      \* goroutines in Dispatch, on any replica
    Genesis,      \* GenesisAuditHash
    None,         \* no tenant, no lock holder, no claimed event
    MaxPending,   \* AUDIT_MAX_PENDING
    MaxAttempts,  \* auditMaxAttempts
    Lease,        \* auditLease, in ticks
    MaxSkew,      \* how far the replicas' clocks are apart, in ticks
    MaxRequeues   \* bound: how often the operator requeues one event

ASSUME ConstantsAssumption ==
    /\ IsFiniteSet(Events)
    /\ MaxPending \in Nat
    /\ MaxAttempts \in Nat \ {0}
    /\ Lease \in Nat \ {0}
    /\ MaxSkew \in Nat
    /\ MaxRequeues \in Nat
    /\ Genesis \notin Events
    /\ None \notin Tenants \cup Events \cup Ops

VARIABLES
    head,      \* audit_heads: last sequence, last hash, undelivered count
    lock,      \* the operation that holds FOR UPDATE on a tenant's head
    outbox,    \* audit_outboxes
    log,       \* audit_logs: the events inserted there
    minted,    \* lease tokens minted for an event so far; the last is newest
    requeued,  \* how often the operator requeued an event
    op,        \* the running operation of a goroutine
    worker     \* the claim a dispatch goroutine works on

vars == <<head, lock, outbox, log, minted, requeued, op, worker>>

(***************************************************************************)
(* Rows.  "staged" is a row inserted by a transaction that has not ended;  *)
(* no other transaction sees it.  Token 0 is the empty lease_token.        *)
(***************************************************************************)
Hashes == Events \cup {Genesis}

HeadRow == [seq: Nat, hash: Hashes, pending: Nat]

NoHead == [seq |-> 0, hash |-> Genesis, pending |-> 0]

RowStates == {"none", "staged", "pending", "leased", "dead", "delivered"}

Row == [state: RowStates, tenant: Tenants \cup {None}, seq: Nat, prev: Hashes,
        success: BOOLEAN, attempts: Nat, token: Nat, timer: Nat]

NoRow == [state |-> "none", tenant |-> None, seq |-> 0, prev |-> Genesis,
          success |-> FALSE, attempts |-> 0, token |-> 0, timer |-> 0]

\* The row Admit inserts behind head h: next sequence, chained hash, no attempt.
NewRow(t, h, ok, st) ==
    [state |-> st, tenant |-> t, seq |-> h.seq + 1, prev |-> h.hash,
     success |-> ok, attempts |-> 0, token |-> 0, timer |-> 0]

\* What Admit leaves in the head row after inserting e.
Advance(h, e) == [seq |-> h.seq + 1, hash |-> e, pending |-> h.pending + 1]

Results == {"ok", "denied", "error"}

OpState == [running: BOOLEAN, tenant: Tenants \cup {None}, head: HeadRow,
            staged: SUBSET Events, failed: BOOLEAN, admissions: Nat,
            successful: BOOLEAN, reply: Results \cup {"none", "unavailable"}]

\* A goroutine between operations; only the last reply is left to see.
Ended(reply) == [running |-> FALSE, tenant |-> None, head |-> NoHead,
                 staged |-> {}, failed |-> FALSE, admissions |-> 0,
                 successful |-> FALSE, reply |-> reply]

WorkerState == [pc: {"idle", "deliver", "ack", "fail"},
                event: Events \cup {None}, attempts: Nat, token: Nat]

Idle == [pc |-> "idle", event |-> None, attempts |-> 0, token |-> 0]

Committed == {"pending", "leased", "dead", "delivered"}

Undelivered == {"pending", "leased", "dead"}

\* The events of tenant t whose row is in one of the given states.
Rows(t, states) ==
    {e \in Events : outbox[e].tenant = t /\ outbox[e].state \in states}

\* The rows a tenant's pending counter stands for; dead letters included.
Outstanding(t) == Rows(t, Undelivered)

TypeOK ==
    /\ head \in [Tenants -> HeadRow]
    /\ lock \in [Tenants -> Ops \cup {None}]
    /\ outbox \in [Events -> Row]
    /\ log \in SUBSET Events
    /\ minted \in [Events -> Nat]
    /\ requeued \in [Events -> Nat]
    /\ op \in [Ops -> OpState]
    /\ worker \in [Workers -> WorkerState]

Init ==
    /\ head = [t \in Tenants |-> NoHead]
    /\ lock = [t \in Tenants |-> None]
    /\ outbox = [e \in Events |-> NoRow]
    /\ log = {}
    /\ minted = [e \in Events |-> 0]
    /\ requeued = [e \in Events |-> 0]
    /\ op = [p \in Ops |-> Ended("none")]
    /\ worker = [w \in Workers |-> Idle]

(***************************************************************************)
(* Operations: AuditOperation and the Admit calls made inside it.          *)
(***************************************************************************)
deliveryVars == <<log, minted, requeued, worker>>

\* AuditOperation opens the transaction and binds an empty Operation to it.
Begin(p, t) ==
    /\ ~op[p].running
    /\ op' = [op EXCEPT ![p] = [Ended("none") EXCEPT !.running = TRUE, !.tenant = t]]
    /\ UNCHANGED <<head, lock, outbox, deliveryVars>>

\* Mutant: FOR UPDATE forgets what this transaction already wrote.
HeadSeenStale(p) == head[op[p].tenant]

\* The head as p's transaction sees it under SELECT ... FOR UPDATE.
HeadSeen(p) ==
    LET t == op[p].tenant IN IF lock[t] = p THEN op[p].head ELSE head[t]

\* Mutant: the head is read without FOR UPDATE.
CanLockAlways(p) == TRUE

CanLock(p) == lock[op[p].tenant] \in {p, None}

\* Record -> Admit succeeds: the row is inserted behind the locked head, and
\* the operation counts the admission (Operation.Admitted).
Admit(p, e, ok) ==
    LET t == op[p].tenant
        h == HeadSeen(p)
    IN  /\ op[p].running
        /\ CanLock(p)
        /\ outbox[e].state = "none"
        /\ h.pending < MaxPending
        /\ lock' = [lock EXCEPT ![t] = p]
        /\ outbox' = [outbox EXCEPT ![e] = NewRow(t, h, ok, "staged")]
        /\ op' = [op EXCEPT ![p].head = Advance(h, e),
                            ![p].staged = @ \cup {e},
                            ![p].admissions = @ + 1,
                            ![p].successful = @ \/ ok]
        /\ UNCHANGED <<head, deliveryVars>>

\* Record -> Admit is refused at capacity.  The savepoint is rolled back, the
\* head lock stays, and Record latches the failure into the operation.
AdmitFull(p) ==
    LET t == op[p].tenant
        h == HeadSeen(p)
    IN  /\ op[p].running
        /\ CanLock(p)
        /\ h.pending >= MaxPending
        /\ lock' = [lock EXCEPT ![t] = p]
        /\ op' = [op EXCEPT ![p].head = h, ![p].failed = TRUE]
        /\ UNCHANGED <<head, outbox, deliveryVars>>

\* Record -> Admit fails for any other reason (capture, SQL error, lock wait).
AdmitError(p) ==
    /\ op[p].running
    /\ op' = [op EXCEPT ![p].failed = TRUE]
    /\ UNCHANGED <<head, lock, outbox, deliveryVars>>

\* Admit outside any operation is a transaction of its own.
AdmitAlone(t, e, ok) ==
    /\ lock[t] = None
    /\ outbox[e].state = "none"
    /\ head[t].pending < MaxPending
    /\ outbox' = [outbox EXCEPT ![e] = NewRow(t, head[t], ok, "pending")]
    /\ head' = [head EXCEPT ![t] = Advance(@, e)]
    /\ UNCHANGED <<lock, op, deliveryVars>>

\* Operation.DenialMayCommit: evidence was admitted, none of it of a success.
DenialMayCommit(p) == op[p].admissions > 0 /\ ~op[p].successful

\* Mutant: the error latch of legacy Record callers is not consulted.
MayCommitUnlatched(p, r) == r = "ok" \/ (r = "denied" /\ DenialMayCommit(p))

\* AuditOperation's decision once the service function returned r.
MayCommit(p, r) ==
    /\ ~op[p].failed
    /\ r = "ok" \/ (r = "denied" /\ DenialMayCommit(p))

\* The end of p's transaction: its head lock is released.
Release(p) == lock' = [t \in Tenants |-> IF lock[t] = p THEN None ELSE lock[t]]

\* The transaction commits.  The caller gets r, or an error if the connection
\* broke after the database had committed.
Commit(p, r, reply) ==
    /\ op[p].running
    /\ MayCommit(p, r)
    /\ reply \in {r, "unavailable"}
    /\ outbox' = [e \in Events |-> IF e \in op[p].staged
                                     THEN [outbox[e] EXCEPT !.state = "pending"]
                                     ELSE outbox[e]]
    /\ head' = [t \in Tenants |-> IF lock[t] = p THEN op[p].head ELSE head[t]]
    /\ Release(p)
    /\ op' = [op EXCEPT ![p] = Ended(reply)]
    /\ UNCHANGED deliveryVars

\* Everything the transaction wrote is undone.
Undo(p, reply) ==
    /\ outbox' = [e \in Events |-> IF e \in op[p].staged THEN NoRow ELSE outbox[e]]
    /\ Release(p)
    /\ op' = [op EXCEPT ![p] = Ended(reply)]
    /\ UNCHANGED <<head, deliveryVars>>

\* The function returned r and AuditOperation rolls back; a latched admission
\* failure turns any result into ErrUnavailable.
Rollback(p, r) ==
    /\ op[p].running
    /\ ~MayCommit(p, r)
    /\ Undo(p, IF op[p].failed THEN "unavailable" ELSE r)

\* The commit itself fails, or the process dies with the transaction open.
Abort(p) ==
    /\ op[p].running
    /\ Undo(p, "unavailable")

(***************************************************************************)
(* Dispatch workers.                                                       *)
(***************************************************************************)
operationVars == <<head, lock, op>>

\* A worker in "ack" holds FOR UPDATE on its row until Deliver's transaction ends.
RowLocked(e) == \E w \in Workers : worker[w].pc = "ack" /\ worker[w].event = e

Skews == 0 .. MaxSkew

\* Mutant: Claim overlooks rows whose lease ran out.
ClaimablePending(e, d) ==
    /\ outbox[e].state = "pending"
    /\ outbox[e].timer <= d
    /\ ~RowLocked(e)

\* The row is due by a clock that is d ahead.  A row that Admit, FailClaim or
\* RequeueDead wrote with a fast clock is claimed later than it could be here.
Claimable(e, d) ==
    /\ outbox[e].state \in {"pending", "leased"}
    /\ outbox[e].timer <= d
    /\ ~RowLocked(e)

\* Claim takes a due row that no one has locked, under a fresh token.
Claim(w, e) == \E d \in Skews :
    LET n == outbox[e].attempts + 1
    IN  /\ worker[w].pc = "idle"
        /\ Claimable(e, d)
        /\ n <= MaxAttempts
        /\ minted' = [minted EXCEPT ![e] = @ + 1]
        /\ outbox' = [outbox EXCEPT ![e].state = "leased", ![e].attempts = n,
                                    ![e].token = minted[e] + 1, ![e].timer = Lease + d]
        /\ worker' = [worker EXCEPT ![w] = [pc |-> "deliver", event |-> e,
                                            attempts |-> n, token |-> minted[e] + 1]]
        /\ UNCHANGED <<operationVars, log, requeued>>

\* Claim finds a row whose every lease ran out and buries it ("lease_exhausted").
ClaimExhausted(w, e) ==
    /\ worker[w].pc = "idle"
    /\ \E d \in Skews : Claimable(e, d)
    /\ outbox[e].attempts + 1 > MaxAttempts
    /\ minted' = [minted EXCEPT ![e] = @ + 1]
    /\ outbox' = [outbox EXCEPT ![e].state = "dead", ![e].attempts = @ + 1,
                                ![e].token = minted[e] + 1]
    /\ UNCHANGED <<operationVars, log, requeued, worker>>

\* Mutant: Deliver does not compare lease tokens.
LeaseHeldAnyToken(w, d) ==
    LET row == outbox[worker[w].event] IN row.state = "leased" /\ row.timer > d

\* The row is still leased under this worker's token, and the lease has time left
\* by a clock that is d ahead.
LeaseHeld(w, d) ==
    LET row == outbox[worker[w].event]
    IN  row.state = "leased" /\ row.token = worker[w].token /\ row.timer > d

Step(w, pc) == worker' = [worker EXCEPT ![w].pc = pc]

\* Deliver locks the row and looks at it: already delivered is success, a lost
\* lease is an error, and otherwise the transaction goes on under the row lock.
DeliverCheck(w) ==
    /\ worker[w].pc = "deliver"
    /\ ~RowLocked(worker[w].event)
    /\ \E d \in Skews :
         CASE outbox[worker[w].event].state = "delivered" ->
                worker' = [worker EXCEPT ![w] = Idle]
           [] LeaseHeld(w, d) -> Step(w, "ack")
           [] OTHER -> Step(w, "fail")
    /\ UNCHANGED <<operationVars, outbox, log, minted, requeued>>

\* The rest of Deliver: insert the log row unless it is there, take one off the
\* tenant's pending counter (waiting for its lock) and acknowledge.  The commit
\* may reach the database although the caller sees an error.
DeliverAck(w, pc) ==
    LET e == worker[w].event
        t == outbox[e].tenant
    IN  /\ worker[w].pc = "ack"
        /\ lock[t] = None
        /\ pc \in {"idle", "fail"}
        /\ log' = log \cup {e}
        /\ head' = [head EXCEPT ![t].pending = IF @ > 0 THEN @ - 1 ELSE @]
        /\ outbox' = [outbox EXCEPT ![e].state = "delivered", ![e].token = 0,
                                    ![e].timer = 0]
        /\ worker' = [worker EXCEPT ![w] = IF pc = "idle" THEN Idle
                                           ELSE [@ EXCEPT !.pc = "fail"]]
        /\ UNCHANGED <<lock, op, minted, requeued>>

\* Deliver fails with its transaction rolled back: SQL error, lock wait timeout,
\* or a payload that does not verify.
DeliverError(w) ==
    /\ worker[w].pc \in {"deliver", "ack"}
    /\ Step(w, "fail")
    /\ UNCHANGED <<operationVars, outbox, log, minted, requeued>>

BackoffTicks == <<2, 4, 8, 16, 32, 64, 128, 256>>

Backoff(attempts) == BackoffTicks[IF attempts < 8 THEN attempts ELSE 8]

\* Mutant: FailClaim updates by event_id alone.
FailClaimUnfenced(w) ==
    LET c == worker[w]
    IN  /\ c.pc = "fail"
        /\ ~RowLocked(c.event)
        /\ outbox' = [outbox EXCEPT ![c.event].state = "pending", ![c.event].token = 0]
        /\ worker' = [worker EXCEPT ![w] = Idle]
        /\ UNCHANGED <<operationVars, log, minted, requeued>>

\* Mutant: FailClaim writes a state that neither Claim nor RequeueDead knows.
FailClaimUnknownState(w) ==
    LET c == worker[w]
    IN  /\ c.pc = "fail"
        /\ ~RowLocked(c.event)
        /\ outbox' = IF outbox[c.event].token = c.token
                     THEN [outbox EXCEPT ![c.event].state = "failed"] ELSE outbox
        /\ worker' = [worker EXCEPT ![w] = Idle]
        /\ UNCHANGED <<operationVars, log, minted, requeued>>

\* FailClaim gives the row back with a backoff, or buries it after the last
\* attempt, but only while it is still leased under this worker's token.
FailClaim(w) ==
    LET c == worker[w]
        row == outbox[c.event]
    IN  /\ c.pc = "fail"
        /\ ~RowLocked(c.event)
        /\ outbox' = IF row.state = "leased" /\ row.token = c.token
                     THEN [outbox EXCEPT ![c.event].state =
                                 IF c.attempts >= MaxAttempts THEN "dead" ELSE "pending",
                               ![c.event].token = 0,
                               ![c.event].timer =
                                 IF c.attempts >= MaxAttempts THEN 0 ELSE Backoff(c.attempts)]
                     ELSE outbox
        /\ worker' = [worker EXCEPT ![w] = Idle]
        /\ UNCHANGED <<operationVars, log, minted, requeued>>

\* The process dies, or FailClaim itself fails: the claim is forgotten.
Crash(w) ==
    /\ worker[w].pc # "idle"
    /\ worker' = [worker EXCEPT ![w] = Idle]
    /\ UNCHANGED <<operationVars, outbox, log, minted, requeued>>

\* The operator gives a dead letter a fresh set of attempts.
RequeueDead(e) ==
    /\ outbox[e].state = "dead"
    /\ requeued[e] < MaxRequeues
    /\ outbox' = [outbox EXCEPT ![e].state = "pending", ![e].attempts = 0,
                                ![e].timer = 0]
    /\ requeued' = [requeued EXCEPT ![e] = @ + 1]
    /\ UNCHANGED <<operationVars, log, minted, worker>>

\* Time passes, by every clock.
Tick ==
    /\ \E e \in Events : outbox[e].timer > 0
    /\ outbox' = [e \in Events |->
                     [outbox[e] EXCEPT !.timer = IF @ > 0 THEN @ - 1 ELSE 0]]
    /\ UNCHANGED <<operationVars, log, minted, requeued, worker>>

Operation(p) ==
    \/ \E t \in Tenants : Begin(p, t)
    \/ \E e \in Events, ok \in BOOLEAN : Admit(p, e, ok)
    \/ AdmitFull(p)
    \/ AdmitError(p)
    \/ \E r \in Results, reply \in Results \cup {"unavailable"} : Commit(p, r, reply)
    \/ \E r \in Results : Rollback(p, r)
    \/ Abort(p)

Dispatch(w) ==
    \/ \E e \in Events : Claim(w, e)
    \/ \E e \in Events : ClaimExhausted(w, e)
    \/ DeliverCheck(w)
    \/ \E pc \in {"idle", "fail"} : DeliverAck(w, pc)
    \/ DeliverError(w)
    \/ FailClaim(w)
    \/ Crash(w)

Next ==
    \/ \E p \in Ops : Operation(p)
    \/ \E t \in Tenants, e \in Events, ok \in BOOLEAN : AdmitAlone(t, e, ok)
    \/ \E w \in Workers : Dispatch(w)
    \/ \E e \in Events : RequeueDead(e)
    \/ Tick

Spec == Init /\ [][Next]_vars

\* Dispatch runs in a loop on every replica, a statement returns or times out,
\* and a request's context ends its operation.  Nothing keeps workers alive.
Fairness ==
    /\ WF_vars(Tick)
    /\ \A p \in Ops : WF_vars(Abort(p))
    /\ \A w \in Workers :
         /\ WF_vars(\E e \in Events : Claim(w, e) \/ ClaimExhausted(w, e))
         /\ WF_vars(DeliverCheck(w) \/ DeliverAck(w, "idle") \/ DeliverError(w))
         /\ WF_vars(FailClaim(w))

FairSpec == Spec /\ Fairness

(***************************************************************************)
(* Properties.                                                             *)
(***************************************************************************)

\* The pending counter of audit_heads, kept by increments in Admit and guarded
\* decrements in Deliver, always equals the number of undelivered rows, dead
\* letters included, and never passes AUDIT_MAX_PENDING, whatever rolls back,
\* is delivered twice, is reclaimed or requeued.
PendingCounted ==
    \A t \in Tenants :
        /\ head[t].pending = Cardinality(Outstanding(t))
        /\ head[t].pending <= MaxPending

\* The rows R of table ob are one gapless hash chain from Genesis to head h.
IsChain(ob, R, h) ==
    /\ \A e \in R : ob[e].seq \in 1 .. h.seq
    /\ \A n \in 1 .. h.seq : \E e \in R : ob[e].seq = n
    /\ \A e, f \in R : ob[e].seq = ob[f].seq => e = f
    /\ \A e \in R : IF ob[e].seq = 1 THEN ob[e].prev = Genesis
                    ELSE ob[e].prev \in R /\ ob[ob[e].prev].seq = ob[e].seq - 1
    /\ IF h.seq = 0 THEN h.hash = Genesis ELSE h.hash \in R /\ ob[h.hash].seq = h.seq

\* The committed rows of a tenant are one gapless hash chain that ends at its
\* head: sequences 1..head.seq, each once, each linked to its predecessor's
\* hash.  Admissions of concurrent and of rolled back operations leave no hole.
ChainIntact == \A t \in Tenants : IsChain(outbox, Rows(t, Committed), head[t])

\* An event is in audit_logs exactly when its outbox row is acknowledged: the
\* insert and the ACK of Deliver are one transaction.
DeliveredIffLogged == \A e \in Events : e \in log <=> outbox[e].state = "delivered"

\* A row is the same up to the passage of time.
SameButTimer(row, new) == [new EXCEPT !.timer = row.timer] = row

FencedStep ==
    \A e \in Events :
        LET row == outbox[e]
            new == outbox'[e]
        IN  /\ row.state = "delivered" => SameButTimer(row, new)
            /\ row.state = "leased" =>
                 \/ SameButTimer(row, new)
                 \/ row.timer <= MaxSkew /\ new.state # "delivered" /\ new.token > row.token
                 \/ \E w \in Workers : /\ worker[w].event = e
                                       /\ worker[w].token = row.token
                                       /\ worker[w].pc \in {"ack", "fail"}
                                       /\ worker'[w].pc \in {"idle", "fail"}

\* "A fresh token fences stale workers": a leased row loses its lease only to
\* the worker that holds its token, or to Claim after the lease has expired by
\* some replica's clock, and then under a newer token.  A delivered row never
\* changes again.
Fenced == [][FencedStep]_vars

HonestReplyStep ==
    \A p \in Ops : op[p].running /\ ~op'[p].running =>
        /\ op'[p].reply = "ok" =>
             /\ ~op[p].failed
             /\ \A e \in op[p].staged : outbox'[e].state = "pending"
        /\ op'[p].reply \in {"denied", "error"} =>
             \A e \in op[p].staged : outbox[e].success => outbox'[e].state = "none"

\* The answer of AuditOperation can be trusted: "ok" means that every event it
\* admitted is durable and no admission failed, and a denial or an error leaves
\* no evidence of a success behind.
HonestReply == [][HonestReplyStep]_vars

\* Committed evidence does not stay in flight: it is delivered, or its attempts
\* run out and it is a dead letter an operator can see, however often workers
\* crash, deliveries fail or leases expire.
EventuallySettled ==
    \A e \in Events :
        outbox[e].state \in {"pending", "leased"} ~> outbox[e].state \in {"delivered", "dead"}
=============================================================================
