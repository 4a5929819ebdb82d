-------------------------- MODULE AuditOutboxProofs --------------------------
(***************************************************************************)
(* Theorems about AuditOutbox, its refinement of AuditQueue, and the       *)
(* archives beside it, for every value of their constants.                 *)
(***************************************************************************)
EXTENDS AuditRefinement, AuditArchive, Sequences, FiniteSetTheorems, TLAPS

\* A leaf is for Zenon unless it names another prover: SMT, where there is
\* arithmetic or Zenon does not find the proof.
USE Zenon

\* Every Backoff is a natural number of ticks, for the attempts a claim has had.
LEMMA BackoffType ==
    ASSUME NEW n \in Nat \ {0}
    PROVE  Backoff(n) \in Nat
<1>1. BackoffTicks \in [1 .. 8 -> Nat]
  BY SMT DEF BackoffTicks
<1>2. (IF n < 8 THEN n ELSE 8) \in 1 .. 8
  BY SMT
<1> QED
  BY <1>1, <1>2 DEF Backoff

\* A goroutine's state after an operation is well typed.
LEMMA EndedType ==
    ASSUME NEW reply \in Results \cup {"none", "unavailable"}
    PROVE  Ended(reply) \in OpState
  BY DEF Ended, OpState, HeadRow, NoHead, Hashes

\* Overwriting fields of a row or of an operation by values of their types.
LEMMA RowUpdate ==
    ASSUME NEW r \in Row, NEW st \in RowStates, NEW n \in Nat, NEW m \in Nat
    PROVE  /\ [r EXCEPT !.state = st, !.token = n, !.timer = m] \in Row
           /\ [r EXCEPT !.state = st, !.attempts = n, !.timer = m] \in Row
           /\ [r EXCEPT !.timer = m] \in Row
  BY DEF Row

LEMMA OpUpdate ==
    ASSUME NEW o \in OpState, NEW h \in HeadRow
    PROVE  /\ [o EXCEPT !.head = h, !.failed = TRUE] \in OpState
           /\ [o EXCEPT !.failed = TRUE] \in OpState
  BY DEF OpState

\* A running operation has a tenant; a working worker a claim with an attempt.
Bound ==
    /\ \A p \in Ops : op[p].running => op[p].tenant \in Tenants
    /\ \A w \in Workers : worker[w].pc # "idle" =>
         worker[w].event \in Events /\ worker[w].attempts > 0

LEMMA TypeInit == Init => TypeOK /\ Bound
<1> SUFFICES ASSUME Init PROVE TypeOK /\ Bound
  OBVIOUS
<1>1. Ended("none") \in OpState
  BY EndedType
<1>2. NoRow \in Row
  BY DEF NoRow, Row, RowStates, Hashes
<1>3. NoHead \in HeadRow /\ Idle \in WorkerState
  BY DEF NoHead, HeadRow, Hashes, Idle, WorkerState
<1> QED
  BY <1>1, <1>2, <1>3 DEF Init, TypeOK, Bound, Idle, Ended

LEMMA TypeNext == TypeOK /\ Bound /\ [Next]_vars => TypeOK' /\ Bound'
<1> SUFFICES ASSUME TypeOK, Bound, [Next]_vars PROVE TypeOK' /\ Bound'
  OBVIOUS
<1> USE ConstantsAssumption
<1>t. /\ head \in [Tenants -> HeadRow]
      /\ lock \in [Tenants -> Ops \cup {None}]
      /\ outbox \in [Events -> Row]
      /\ log \in SUBSET Events
      /\ minted \in [Events -> Nat]
      /\ requeued \in [Events -> Nat]
      /\ op \in [Ops -> OpState]
      /\ worker \in [Workers -> WorkerState]
  BY DEF TypeOK
<1>i. Idle \in WorkerState /\ NoRow \in Row /\ NoHead \in HeadRow
  BY DEF Idle, WorkerState, NoRow, Row, RowStates, Hashes, NoHead, HeadRow
<1>a. ASSUME NEW h \in HeadRow, NEW e \in Events, NEW t \in Tenants, NEW ok \in BOOLEAN,
             NEW st \in {"staged", "pending"}
      PROVE  Advance(h, e) \in HeadRow /\ NewRow(t, h, ok, st) \in Row
  BY <1>a, SMT DEF Advance, NewRow, HeadRow, Row, RowStates, Hashes
<1>h. ASSUME NEW p \in Ops, op[p].tenant \in Tenants
      PROVE  HeadSeen(p) \in HeadRow
  BY <1>h, <1>t DEF HeadSeen, OpState
<1>u. ASSUME NEW p \in Ops, NEW reply \in Results \cup {"unavailable"}, Undo(p, reply)
      PROVE  TypeOK' /\ Bound'
  <2>1. op' \in [Ops -> OpState]
    BY <1>u, <1>t, EndedType DEF Undo
  <2> QED
    BY <1>u, <1>t, <1>i, <2>1 DEF Undo, Release, TypeOK, Bound, deliveryVars, Ended
<1>1. ASSUME NEW p \in Ops, NEW t \in Tenants, Begin(p, t)
      PROVE  TypeOK' /\ Bound'
  <2>1. [Ended("none") EXCEPT !.running = TRUE, !.tenant = t] \in OpState
    BY <1>i DEF Ended, OpState
  <2> QED
    BY <1>1, <1>t, <2>1, SMT DEF Begin, TypeOK, Bound, deliveryVars
<1>2. ASSUME NEW p \in Ops, NEW e \in Events, NEW ok \in BOOLEAN, Admit(p, e, ok)
      PROVE  TypeOK' /\ Bound'
  <2>1. op[p].tenant \in Tenants
    BY <1>2 DEF Admit, Bound
  <2>2. op' \in [Ops -> OpState]
    <3> DEFINE h == Advance(HeadSeen(p), e)
               a == op[p].admissions + 1
               b == op[p].successful \/ ok
               n == [op[p] EXCEPT !.head = h, !.staged = @ \cup {e}, !.admissions = a, !.successful = b]
    <3>1. op' = [op EXCEPT ![p] = n]
      BY <1>2 DEF Admit
    <3>2. op[p] \in OpState /\ h \in HeadRow
      BY <1>t, <1>h, <1>a, <2>1
    <3>3. a \in Nat /\ b \in BOOLEAN /\ op[p].staged \cup {e} \in SUBSET Events
      BY <3>2, SMT DEF OpState
    <3> HIDE DEF h, a, b
    <3>4. n \in OpState
      BY <3>2, <3>3 DEF OpState
    <3> HIDE DEF n
    <3> QED BY <1>t, <3>1, <3>4
  <2>3. outbox' \in [Events -> Row]
    BY <1>2, <1>t, <1>h, <1>a, <2>1 DEF Admit
  <2> QED
    BY <1>2, <1>t, <2>1, <2>2, <2>3, SMT DEF Admit, TypeOK, Bound, deliveryVars, OpState
<1>3. ASSUME NEW p \in Ops, AdmitFull(p)
      PROVE  TypeOK' /\ Bound'
  <2>1. op[p].tenant \in Tenants
    BY <1>3 DEF AdmitFull, Bound
  <2> DEFINE o == [op[p] EXCEPT !.head = HeadSeen(p), !.failed = TRUE]
  <2>a. o \in OpState
    BY <1>3, <1>t, <1>h, <2>1, OpUpdate
  <2>b. op' = [op EXCEPT ![p] = o]
    BY <1>3, <1>t DEF AdmitFull
  <2>2. op' \in [Ops -> OpState]
    BY <1>t, <2>a, <2>b
  <2> QED
    BY <1>3, <1>t, <2>1, <2>2, SMT DEF AdmitFull, TypeOK, Bound, deliveryVars, OpState
<1>4. ASSUME NEW p \in Ops, AdmitError(p)
      PROVE  TypeOK' /\ Bound'
  <2> DEFINE o == [op[p] EXCEPT !.failed = TRUE]
  <2>1. o \in OpState
    BY <1>t, <1>i, OpUpdate
  <2>2. op' = [op EXCEPT ![p] = o]
    BY <1>4, <1>t DEF AdmitError
  <2>3. op' \in [Ops -> OpState]
    BY <1>t, <2>1, <2>2
  <2> QED
    BY <1>4, <1>t, <2>3, SMT DEF AdmitError, TypeOK, Bound, deliveryVars, OpState
<1>5. ASSUME NEW p \in Ops, NEW r \in Results, NEW reply \in Results \cup {"unavailable"},
             Commit(p, r, reply)
      PROVE  TypeOK' /\ Bound'
  <2>1. op' \in [Ops -> OpState]
    BY <1>5, <1>t, EndedType DEF Commit
  <2>2. outbox' \in [Events -> Row]
    BY <1>5, <1>t, SMT DEF Commit, Row, RowStates
  <2>3. head' \in [Tenants -> HeadRow]
    BY <1>5, <1>t DEF Commit, OpState
  <2> QED
    BY <1>5, <1>t, <2>1, <2>2, <2>3 DEF Commit, Release, TypeOK, Bound, deliveryVars, Ended
<1>6. ASSUME NEW p \in Ops, NEW r \in Results, Rollback(p, r)
      PROVE  TypeOK' /\ Bound'
  BY <1>6, <1>u DEF Rollback
<1>7. ASSUME NEW p \in Ops, Abort(p)
      PROVE  TypeOK' /\ Bound'
  BY <1>7, <1>u DEF Abort
<1>8. ASSUME NEW t \in Tenants, NEW e \in Events, NEW ok \in BOOLEAN, AdmitAlone(t, e, ok)
      PROVE  TypeOK' /\ Bound'
  BY <1>8, <1>t, <1>a DEF AdmitAlone, TypeOK, Bound, deliveryVars
<1>9. ASSUME NEW w \in Workers, NEW e \in Events, Claim(w, e)
      PROVE  TypeOK' /\ Bound'
  <2>1. PICK d \in Skews : outbox' = [outbox EXCEPT
                 ![e].state = "leased", ![e].attempts = outbox[e].attempts + 1,
                 ![e].token = minted[e] + 1, ![e].timer = Lease + d]
    BY <1>9 DEF Claim
  <2>2. Lease + d \in Nat
    BY ConstantsAssumption, SMT DEF Skews
  <2> QED BY <1>9, <1>t, <2>1, <2>2, SMT DEF Claim, TypeOK, Bound, operationVars, Row, RowStates, WorkerState
<1>10. ASSUME NEW w \in Workers, NEW e \in Events, ClaimExhausted(w, e)
      PROVE  TypeOK' /\ Bound'
  BY <1>10, <1>t, SMT DEF ClaimExhausted, TypeOK, Bound, operationVars, Row, RowStates
<1>11. ASSUME NEW w \in Workers, DeliverCheck(w)
      PROVE  TypeOK' /\ Bound'
  <2>1. worker' = [worker EXCEPT ![w] = Idle] \/ \E pc \in {"ack", "fail"} : Step(w, pc)
    BY <1>11 DEF DeliverCheck
  <2>2. CASE worker' = [worker EXCEPT ![w] = Idle]
    BY <1>11, <1>t, <1>i, <2>2 DEF DeliverCheck, TypeOK, Bound, operationVars, Idle
  <2>3. ASSUME NEW pc \in {"ack", "fail"}, Step(w, pc) PROVE TypeOK' /\ Bound'
    <3>1. worker' = [worker EXCEPT ![w] = [worker[w] EXCEPT !.pc = pc]]
      BY <2>3 DEF Step
    <3>2. /\ [worker[w] EXCEPT !.pc = pc] \in WorkerState
          /\ [worker[w] EXCEPT !.pc = pc].event = worker[w].event
          /\ [worker[w] EXCEPT !.pc = pc].attempts = worker[w].attempts
      <4>1. worker[w] \in WorkerState
        BY <1>t
      <4> QED BY <4>1 DEF WorkerState
    <3>3. worker[w].event \in Events /\ worker[w].attempts > 0
      BY <1>11 DEF DeliverCheck, Bound
    <3> QED BY <1>11, <1>t, <3>1, <3>2, <3>3 DEF DeliverCheck, TypeOK, Bound, operationVars
  <2> QED BY <2>1, <2>2, <2>3
<1>12. ASSUME NEW w \in Workers, NEW pc \in {"idle", "fail"}, DeliverAck(w, pc)
      PROVE  TypeOK' /\ Bound'
  <2>1. worker[w].event \in Events
    BY <1>12 DEF DeliverAck, Bound
  <2> DEFINE e == worker[w].event
             t == outbox[e].tenant
             row == [outbox[e] EXCEPT !.state = "delivered", !.token = 0, !.timer = 0]
             h == [head[t] EXCEPT !.pending = IF @ > 0 THEN @ - 1 ELSE @]
  <2>a. row \in Row
    BY <1>t, <2>1, RowUpdate DEF RowStates
  <2>b. outbox' = [outbox EXCEPT ![e] = row]
    BY <1>12, <1>t, <2>1 DEF DeliverAck
  <2>2. outbox' \in [Events -> Row]
    BY <1>t, <2>1, <2>a, <2>b
  <2>c. ASSUME t \in Tenants PROVE h \in HeadRow
    BY <1>t, <2>c, SMT DEF HeadRow
  <2>d. head' = [head EXCEPT ![t] = h]
    BY <1>12, <1>t, <2>1 DEF DeliverAck
  <2>3. head' \in [Tenants -> HeadRow]
    BY <1>t, <2>c, <2>d
  <2>4. worker' \in [Workers -> WorkerState]
    <3>1. worker[w] \in WorkerState /\ [worker[w] EXCEPT !.pc = "fail"] \in WorkerState
      <4>1. worker[w] \in WorkerState
        BY <1>t
      <4> QED BY <4>1 DEF WorkerState
    <3> QED BY <1>12, <1>t, <1>i, <3>1 DEF DeliverAck
  <2>5. \A v \in Workers : worker'[v].pc # "idle" =>
          worker'[v].event \in Events /\ worker'[v].attempts > 0
    <3>1. worker'[w] = Idle \/ worker'[w] = [worker[w] EXCEPT !.pc = "fail"]
      BY <1>12, <1>t DEF DeliverAck
    <3>2. worker'[w].pc # "idle" => worker'[w].event \in Events /\ worker'[w].attempts > 0
      BY <1>12, <1>t, <3>1, SMT DEF DeliverAck, Bound, WorkerState, Idle
    <3>3. \A v \in Workers \ {w} : worker'[v] = worker[v]
      BY <1>12, <1>t DEF DeliverAck
    <3> QED BY <3>2, <3>3 DEF Bound
  <2> QED
    BY <1>12, <1>t, <2>1, <2>2, <2>3, <2>4, <2>5 DEF DeliverAck, TypeOK, Bound
<1>13. ASSUME NEW w \in Workers, DeliverError(w)
      PROVE  TypeOK' /\ Bound'
  BY <1>13, <1>t DEF DeliverError, Step, TypeOK, Bound, operationVars, WorkerState
<1>14. ASSUME NEW w \in Workers, FailClaim(w)
      PROVE  TypeOK' /\ Bound'
  <2>1. worker[w].event \in Events /\ worker[w].attempts \in Nat \ {0}
    BY <1>14, <1>t, SMT DEF FailClaim, Bound, WorkerState
  <2>2. Backoff(worker[w].attempts) \in Nat
    BY <2>1, BackoffType
  <2> DEFINE c == worker[w]
             last == c.attempts >= MaxAttempts
             row == [outbox[c.event] EXCEPT !.state = IF last THEN "dead" ELSE "pending",
                        !.token = 0, !.timer = IF last THEN 0 ELSE Backoff(c.attempts)]
  <2>a. row \in Row
    BY <1>t, <2>1, <2>2, RowUpdate DEF RowStates
  <2>b. outbox' = [outbox EXCEPT ![c.event] = row] \/ outbox' = outbox
    BY <1>14, <1>t, <2>1 DEF FailClaim
  <2>3. outbox' \in [Events -> Row]
    BY <1>t, <2>1, <2>a, <2>b
  <2> QED
    BY <1>14, <1>t, <1>i, <2>3 DEF FailClaim, TypeOK, Bound, operationVars, Idle
<1>15. ASSUME NEW w \in Workers, Crash(w)
      PROVE  TypeOK' /\ Bound'
  BY <1>15, <1>t, <1>i DEF Crash, TypeOK, Bound, operationVars, Idle
<1>16. ASSUME NEW e \in Events, RequeueDead(e)
      PROVE  TypeOK' /\ Bound'
  <2> DEFINE row == [outbox[e] EXCEPT !.state = "pending", !.attempts = 0, !.timer = 0]
  <2>1. row \in Row
    BY <1>t, RowUpdate DEF RowStates
  <2>2. outbox' = [outbox EXCEPT ![e] = row]
    BY <1>16, <1>t DEF RequeueDead
  <2>3. outbox' \in [Events -> Row]
    BY <1>t, <2>1, <2>2
  <2> QED
    BY <1>16, <1>t, <2>3, SMT DEF RequeueDead, TypeOK, Bound, operationVars
<1>17. CASE Tick
  <2>1. ASSUME NEW e \in Events
        PROVE  [outbox[e] EXCEPT !.timer = IF @ > 0 THEN @ - 1 ELSE 0] \in Row
    BY <1>t, SMT DEF Row
  <2>2. outbox' \in [Events -> Row]
    BY <1>17, <1>t, <2>1 DEF Tick
  <2> QED
    BY <1>17, <1>t, <2>2 DEF Tick, TypeOK, Bound, operationVars
<1>18. CASE UNCHANGED vars
  BY <1>18, <1>t DEF vars, TypeOK, Bound
<1> QED
  BY <1>1, <1>2, <1>3, <1>4, <1>5, <1>6, <1>7, <1>8, <1>9, <1>10, <1>11, <1>12,
     <1>13, <1>14, <1>15, <1>16, <1>17, <1>18 DEF Next, Operation, Dispatch

\* Type correctness of the outbox: every row, head, claim and operation that
\* Admit, Claim, Deliver and FailClaim leave behind is well formed.
THEOREM TypeCorrect == Spec => []TypeOK
<1>1. Init => TypeOK /\ Bound
  BY TypeInit
<1>2. TypeOK /\ Bound /\ [Next]_vars => (TypeOK /\ Bound)'
  BY TypeNext
<1> QED
  BY <1>1, <1>2, PTL DEF Spec

(***************************************************************************)
(* The inductive invariant.  View(t) is the head of t as the transaction   *)
(* that holds its lock left it, Live(t) the rows that head counts and      *)
(* All(t) the rows it chains: the committed ones and that transaction's    *)
(* own.  Between transactions they are head[t], Outstanding(t) and the     *)
(* committed rows; a commit installs them, a rollback drops them, so       *)
(* neither has to be counted.                                              *)
(***************************************************************************)
View(t) == IF lock[t] = None THEN head[t] ELSE op[lock[t]].head

Live(t) == Rows(t, Undelivered \cup {"staged"})

All(t) == Rows(t, Committed \cup {"staged"})

\* A head is locked by the one running operation whose rows are staged on it.
Locked ==
    /\ \A t \in Tenants : lock[t] # None => op[lock[t]].running /\ op[lock[t]].tenant = t
    /\ \A p \in Ops : \A e \in op[p].staged :
         /\ op[p].running /\ lock[op[p].tenant] = p
         /\ outbox[e].state = "staged" /\ outbox[e].tenant = op[p].tenant
    /\ \A e \in Events : outbox[e].state = "staged" =>
         /\ outbox[e].tenant \in Tenants /\ lock[outbox[e].tenant] # None
         /\ e \in op[lock[outbox[e].tenant]].staged
    /\ \A e \in Events : outbox[e].state \in Committed => outbox[e].tenant \in Tenants

Counted ==
    \A t \in Tenants :
        /\ View(t).pending = Cardinality(Live(t)) /\ View(t).pending <= MaxPending
        /\ head[t].pending = Cardinality(Outstanding(t)) /\ head[t].pending <= MaxPending

Chained ==
    \A t \in Tenants :
        /\ IsChain(outbox, All(t), View(t))
        /\ IsChain(outbox, Rows(t, Committed), head[t])

\* Tokens identify claims: none is newer than the last one minted, no two
\* workers share one, and a worker past Deliver's check has the row's.
Leased ==
    /\ \A e \in Events : outbox[e].token <= minted[e]
    /\ \A w \in Workers : worker[w].pc # "idle" => worker[w].token <= minted[worker[w].event]
    /\ \A w \in Workers : worker[w].pc = "ack" =>
         /\ outbox[worker[w].event].state = "leased"
         /\ outbox[worker[w].event].token = worker[w].token
    /\ \A v, w \in Workers :
         worker[v].pc # "idle" /\ worker[w].pc # "idle" /\ v # w =>
            worker[v].event # worker[w].event \/ worker[v].token # worker[w].token

\* What every step of a worker but the ACK, of the operator and of the clock
\* leaves alone: heads, operations, the log, and all of a row but its delivery
\* status.
Quiet ==
    /\ UNCHANGED <<head, lock, op, log>>
    /\ \A e \in Events :
         /\ outbox'[e].tenant = outbox[e].tenant
         /\ outbox'[e].seq = outbox[e].seq
         /\ outbox'[e].prev = outbox[e].prev
         /\ outbox'[e].success = outbox[e].success
         /\ \/ outbox'[e].state = outbox[e].state
            \/ outbox[e].state \in Undelivered /\ outbox'[e].state \in Undelivered

QuietStep ==
    \/ \E w \in Workers, e \in Events : Claim(w, e) \/ ClaimExhausted(w, e)
    \/ \E w \in Workers : DeliverCheck(w) \/ DeliverError(w) \/ FailClaim(w) \/ Crash(w)
    \/ \E e \in Events : RequeueDead(e)
    \/ Tick
    \/ UNCHANGED vars

LEMMA QuietSteps == TypeOK /\ Bound /\ QuietStep => Quiet
<1> SUFFICES ASSUME TypeOK, Bound, QuietStep PROVE Quiet
  OBVIOUS
<1>t. outbox \in [Events -> Row] /\ \A e \in Events : outbox[e] \in Row
  BY DEF TypeOK
<1>r. ASSUME NEW e \in Events, NEW row, outbox' = [outbox EXCEPT ![e] = row],
             row.tenant = outbox[e].tenant, row.seq = outbox[e].seq,
             row.prev = outbox[e].prev, row.success = outbox[e].success, outbox[e].state \in Undelivered,
             row.state \in Undelivered, UNCHANGED <<head, lock, op, log>>
      PROVE  Quiet
  BY <1>r, <1>t DEF Quiet
<1>1. ASSUME NEW w \in Workers, NEW e \in Events, Claim(w, e)
      PROVE  Quiet
  <2>4. PICK d \in Skews : outbox' = [outbox EXCEPT
                 ![e].state = "leased", ![e].attempts = outbox[e].attempts + 1,
                 ![e].token = minted[e] + 1, ![e].timer = Lease + d]
    BY <1>1 DEF Claim
  <2> DEFINE row == [outbox[e] EXCEPT !.state = "leased", !.attempts = outbox[e].attempts + 1,
                                      !.token = minted[e] + 1, !.timer = Lease + d]
  <2>1. outbox' = [outbox EXCEPT ![e] = row]
    BY <2>4, <1>t
  <2>2. row.tenant = outbox[e].tenant /\ row.seq = outbox[e].seq
        /\ row.prev = outbox[e].prev /\ row.success = outbox[e].success /\ row.state = "leased"
    BY <1>t DEF Row
  <2>3. outbox[e].state \in Undelivered /\ UNCHANGED <<head, lock, op, log>>
    BY <1>1 DEF Claim, Claimable, Undelivered, operationVars
  <2> QED
    BY <1>r, <2>1, <2>2, <2>3 DEF Undelivered
<1>2. ASSUME NEW w \in Workers, NEW e \in Events, ClaimExhausted(w, e)
      PROVE  Quiet
  <2> DEFINE row == [outbox[e] EXCEPT !.state = "dead", !.attempts = @ + 1,
                                      !.token = minted[e] + 1]
  <2>1. outbox' = [outbox EXCEPT ![e] = row]
    BY <1>2, <1>t DEF ClaimExhausted
  <2>2. row.tenant = outbox[e].tenant /\ row.seq = outbox[e].seq
        /\ row.prev = outbox[e].prev /\ row.success = outbox[e].success /\ row.state = "dead"
    BY <1>t DEF Row
  <2>3. outbox[e].state \in Undelivered /\ UNCHANGED <<head, lock, op, log>>
    BY <1>2 DEF ClaimExhausted, Claimable, Undelivered, operationVars
  <2> QED
    BY <1>r, <2>1, <2>2, <2>3 DEF Undelivered
<1>3. ASSUME NEW w \in Workers, FailClaim(w)
      PROVE  Quiet
  <2> DEFINE c == worker[w]
             last == c.attempts >= MaxAttempts
             row == [outbox[c.event] EXCEPT !.state = IF last THEN "dead" ELSE "pending",
                        !.token = 0, !.timer = IF last THEN 0 ELSE Backoff(c.attempts)]
  <2>0. c.event \in Events /\ UNCHANGED <<head, lock, op, log>>
    BY <1>3 DEF FailClaim, Bound, operationVars
  <2>1. CASE outbox' = outbox
    BY <2>0, <2>1 DEF Quiet
  <2>2. CASE outbox[c.event].state = "leased" /\ outbox' = [outbox EXCEPT ![c.event] = row]
    <3>1. row.tenant = outbox[c.event].tenant /\ row.seq = outbox[c.event].seq
          /\ row.prev = outbox[c.event].prev /\ row.success = outbox[c.event].success
          /\ row.state \in {"dead", "pending"}
      BY <1>t, <2>0 DEF Row
    <3> QED
      BY <1>r, <2>0, <2>2, <3>1 DEF Undelivered
  <2> QED
    BY <1>3, <1>t, <2>0, <2>1, <2>2 DEF FailClaim
<1>4. ASSUME NEW e \in Events, RequeueDead(e)
      PROVE  Quiet
  <2> DEFINE row == [outbox[e] EXCEPT !.state = "pending", !.attempts = 0, !.timer = 0]
  <2>1. outbox' = [outbox EXCEPT ![e] = row]
    BY <1>4, <1>t DEF RequeueDead
  <2>2. row.tenant = outbox[e].tenant /\ row.seq = outbox[e].seq
        /\ row.prev = outbox[e].prev /\ row.success = outbox[e].success /\ row.state = "pending"
    BY <1>t DEF Row
  <2>3. outbox[e].state \in Undelivered /\ UNCHANGED <<head, lock, op, log>>
    BY <1>4 DEF RequeueDead, Undelivered, operationVars
  <2> QED
    BY <1>r, <2>1, <2>2, <2>3 DEF Undelivered
<1>5. CASE Tick
  BY <1>5, <1>t DEF Tick, Quiet, operationVars, Row
<1>6. ASSUME NEW w \in Workers, DeliverCheck(w) \/ DeliverError(w) \/ Crash(w)
      PROVE  Quiet
  BY <1>6 DEF DeliverCheck, DeliverError, Crash, Quiet, operationVars
<1>7. CASE UNCHANGED vars
  BY <1>7 DEF vars, Quiet
<1> QED
  BY <1>1, <1>2, <1>3, <1>4, <1>5, <1>6, <1>7 DEF QuietStep

\* A quiet step changes no set of rows that keeps the undelivered ones together.
LEMMA QuietRows ==
    ASSUME Quiet, NEW t, NEW S, Undelivered \subseteq S \/ Undelivered \cap S = {}
    PROVE  Rows(t, S)' = Rows(t, S)
  BY DEF Quiet, Rows

\* What the ACK of Deliver does to the row it is about, and to no other.
LEMMA AckRow ==
    ASSUME TypeOK, Bound, NEW w \in Workers, NEW pc, DeliverAck(w, pc)
    PROVE  LET e == worker[w].event
           IN  /\ outbox'[e].state = "delivered" /\ outbox'[e].tenant = outbox[e].tenant
               /\ outbox'[e].seq = outbox[e].seq /\ outbox'[e].prev = outbox[e].prev
               /\ outbox'[e].token = 0 /\ outbox'[e].success = outbox[e].success
               /\ \A f \in Events \ {e} : outbox'[f] = outbox[f]
               /\ lock' = lock /\ op' = op /\ minted' = minted
<1> DEFINE e == worker[w].event
           row == [outbox[e] EXCEPT !.state = "delivered", !.token = 0, !.timer = 0]
<1>1. e \in Events /\ outbox \in [Events -> Row]
  BY DEF DeliverAck, Bound, TypeOK
<1>2. outbox' = [outbox EXCEPT ![e] = row]
  BY <1>1 DEF DeliverAck
<1>3. /\ row.state = "delivered" /\ row.tenant = outbox[e].tenant /\ row.token = 0
      /\ row.seq = outbox[e].seq /\ row.prev = outbox[e].prev
      /\ row.success = outbox[e].success
  BY <1>1 DEF Row
<1>4. lock' = lock /\ op' = op /\ minted' = minted
  BY DEF DeliverAck
<1> QED
  BY <1>1, <1>2, <1>3, <1>4

\* The steps of Next that are not quiet, for the proofs below to go through.
LEMMA NextCases ==
    ASSUME [Next]_vars
    PROVE  \/ QuietStep
           \/ \E p \in Ops, t \in Tenants : Begin(p, t)
           \/ \E p \in Ops, e \in Events, ok \in BOOLEAN : Admit(p, e, ok)
           \/ \E p \in Ops : AdmitFull(p)
           \/ \E p \in Ops : AdmitError(p)
           \/ \E p \in Ops, r \in Results, reply \in Results \cup {"unavailable"} :
                Commit(p, r, reply)
           \/ \E p \in Ops, reply \in Results \cup {"unavailable"} :
                op[p].running /\ Undo(p, reply)
           \/ \E t \in Tenants, e \in Events, ok \in BOOLEAN : AdmitAlone(t, e, ok)
           \/ \E w \in Workers, pc \in {"idle", "fail"} : DeliverAck(w, pc)
<1>1. ASSUME NEW p \in Ops, NEW r \in Results, Rollback(p, r)
      PROVE  \E reply \in Results \cup {"unavailable"} : op[p].running /\ Undo(p, reply)
  BY <1>1 DEF Rollback
<1>2. ASSUME NEW p \in Ops, Abort(p)
      PROVE  \E reply \in Results \cup {"unavailable"} : op[p].running /\ Undo(p, reply)
  BY <1>2 DEF Abort
<1> QED
  BY <1>1, <1>2 DEF Next, Operation, Dispatch, QuietStep

LEMMA LockedInit == Init => Locked
  BY SMT DEF Init, Locked, Ended, NoRow, Committed

LEMMA LockedNext == TypeOK /\ Bound /\ Leased /\ Locked /\ [Next]_vars => Locked'
<1> SUFFICES ASSUME TypeOK, Bound, Leased, Locked, [Next]_vars PROVE Locked'
  OBVIOUS
<1> USE ConstantsAssumption
<1>t. /\ head \in [Tenants -> HeadRow]
      /\ lock \in [Tenants -> Ops \cup {None}]
      /\ outbox \in [Events -> Row]
      /\ op \in [Ops -> OpState]
      /\ \A p \in Ops : op[p].staged \subseteq Events
  BY DEF TypeOK, OpState
<1>1. CASE QuietStep
  <2>1. Quiet
    BY <1>1, QuietSteps
  <2> QED
    BY <1>t, <2>1, SMT DEF Quiet, Locked, Undelivered, Committed
<1>2. ASSUME NEW p \in Ops, NEW t \in Tenants, Begin(p, t)
      PROVE  Locked'
  BY <1>2, <1>t, SMT DEF Begin, Locked, Ended, deliveryVars
<1>3. ASSUME NEW p \in Ops, NEW e \in Events, NEW ok \in BOOLEAN, Admit(p, e, ok)
      PROVE  Locked'
  <2>1. op[p].tenant \in Tenants /\ op[p] \in OpState
    BY <1>3, <1>t DEF Admit, Bound
  <2>2. /\ op'[p].running = op[p].running /\ op'[p].tenant = op[p].tenant
        /\ op'[p].staged = op[p].staged \cup {e}
        /\ \A q \in Ops \ {p} : op'[q] = op[q]
    BY <1>3, <1>t, <2>1 DEF Admit, OpState
  <2>3. /\ outbox'[e].state = "staged" /\ outbox'[e].tenant = op[p].tenant
        /\ \A f \in Events \ {e} : outbox'[f] = outbox[f]
        /\ outbox[e].state = "none"
    BY <1>3, <1>t DEF Admit, NewRow
  <2>4. /\ \A t \in Tenants : lock'[t] = IF t = op[p].tenant THEN p ELSE lock[t]
        /\ lock[op[p].tenant] \in {p, None} /\ op[p].running
    BY <1>3, <1>t, <2>1 DEF Admit, CanLock
  <2>5. (\A t \in Tenants : lock[t] # None => op[lock[t]].running /\ op[lock[t]].tenant = t)'
    <3> SUFFICES ASSUME NEW t \in Tenants, lock'[t] # None
                 PROVE  op'[lock'[t]].running /\ op'[lock'[t]].tenant = t
      OBVIOUS
    <3>1. CASE t = op[p].tenant
      BY <3>1, <2>2, <2>4
    <3>2. CASE t # op[p].tenant
      <4>1. lock'[t] = lock[t] /\ lock[t] \in Ops
        BY <1>t, <2>4, <3>2
      <4>2. op[lock[t]].running /\ op[lock[t]].tenant = t
        BY <4>1 DEF Locked
      <4> QED
        BY <2>2, <4>1, <4>2
    <3> QED
      BY <3>1, <3>2
  <2>6. (\A q \in Ops : \A f \in op[q].staged :
           /\ op[q].running /\ lock[op[q].tenant] = q
           /\ outbox[f].state = "staged" /\ outbox[f].tenant = op[q].tenant)'
    <3> SUFFICES ASSUME NEW q \in Ops, NEW f \in op'[q].staged
                 PROVE  /\ op'[q].running /\ lock'[op'[q].tenant] = q
                        /\ outbox'[f].state = "staged" /\ outbox'[f].tenant = op'[q].tenant
      OBVIOUS
    <3>1. CASE f = e
      <4>1. q = p
        BY <1>t, <2>2, <2>3, <3>1, SMT DEF Locked
      <4> QED
        BY <2>1, <2>2, <2>3, <2>4, <3>1, <4>1
    <3>2. CASE f # e
      <4>1. f \in op[q].staged /\ f \in Events
        BY <1>t, <2>2, <3>2, SMT
      <4>2. /\ op[q].running /\ lock[op[q].tenant] = q /\ op[q].tenant \in Tenants
            /\ outbox[f].state = "staged" /\ outbox[f].tenant = op[q].tenant
        BY <4>1 DEF Locked, Bound
      <4>3. op'[q].running /\ op'[q].tenant = op[q].tenant /\ outbox'[f] = outbox[f]
        BY <2>2, <2>3, <3>2, <4>1, <4>2
      <4> QED
        BY <2>4, <4>2, <4>3, SMT
    <3> QED
      BY <3>1, <3>2
  <2>7. (\A f \in Events : outbox[f].state = "staged" =>
           /\ outbox[f].tenant \in Tenants /\ lock[outbox[f].tenant] # None
           /\ f \in op[lock[outbox[f].tenant]].staged)'
    BY <1>t, <2>1, <2>2, <2>3, <2>4, SMT DEF Locked
  <2>8. (\A f \in Events : outbox[f].state \in Committed => outbox[f].tenant \in Tenants)'
    BY <1>t, <2>1, <2>3, SMT DEF Locked, Committed
  <2> QED
    BY <2>5, <2>6, <2>7, <2>8 DEF Locked
<1>4. ASSUME NEW p \in Ops, AdmitFull(p)
      PROVE  Locked'
  <2>1. op[p].tenant \in Tenants /\ op[p] \in OpState
    BY <1>4, <1>t DEF AdmitFull, Bound
  <2>2. /\ op'[p].running = op[p].running /\ op'[p].tenant = op[p].tenant
        /\ op'[p].staged = op[p].staged
        /\ \A q \in Ops \ {p} : op'[q] = op[q]
    BY <1>4, <1>t, <2>1 DEF AdmitFull, OpState
  <2>3. /\ \A t \in Tenants : lock'[t] = IF t = op[p].tenant THEN p ELSE lock[t]
        /\ lock[op[p].tenant] \in {p, None} /\ op[p].running /\ outbox' = outbox
    BY <1>4, <1>t, <2>1 DEF AdmitFull, CanLock
  <2>4. ASSUME NEW t \in Tenants, lock'[t] # None
        PROVE  op'[lock'[t]].running /\ op'[lock'[t]].tenant = t
    <3>1. CASE t = op[p].tenant
      BY <3>1, <2>2, <2>3
    <3>2. CASE t # op[p].tenant
      <4>1. lock'[t] = lock[t] /\ lock[t] \in Ops
        BY <1>t, <2>3, <2>4, <3>2
      <4>2. op[lock[t]].running /\ op[lock[t]].tenant = t
        BY <4>1 DEF Locked
      <4> QED
        BY <2>2, <4>1, <4>2, SMT
    <3> QED
      BY <3>1, <3>2
  <2>5. ASSUME NEW q \in Ops, NEW f \in op'[q].staged
        PROVE  /\ op'[q].running /\ lock'[op'[q].tenant] = q
               /\ outbox'[f].state = "staged" /\ outbox'[f].tenant = op'[q].tenant
    <3>1. f \in op[q].staged
      BY <2>2
    <3>2. /\ op[q].running /\ lock[op[q].tenant] = q /\ op[q].tenant \in Tenants
          /\ outbox[f].state = "staged" /\ outbox[f].tenant = op[q].tenant
      BY <3>1 DEF Locked, Bound
    <3>3. op'[q].running /\ op'[q].tenant = op[q].tenant
      BY <2>2, <3>2
    <3> QED
      BY <2>3, <3>2, <3>3, SMT
  <2>6. ASSUME NEW f \in Events, outbox'[f].state = "staged"
        PROVE  /\ outbox'[f].tenant \in Tenants /\ lock'[outbox'[f].tenant] # None
               /\ f \in op'[lock'[outbox'[f].tenant]].staged
    BY <1>t, <2>1, <2>2, <2>3, <2>6, SMT DEF Locked
  <2> QED
    BY <2>3, <2>4, <2>5, <2>6 DEF Locked
<1>5. ASSUME NEW p \in Ops, AdmitError(p)
      PROVE  Locked'
  <2>1. /\ op'[p].running = op[p].running /\ op'[p].tenant = op[p].tenant
        /\ op'[p].staged = op[p].staged
        /\ \A q \in Ops \ {p} : op'[q] = op[q]
    BY <1>5, <1>t DEF AdmitError, OpState
  <2>2. lock' = lock /\ outbox' = outbox
    BY <1>5 DEF AdmitError
  <2> QED
    BY <1>t, <2>1, <2>2, SMT DEF Locked
<1>e. ASSUME NEW p \in Ops, NEW reply, Release(p), op' = [op EXCEPT ![p] = Ended(reply)],
             \A e \in Events : /\ e \notin op[p].staged => outbox'[e] = outbox[e]
                               /\ e \in op[p].staged => outbox'[e].state # "staged"
                               /\ outbox'[e].state \in Committed => outbox'[e].tenant \in Tenants
      PROVE  Locked'
  <2>1. /\ ~op'[p].running /\ op'[p].staged = {}
        /\ \A q \in Ops \ {p} : op'[q] = op[q]
    BY <1>e, <1>t DEF Ended
  <2>2. \A t \in Tenants : lock'[t] = IF lock[t] = p THEN None ELSE lock[t]
    BY <1>e, <1>t DEF Release
  <2>3. lock' \in [Tenants -> Ops \cup {None}]
    BY <1>e, <1>t DEF Release
  <2>4. (\A t \in Tenants : lock[t] # None => op[lock[t]].running /\ op[lock[t]].tenant = t)'
    BY <1>t, <2>1, <2>2, <2>3, SMT DEF Locked
  <2>5. (\A q \in Ops : \A f \in op[q].staged :
           /\ op[q].running /\ lock[op[q].tenant] = q
           /\ outbox[f].state = "staged" /\ outbox[f].tenant = op[q].tenant)'
    <3> SUFFICES ASSUME NEW q \in Ops, NEW f \in op'[q].staged
                 PROVE  /\ op'[q].running /\ lock'[op'[q].tenant] = q
                        /\ outbox'[f].state = "staged" /\ outbox'[f].tenant = op'[q].tenant
      OBVIOUS
    <3>1. q # p /\ op'[q] = op[q]
      BY <2>1
    <3>2. /\ op[q].running /\ lock[op[q].tenant] = q /\ op[q].tenant \in Tenants
          /\ outbox[f].state = "staged" /\ outbox[f].tenant = op[q].tenant /\ f \in Events
      BY <1>t, <3>1 DEF Locked, Bound
    <3>3. f \notin op[p].staged
      BY <3>1, <3>2, SMT DEF Locked
    <3> QED
      BY <1>e, <2>2, <3>1, <3>2, <3>3, SMT
  <2>6. (\A f \in Events : outbox[f].state = "staged" =>
           /\ outbox[f].tenant \in Tenants /\ lock[outbox[f].tenant] # None
           /\ f \in op[lock[outbox[f].tenant]].staged)'
    <3> SUFFICES ASSUME NEW f \in Events, outbox'[f].state = "staged"
                 PROVE  /\ outbox'[f].tenant \in Tenants /\ lock'[outbox'[f].tenant] # None
                        /\ f \in op'[lock'[outbox'[f].tenant]].staged
      OBVIOUS
    <3>1. f \notin op[p].staged /\ outbox'[f] = outbox[f]
      BY <1>e
    <3>2. /\ outbox[f].tenant \in Tenants /\ lock[outbox[f].tenant] \in Ops
          /\ f \in op[lock[outbox[f].tenant]].staged
      BY <1>t, <3>1, SMT DEF Locked
    <3> QED
      BY <2>1, <2>2, <3>1, <3>2, SMT
  <2> QED
    BY <1>e, <2>4, <2>5, <2>6 DEF Locked
<1>6. ASSUME NEW p \in Ops, NEW r \in Results, NEW reply \in Results \cup {"unavailable"},
             Commit(p, r, reply)
      PROVE  Locked'
  <2>1. ASSUME NEW e \in Events
        PROVE  /\ e \notin op[p].staged => outbox'[e] = outbox[e]
               /\ e \in op[p].staged => outbox'[e].state # "staged"
               /\ outbox'[e].state \in Committed => outbox'[e].tenant \in Tenants
    BY <1>6, <1>t, SMT DEF Commit, Locked, Row, Bound
  <2> QED
    BY <1>6, <1>e, <2>1 DEF Commit
<1>7. ASSUME NEW p \in Ops, NEW reply, Undo(p, reply)
      PROVE  Locked'
  <2>1. ASSUME NEW e \in Events
        PROVE  /\ e \notin op[p].staged => outbox'[e] = outbox[e]
               /\ e \in op[p].staged => outbox'[e].state # "staged"
               /\ outbox'[e].state \in Committed => outbox'[e].tenant \in Tenants
    BY <1>7, <1>t DEF Undo, Locked, NoRow, Committed
  <2> QED
    BY <1>7, <1>e, <2>1 DEF Undo
<1>8. ASSUME NEW t \in Tenants, NEW e \in Events, NEW ok \in BOOLEAN, AdmitAlone(t, e, ok)
      PROVE  Locked'
  <2>1. /\ outbox'[e].state = "pending" /\ outbox'[e].tenant = t /\ outbox[e].state = "none"
        /\ \A f \in Events \ {e} : outbox'[f] = outbox[f]
        /\ lock' = lock /\ op' = op
    BY <1>8, <1>t DEF AdmitAlone, NewRow
  <2> QED
    BY <1>t, <2>1, SMT DEF Locked
<1>9. ASSUME NEW w \in Workers, NEW pc \in {"idle", "fail"}, DeliverAck(w, pc)
      PROVE  Locked'
  <2> DEFINE e == worker[w].event
  <2>1. e \in Events /\ outbox[e].state = "leased"
    BY <1>9 DEF DeliverAck, Bound, Leased
  <2>2. /\ outbox'[e].state = "delivered" /\ outbox'[e].tenant = outbox[e].tenant
        /\ \A f \in Events \ {e} : outbox'[f] = outbox[f]
        /\ lock' = lock /\ op' = op
    BY <1>9, AckRow
  <2> QED
    BY <1>t, <2>1, <2>2, SMT DEF Locked, Committed
<1> QED
  BY NextCases, <1>1, <1>2, <1>3, <1>4, <1>5, <1>6, <1>7, <1>8, <1>9

LEMMA LeasedInit == Init => Leased
  BY SMT DEF Init, Leased, NoRow, Idle

LEMMA LeasedNext == TypeOK /\ Bound /\ Locked /\ Leased /\ [Next]_vars => Leased'
<1> SUFFICES ASSUME TypeOK, Bound, Locked, Leased, [Next]_vars PROVE Leased'
  OBVIOUS
<1> USE ConstantsAssumption
<1>t. /\ outbox \in [Events -> Row] /\ minted \in [Events -> Nat]
      /\ worker \in [Workers -> WorkerState] /\ op \in [Ops -> OpState]
      /\ \A e \in Events : outbox[e].token \in Nat
      /\ \A w \in Workers : worker[w].token \in Nat
      /\ \A w \in Workers : worker[w].pc # "idle" => worker[w].event \in Events
  BY DEF TypeOK, Bound, Row, WorkerState
\* Operations neither claim nor touch a leased row.
<1>o. ASSUME UNCHANGED deliveryVars,
             \A e \in Events : /\ outbox'[e].token <= minted[e]
                               /\ outbox[e].state = "leased" => outbox'[e] = outbox[e]
      PROVE  Leased'
  BY <1>o, <1>t DEF Leased, deliveryVars
\* A worker that moves without a new claim and leaves the table alone.
<1>w. ASSUME NEW w \in Workers, UNCHANGED <<outbox, minted>>,
             NEW c, worker' = [worker EXCEPT ![w] = c],
             \/ c = Idle
             \/ /\ worker[w].pc # "idle" /\ c.event = worker[w].event
                /\ c.token = worker[w].token
                /\ c.pc = "ack" => \E d \in Skews : LeaseHeld(w, d)
      PROVE  Leased'
  BY <1>w, <1>t, SMT DEF Leased, Idle, LeaseHeld
<1>1. ASSUME NEW w \in Workers, NEW e \in Events, Claim(w, e)
      PROVE  Leased'
  <2>1. /\ worker[w].pc = "idle" /\ outbox' \in [Events -> Row]
        /\ outbox'[e].token = minted[e] + 1 /\ outbox'[e].state = "leased"
        /\ \A f \in Events \ {e} : outbox'[f] = outbox[f]
        /\ minted' = [minted EXCEPT ![e] = @ + 1]
        /\ worker'[w].pc = "deliver" /\ worker'[w].event = e /\ worker'[w].token = minted[e] + 1
        /\ \A v \in Workers \ {w} : worker'[v] = worker[v]
    BY <1>1, <1>t, SMT DEF Claim, Row, RowStates
  <2>2. \A v \in Workers : worker[v].pc = "ack" => worker[v].event # e
    BY <1>1 DEF Claim, Claimable, RowLocked
  <2> QED
    BY <1>t, <2>1, <2>2, SMT DEF Leased
<1>2. ASSUME NEW w \in Workers, NEW e \in Events, ClaimExhausted(w, e)
      PROVE  Leased'
  <2>1. /\ outbox'[e].token = minted[e] + 1 /\ worker' = worker
        /\ \A f \in Events \ {e} : outbox'[f] = outbox[f]
        /\ minted' = [minted EXCEPT ![e] = @ + 1]
    BY <1>2, <1>t, SMT DEF ClaimExhausted, Row
  <2>2. \A v \in Workers : worker[v].pc = "ack" => worker[v].event # e
    BY <1>2 DEF ClaimExhausted, Claimable, RowLocked
  <2> QED
    BY <1>t, <2>1, <2>2, SMT DEF Leased
<1>3. ASSUME NEW w \in Workers, DeliverCheck(w)
      PROVE  Leased'
  <2>1. CASE worker' = [worker EXCEPT ![w] = Idle]
    BY <1>3, <1>w, <2>1 DEF DeliverCheck
  <2>2. CASE (\E d \in Skews : LeaseHeld(w, d)) /\ Step(w, "ack")
    <3> DEFINE c == [worker[w] EXCEPT !.pc = "ack"]
    <3>1. worker' = [worker EXCEPT ![w] = c] /\ UNCHANGED <<outbox, minted>> /\ worker[w].pc # "idle"
      BY <1>3, <2>2 DEF DeliverCheck, Step
    <3>2. c.event = worker[w].event /\ c.token = worker[w].token
      BY <1>t DEF WorkerState
    <3> HIDE DEF c
    <3> QED BY <1>w, <2>2, <3>1, <3>2
  <2>3. CASE Step(w, "fail")
    BY <1>3, <1>w, <1>t, <2>3 DEF DeliverCheck, Step, WorkerState
  <2> QED
    BY <1>3, <2>1, <2>2, <2>3 DEF DeliverCheck
<1>4. ASSUME NEW w \in Workers, NEW pc \in {"idle", "fail"}, DeliverAck(w, pc)
      PROVE  Leased'
  <2> DEFINE e == worker[w].event
  <2>1. /\ e \in Events /\ worker[w].pc = "ack" /\ outbox'[e].token = 0 /\ minted' = minted
        /\ \A f \in Events \ {e} : outbox'[f] = outbox[f]
    BY <1>4, <1>t, AckRow DEF DeliverAck
  <2>2. /\ \A v \in Workers \ {w} : worker'[v] = worker[v]
        /\ worker'[w].pc # "ack"
        /\ worker'[w].pc # "idle" => worker'[w].event = e /\ worker'[w].token = worker[w].token
    BY <1>4, <1>t, SMT DEF DeliverAck, WorkerState, Idle
  <2>3. \A v \in Workers \ {w} : worker[v].pc = "ack" => worker[v].event # e
    BY <1>t, <2>1, SMT DEF Leased
  <2> QED
    BY <1>t, <2>1, <2>2, <2>3, SMT DEF Leased
<1>5. ASSUME NEW w \in Workers, DeliverError(w)
      PROVE  Leased'
  BY <1>5, <1>w, <1>t DEF DeliverError, Step, WorkerState
<1>6. ASSUME NEW w \in Workers, FailClaim(w)
      PROVE  Leased'
  <2> DEFINE e == worker[w].event
  <2>1. /\ e \in Events /\ minted' = minted /\ worker' = [worker EXCEPT ![w] = Idle]
        /\ \A v \in Workers : worker[v].pc = "ack" => worker[v].event # e
    BY <1>6, <1>t DEF FailClaim, RowLocked
  <2>2. /\ \A f \in Events \ {e} : outbox'[f] = outbox[f]
        /\ outbox'[e].token \in {0, outbox[e].token}
    BY <1>6, <1>t, <2>1, SMT DEF FailClaim, Row
  <2> QED
    BY <1>t, <2>1, <2>2, SMT DEF Leased, Idle
<1>7. ASSUME NEW w \in Workers, Crash(w)
      PROVE  Leased'
  BY <1>7, <1>w DEF Crash
<1>8. ASSUME NEW e \in Events, RequeueDead(e)
      PROVE  Leased'
  <2>1. /\ outbox[e].state = "dead" /\ outbox'[e].token = outbox[e].token
        /\ \A f \in Events \ {e} : outbox'[f] = outbox[f]
        /\ minted' = minted /\ worker' = worker
    BY <1>8, <1>t, SMT DEF RequeueDead, Row
  <2> QED
    BY <1>t, <2>1 DEF Leased
<1>9. CASE Tick
  <2>1. /\ \A e \in Events : outbox'[e].token = outbox[e].token /\ outbox'[e].state = outbox[e].state
        /\ minted' = minted /\ worker' = worker
    BY <1>9, <1>t, SMT DEF Tick, Row
  <2> QED
    BY <1>t, <2>1 DEF Leased
<1>10. CASE UNCHANGED vars
  BY <1>10 DEF vars, Leased
<1>11. ASSUME NEW p \in Ops, NEW t \in Tenants, Begin(p, t)
       PROVE  Leased'
  BY <1>11, <1>o DEF Begin, Leased
<1>12. ASSUME NEW p \in Ops, NEW e \in Events, NEW ok \in BOOLEAN, Admit(p, e, ok)
       PROVE  Leased'
  <2>1. /\ outbox[e].state = "none" /\ outbox'[e].token = 0
        /\ \A f \in Events \ {e} : outbox'[f] = outbox[f]
    BY <1>12, <1>t DEF Admit, NewRow
  <2> QED
    BY <1>12, <1>o, <1>t, <2>1, SMT DEF Admit, Leased
<1>13. ASSUME NEW p \in Ops, AdmitFull(p) \/ AdmitError(p)
       PROVE  Leased'
  BY <1>13, <1>o DEF AdmitFull, AdmitError, Leased
<1>14. ASSUME NEW p \in Ops, NEW r, NEW reply, Commit(p, r, reply)
       PROVE  Leased'
  <2>1. ASSUME NEW e \in Events
        PROVE  /\ outbox'[e].token <= minted[e]
               /\ outbox[e].state = "leased" => outbox'[e] = outbox[e]
    BY <1>14, <1>t, SMT DEF Commit, Leased, Locked, Row
  <2> QED
    BY <1>14, <1>o, <2>1 DEF Commit
<1>15. ASSUME NEW p \in Ops, NEW reply, Undo(p, reply)
       PROVE  Leased'
  <2>1. ASSUME NEW e \in Events
        PROVE  /\ outbox'[e].token <= minted[e]
               /\ outbox[e].state = "leased" => outbox'[e] = outbox[e]
    BY <1>15, <1>t, SMT DEF Undo, Leased, Locked, NoRow
  <2> QED
    BY <1>15, <1>o, <2>1 DEF Undo
<1>16. ASSUME NEW t \in Tenants, NEW e \in Events, NEW ok \in BOOLEAN, AdmitAlone(t, e, ok)
       PROVE  Leased'
  <2>1. /\ outbox[e].state = "none" /\ outbox'[e].token = 0
        /\ \A f \in Events \ {e} : outbox'[f] = outbox[f]
    BY <1>16, <1>t DEF AdmitAlone, NewRow
  <2> QED
    BY <1>16, <1>o, <1>t, <2>1, SMT DEF AdmitAlone, Leased
<1> QED
  BY NextCases, <1>1, <1>2, <1>3, <1>4, <1>5, <1>6, <1>7, <1>8, <1>9, <1>10, <1>11,
     <1>12, <1>13, <1>14, <1>15, <1>16 DEF QuietStep

LEMMA LoggedNext ==
    TypeOK /\ Bound /\ Locked /\ Leased /\ DeliveredIffLogged /\ [Next]_vars
        => DeliveredIffLogged'
<1> SUFFICES ASSUME TypeOK, Bound, Locked, Leased, DeliveredIffLogged, [Next]_vars,
                    NEW e \in Events
             PROVE  e \in log' <=> outbox'[e].state = "delivered"
  BY DEF DeliveredIffLogged
<1>d. e \in log <=> outbox[e].state = "delivered"
  BY DEF DeliveredIffLogged
<1>t. outbox \in [Events -> Row] /\ op \in [Ops -> OpState]
  BY DEF TypeOK
<1>1. CASE QuietStep
  <2>1. log' = log
    BY <1>1 DEF QuietStep, Claim, ClaimExhausted, DeliverCheck, DeliverError, FailClaim,
                Crash, RequeueDead, Tick, vars
  <2>2. Quiet
    BY <1>1, QuietSteps
  <2> QED
    BY <1>d, <2>1, <2>2 DEF Quiet, Undelivered
<1>2. ASSUME NEW p \in Ops, (\E t \in Tenants : Begin(p, t)) \/ AdmitFull(p) \/ AdmitError(p)
      PROVE  e \in log' <=> outbox'[e].state = "delivered"
  BY <1>2, <1>d DEF Begin, AdmitFull, AdmitError, deliveryVars
<1>3. ASSUME NEW p \in Ops, NEW f \in Events, NEW ok \in BOOLEAN, Admit(p, f, ok)
      PROVE  e \in log' <=> outbox'[e].state = "delivered"
  BY <1>3, <1>d, <1>t DEF Admit, NewRow, deliveryVars
<1>4. ASSUME NEW p \in Ops, NEW r, NEW reply, Commit(p, r, reply)
      PROVE  e \in log' <=> outbox'[e].state = "delivered"
  BY <1>4, <1>d, <1>t, SMT DEF Commit, Locked, Row, deliveryVars
<1>5. ASSUME NEW p \in Ops, NEW reply, Undo(p, reply)
      PROVE  e \in log' <=> outbox'[e].state = "delivered"
  BY <1>5, <1>d, <1>t DEF Undo, Locked, NoRow, deliveryVars
<1>6. ASSUME NEW t \in Tenants, NEW f \in Events, NEW ok \in BOOLEAN, AdmitAlone(t, f, ok)
      PROVE  e \in log' <=> outbox'[e].state = "delivered"
  BY <1>6, <1>d, <1>t DEF AdmitAlone, NewRow, deliveryVars
<1>7. ASSUME NEW w \in Workers, NEW pc \in {"idle", "fail"}, DeliverAck(w, pc)
      PROVE  e \in log' <=> outbox'[e].state = "delivered"
  <2>1. log' = log \cup {worker[w].event}
    BY <1>7 DEF DeliverAck
  <2>2. /\ outbox'[worker[w].event].state = "delivered"
        /\ \A f \in Events \ {worker[w].event} : outbox'[f] = outbox[f]
    BY <1>7, AckRow
  <2> QED
    BY <1>d, <2>1, <2>2
<1> QED
  BY NextCases, <1>1, <1>2, <1>3, <1>4, <1>5, <1>6, <1>7

\* Insert and ACK are one: an event is in audit_logs exactly when its outbox
\* row is delivered, for any number of workers, crashes and reclaimed leases.
THEOREM LoggedExactlyOnce == Spec => []DeliveredIffLogged
<1> DEFINE IInv == TypeOK /\ Bound /\ Locked /\ Leased /\ DeliveredIffLogged
<1>1. Init => IInv
  <2>1. Init => DeliveredIffLogged
    BY SMT DEF Init, DeliveredIffLogged, NoRow
  <2> QED
    BY <2>1, TypeInit, LockedInit, LeasedInit
<1>2. IInv /\ [Next]_vars => IInv'
  BY TypeNext, LockedNext, LeasedNext, LoggedNext
<1> QED
  BY <1>1, <1>2, PTL DEF Spec

LEMMA FencedNext ==
    TypeOK /\ Bound /\ Locked /\ Leased /\ [Next]_vars => [FencedStep]_vars
<1> SUFFICES ASSUME TypeOK, Bound, Locked, Leased, [Next]_vars, NEW e \in Events,
                    outbox[e].state \in {"delivered", "leased"}
             PROVE  \/ SameButTimer(outbox[e], outbox'[e])
                    \/ /\ outbox[e].state = "leased"
                       /\ \/ /\ outbox[e].timer <= MaxSkew /\ outbox'[e].state # "delivered"
                             /\ outbox'[e].token > outbox[e].token
                          \/ \E w \in Workers : /\ worker[w].event = e
                                                /\ worker[w].token = outbox[e].token
                                                /\ worker[w].pc \in {"ack", "fail"}
                                                /\ worker'[w].pc \in {"idle", "fail"}
  BY DEF FencedStep
<1> DEFINE Goal ==
             \/ SameButTimer(outbox[e], outbox'[e])
             \/ /\ outbox[e].state = "leased"
                /\ \/ /\ outbox[e].timer <= MaxSkew /\ outbox'[e].state # "delivered"
                      /\ outbox'[e].token > outbox[e].token
                   \/ \E w \in Workers : /\ worker[w].event = e
                                         /\ worker[w].token = outbox[e].token
                                         /\ worker[w].pc \in {"ack", "fail"}
                                         /\ worker'[w].pc \in {"idle", "fail"}
<1>t. /\ outbox \in [Events -> Row] /\ outbox[e] \in Row /\ minted \in [Events -> Nat]
      /\ op \in [Ops -> OpState] /\ worker \in [Workers -> WorkerState]
  BY DEF TypeOK
<1>s. ASSUME outbox'[e] = outbox[e] PROVE SameButTimer(outbox[e], outbox'[e])
  BY <1>s, <1>t DEF SameButTimer, Row
<1>1. ASSUME NEW w \in Workers, NEW f \in Events, Claim(w, f)
      PROVE  Goal
  <2>1. CASE f # e
    BY <1>1, <1>s, <1>t, <2>1 DEF Claim
  <2>2. CASE f = e
    <3>1. outbox[e].state = "leased" /\ outbox[e].timer <= MaxSkew
      <4>1. outbox[e].state = "leased" /\ \E d \in Skews : outbox[e].timer <= d
        BY <1>1, <2>2 DEF Claim, Claimable
      <4> QED BY <1>t, <4>1, ConstantsAssumption, SMT DEF Skews, Row
    <3>2. outbox'[e].state = "leased" /\ outbox'[e].token = minted[e] + 1
      <4>1. PICK d \in Skews : outbox' = [outbox EXCEPT
                     ![e].state = "leased", ![e].attempts = outbox[e].attempts + 1,
                     ![e].token = minted[e] + 1, ![e].timer = Lease + d]
        BY <1>1, <2>2 DEF Claim
      <4> QED BY <1>t, <4>1, SMT DEF Row
    <3> QED
      BY <1>t, <3>1, <3>2, SMT DEF Leased, Row
  <2> QED
    BY <2>1, <2>2
<1>2. ASSUME NEW w \in Workers, NEW f \in Events, ClaimExhausted(w, f)
      PROVE  Goal
  <2>1. CASE f # e
    BY <1>2, <1>s, <1>t, <2>1 DEF ClaimExhausted
  <2>2. CASE f = e
    <3>1. outbox[e].state = "leased" /\ outbox[e].timer <= MaxSkew
      <4>1. outbox[e].state = "leased" /\ \E d \in Skews : outbox[e].timer <= d
        BY <1>2, <2>2 DEF ClaimExhausted, Claimable
      <4> QED BY <1>t, <4>1, ConstantsAssumption, SMT DEF Skews, Row
    <3>2. outbox'[e].state = "dead" /\ outbox'[e].token = minted[e] + 1
      BY <1>2, <1>t, <2>2 DEF ClaimExhausted, Row
    <3> QED
      BY <1>t, <3>1, <3>2, SMT DEF Leased, Row
  <2> QED
    BY <2>1, <2>2
<1>3. ASSUME NEW w \in Workers, DeliverCheck(w) \/ DeliverError(w) \/ Crash(w)
      PROVE  Goal
  BY <1>3, <1>s DEF DeliverCheck, DeliverError, Crash
<1>4. ASSUME NEW w \in Workers, FailClaim(w)
      PROVE  Goal
  <2>1. CASE worker[w].event # e
    BY <1>4, <1>s, <1>t, <2>1 DEF FailClaim
  <2>2. CASE worker[w].event = e /\ ~(outbox[e].state = "leased" /\ outbox[e].token = worker[w].token)
    BY <1>4, <1>s, <2>2 DEF FailClaim
  <2>3. CASE worker[w].event = e /\ outbox[e].state = "leased" /\ outbox[e].token = worker[w].token
    BY <1>4, <1>t, <2>3 DEF FailClaim, Idle
  <2> QED
    BY <2>1, <2>2, <2>3
<1>5. ASSUME NEW w \in Workers, NEW pc \in {"idle", "fail"}, DeliverAck(w, pc)
      PROVE  Goal
  <2>1. CASE worker[w].event # e
    BY <1>5, <1>s, <2>1, AckRow
  <2>2. CASE worker[w].event = e
    <3>1. worker[w].pc = "ack" /\ worker'[w].pc \in {"idle", "fail"}
      BY <1>5, <1>t DEF DeliverAck, WorkerState, Idle
    <3>2. outbox[e].state = "leased" /\ outbox[e].token = worker[w].token
      BY <2>2, <3>1 DEF Leased
    <3> QED
      BY <2>2, <3>1, <3>2
  <2> QED
    BY <2>1, <2>2
<1>6. ASSUME NEW f \in Events, RequeueDead(f)
      PROVE  Goal
  BY <1>6, <1>s, <1>t DEF RequeueDead
<1>7. CASE Tick
  <2>1. outbox'[e] = [outbox[e] EXCEPT !.timer = IF @ > 0 THEN @ - 1 ELSE 0]
    BY <1>7 DEF Tick
  <2> QED
    BY <1>t, <2>1 DEF SameButTimer, Row
<1>8. CASE UNCHANGED vars
  BY <1>8, <1>s DEF vars
<1>9. ASSUME NEW p \in Ops, (\E t \in Tenants : Begin(p, t)) \/ AdmitFull(p) \/ AdmitError(p)
      PROVE  Goal
  BY <1>9, <1>s DEF Begin, AdmitFull, AdmitError
<1>10. ASSUME NEW p \in Ops, NEW f \in Events, NEW ok \in BOOLEAN, Admit(p, f, ok)
       PROVE  Goal
  BY <1>10, <1>s, <1>t DEF Admit
<1>11. ASSUME NEW p \in Ops, NEW r, NEW reply, Commit(p, r, reply)
       PROVE  Goal
  BY <1>11, <1>s DEF Commit, Locked
<1>12. ASSUME NEW p \in Ops, NEW reply, Undo(p, reply)
       PROVE  Goal
  BY <1>12, <1>s DEF Undo, Locked
<1>13. ASSUME NEW t \in Tenants, NEW f \in Events, NEW ok \in BOOLEAN, AdmitAlone(t, f, ok)
       PROVE  Goal
  BY <1>13, <1>s, <1>t DEF AdmitAlone
<1> QED
  BY NextCases, <1>1, <1>2, <1>3, <1>4, <1>5, <1>6, <1>7, <1>8, <1>9, <1>10, <1>11,
     <1>12, <1>13 DEF QuietStep

\* Lease tokens fence, however far clocks are apart: only the holder of a row's
\* token, or Claim once the lease has run out by some replica's clock, ever takes
\* a leased row away, and delivered is final.
THEOREM LeasesFence == Spec => Fenced
<1> DEFINE IInv == TypeOK /\ Bound /\ Locked /\ Leased
<1>1. Init => IInv
  BY TypeInit, LockedInit, LeasedInit
<1>2. IInv /\ [Next]_vars => IInv'
  BY TypeNext, LockedNext, LeasedNext
<1>3. IInv /\ [Next]_vars => [FencedStep]_vars
  BY FencedNext
<1> QED
  BY <1>1, <1>2, <1>3, PTL DEF Spec, Fenced

-----------------------------------------------------------------------------
(* The pending counters and the hash chains *)

(***************************************************************************)
(* How the row sets move.  X is Undelivered or Committed.                  *)
(***************************************************************************)
LEMMA NoStaged ==
    ASSUME Locked, NEW t \in Tenants, lock[t] = None, NEW X
    PROVE  Rows(t, X \cup {"staged"}) = Rows(t, X)
  BY SMT DEF Locked, Rows

\* Admit adds its event to the rows the locking operation sees.
LEMMA AdmitRows ==
    ASSUME TypeOK, NEW p \in Ops, NEW e \in Events, NEW ok, Admit(p, e, ok),
           NEW t \in Tenants, NEW X, "none" \notin X, "staged" \notin X
    PROVE  /\ Rows(t, X)' = Rows(t, X)
           /\ t = op[p].tenant => Rows(t, X \cup {"staged"})' = Rows(t, X \cup {"staged"}) \cup {e}
           /\ t # op[p].tenant => Rows(t, X \cup {"staged"})' = Rows(t, X \cup {"staged"})
           /\ e \notin Rows(t, X \cup {"staged"})
<1>1. /\ outbox[e].state = "none"
      /\ outbox'[e].state = "staged" /\ outbox'[e].tenant = op[p].tenant
      /\ \A f \in Events \ {e} : outbox'[f] = outbox[f]
  BY DEF Admit, NewRow, TypeOK
<1> QED
  BY <1>1 DEF Rows

LEMMA AdmitAloneRows ==
    ASSUME TypeOK, NEW t \in Tenants, NEW e \in Events, NEW ok, AdmitAlone(t, e, ok),
           NEW u \in Tenants, NEW X, "none" \notin X, "pending" \in X
    PROVE  /\ u = t => Rows(u, X)' = Rows(u, X) \cup {e}
           /\ u # t => Rows(u, X)' = Rows(u, X)
           /\ e \notin Rows(u, X)
<1>1. /\ outbox[e].state = "none"
      /\ outbox'[e].state = "pending" /\ outbox'[e].tenant = t
      /\ \A f \in Events \ {e} : outbox'[f] = outbox[f]
  BY DEF AdmitAlone, NewRow, TypeOK
<1> QED
  BY <1>1 DEF Rows

\* A commit installs what its transaction saw.
LEMMA CommitRows ==
    ASSUME TypeOK, Locked, NEW p \in Ops, NEW r, NEW reply, Commit(p, r, reply),
           NEW t \in Tenants, NEW X, "staged" \notin X, "pending" \in X
    PROVE  /\ lock[t] = p => Rows(t, X)' = Rows(t, X \cup {"staged"})
           /\ lock[t] # p => Rows(t, X)' = Rows(t, X)
           /\ Rows(t, X \cup {"staged"})' = Rows(t, X \cup {"staged"})
<1>1. ASSUME NEW e \in Events
      PROVE  /\ outbox'[e].tenant = outbox[e].tenant
             /\ e \notin op[p].staged => outbox'[e].state = outbox[e].state
             /\ e \in op[p].staged => outbox[e].state = "staged" /\ outbox'[e].state = "pending"
  BY SMT DEF Commit, TypeOK, Row, Locked
<1>2. ASSUME NEW e \in Events, outbox[e].tenant = t
      PROVE  /\ lock[t] = p /\ outbox[e].state = "staged" => e \in op[p].staged
             /\ lock[t] # p => e \notin op[p].staged
  BY <1>2, SMT DEF Locked
<1> QED
  BY <1>1, <1>2 DEF Rows

\* A rollback drops them.
LEMMA UndoRows ==
    ASSUME TypeOK, Locked, NEW p \in Ops, NEW reply, Undo(p, reply),
           NEW t \in Tenants, NEW X, "staged" \notin X, "none" \notin X
    PROVE  /\ Rows(t, X)' = Rows(t, X)
           /\ lock[t] = p => Rows(t, X \cup {"staged"})' = Rows(t, X)
           /\ lock[t] # p => Rows(t, X \cup {"staged"})' = Rows(t, X \cup {"staged"})
<1>1. ASSUME NEW e \in Events
      PROVE  /\ e \notin op[p].staged => outbox'[e] = outbox[e]
             /\ e \in op[p].staged => outbox[e].state = "staged" /\ outbox'[e].state = "none"
  BY DEF Undo, TypeOK, NoRow, Locked
<1>2. ASSUME NEW e \in Events, outbox[e].tenant = t
      PROVE  /\ lock[t] = p /\ outbox[e].state = "staged" => e \in op[p].staged
             /\ lock[t] # p => e \notin op[p].staged
  BY <1>2, SMT DEF Locked
<1> QED
  BY <1>1, <1>2 DEF Rows

(***************************************************************************)
(* How View moves.                                                         *)
(***************************************************************************)
LEMMA AdmitView ==
    ASSUME TypeOK, Bound, Locked, NEW p \in Ops, NEW e \in Events, NEW ok, Admit(p, e, ok),
           NEW t \in Tenants
    PROVE  /\ t = op[p].tenant => View(t)' = Advance(View(t), e) /\ View(t).pending < MaxPending
           /\ t # op[p].tenant => View(t)' = View(t)
           /\ head' = head /\ op[p].tenant \in Tenants
<1> USE ConstantsAssumption
<1>1. /\ op[p].tenant \in Tenants /\ lock[op[p].tenant] \in {p, None}
      /\ lock' = [lock EXCEPT ![op[p].tenant] = p] /\ head' = head
      /\ HeadSeen(p).pending < MaxPending /\ lock \in [Tenants -> Ops \cup {None}]
  BY DEF Admit, Bound, CanLock, TypeOK
<1>2. op'[p].head = Advance(HeadSeen(p), e) /\ \A q \in Ops \ {p} : op'[q] = op[q]
  BY SMT DEF Admit, TypeOK, OpState
<1>3. HeadSeen(p) = View(op[p].tenant)
  BY <1>1 DEF HeadSeen, View
<1>4. CASE t = op[p].tenant
  BY <1>1, <1>2, <1>3, <1>4 DEF View
<1>5. CASE t # op[p].tenant
  <2>1. lock'[t] = lock[t] /\ lock[t] # p
    BY <1>1, <1>5, SMT DEF Locked
  <2> QED
    BY <1>1, <1>2, <1>5, <2>1 DEF View
<1> QED
  BY <1>1, <1>4, <1>5

\* Steps of an operation that neither admit nor end it leave every View alone.
LEMMA OtherView ==
    ASSUME TypeOK, Bound, Locked, NEW p \in Ops, NEW t \in Tenants,
           (\E u \in Tenants : Begin(p, u)) \/ AdmitFull(p) \/ AdmitError(p)
    PROVE  View(t)' = View(t) /\ head' = head /\ outbox' = outbox
<1> USE ConstantsAssumption
<1>t. lock \in [Tenants -> Ops \cup {None}] /\ op \in [Ops -> OpState]
  BY DEF TypeOK
<1>1. ASSUME NEW u \in Tenants, Begin(p, u)
      PROVE  View(t)' = View(t) /\ head' = head /\ outbox' = outbox
  <2>1. ~op[p].running /\ lock' = lock /\ head' = head /\ outbox' = outbox
    BY <1>1 DEF Begin
  <2>2. \A q \in Ops \ {p} : op'[q] = op[q]
    BY <1>1, <1>t DEF Begin
  <2>3. lock[t] # p
    BY <2>1 DEF Locked
  <2> QED
    BY <1>t, <2>1, <2>2, <2>3 DEF View
<1>2. CASE AdmitFull(p)
  <2>1. /\ op[p].tenant \in Tenants /\ lock[op[p].tenant] \in {p, None}
        /\ lock' = [lock EXCEPT ![op[p].tenant] = p]
    BY <1>2 DEF AdmitFull, Bound, CanLock
  <2>2. op'[p].head = HeadSeen(p) /\ \A q \in Ops \ {p} : op'[q] = op[q]
    BY <1>2, <1>t DEF AdmitFull, OpState
  <2>3. HeadSeen(p) = View(op[p].tenant)
    BY <2>1 DEF HeadSeen, View
  <2>4. CASE t = op[p].tenant
    BY <1>2, <1>t, <2>1, <2>2, <2>3, <2>4 DEF View, AdmitFull
  <2>5. CASE t # op[p].tenant
    <3>1. lock'[t] = lock[t] /\ lock[t] # p
      BY <1>t, <2>1, <2>5, SMT DEF Locked
    <3> QED
      BY <1>2, <1>t, <2>2, <3>1 DEF View, AdmitFull
  <2> QED
    BY <2>4, <2>5
<1>3. CASE AdmitError(p)
  <2>1. lock' = lock /\ op'[p].head = op[p].head /\ \A q \in Ops \ {p} : op'[q] = op[q]
    BY <1>3, <1>t DEF AdmitError, OpState
  <2> QED
    BY <1>3, <1>t, <2>1 DEF AdmitError, View
<1> QED
  BY <1>1, <1>2, <1>3

\* The end of an operation: heads it locked are View, or what they were.
LEMMA EndView ==
    ASSUME TypeOK, NEW p \in Ops, NEW reply, Release(p), op' = [op EXCEPT ![p] = Ended(reply)],
           NEW t \in Tenants
    PROVE  /\ lock[t] = p => View(t)' = head'[t]
           /\ lock[t] # p /\ head'[t] = head[t] => View(t)' = View(t)
<1>1. lock'[t] = (IF lock[t] = p THEN None ELSE lock[t]) /\ lock[t] \in Ops \cup {None}
  BY DEF Release, TypeOK
<1>2. \A q \in Ops \ {p} : op'[q] = op[q]
  BY DEF TypeOK
<1> QED
  BY <1>1, <1>2, ConstantsAssumption, SMT DEF View

\* Row sets are finite, and cardinality counts single additions and removals.
LEMMA RowsFinite ==
    ASSUME NEW t, NEW X
    PROVE  IsFiniteSet(Rows(t, X)) /\ Cardinality(Rows(t, X)) \in Nat
<1>1. Rows(t, X) \subseteq Events /\ IsFiniteSet(Events)
  BY ConstantsAssumption DEF Rows
<1> QED
  BY <1>1, FS_Subset, FS_CardinalityType

LEMMA CountedInit == Init => Counted
<1> SUFFICES ASSUME Init, NEW t \in Tenants
             PROVE  /\ View(t) = NoHead /\ head[t] = NoHead
                    /\ Live(t) = {} /\ Outstanding(t) = {}
  BY FS_EmptySet, ConstantsAssumption, SMT DEF Counted, NoHead
<1> QED
  BY DEF Init, View, Live, Outstanding, Rows, NoRow, Undelivered

LEMMA CountedNext ==
    TypeOK /\ Bound /\ Locked /\ Leased /\ Counted /\ [Next]_vars => Counted'
<1> SUFFICES ASSUME TypeOK, Bound, Locked, Leased, Counted, [Next]_vars,
                    NEW t \in Tenants
             PROVE  (/\ View(t).pending = Cardinality(Live(t)) /\ View(t).pending <= MaxPending
                     /\ head[t].pending = Cardinality(Outstanding(t))
                     /\ head[t].pending <= MaxPending)'
  BY DEF Counted
<1> USE ConstantsAssumption
<1> DEFINE Goal == (/\ View(t).pending = Cardinality(Live(t)) /\ View(t).pending <= MaxPending
                    /\ head[t].pending = Cardinality(Outstanding(t))
                    /\ head[t].pending <= MaxPending)'
           S == Undelivered \cup {"staged"}
<1>c. /\ View(t).pending = Cardinality(Rows(t, S)) /\ View(t).pending <= MaxPending
      /\ head[t].pending = Cardinality(Rows(t, Undelivered)) /\ head[t].pending <= MaxPending
  BY DEF Counted, Live, Outstanding
<1>n. /\ "none" \notin Undelivered /\ "staged" \notin Undelivered /\ "pending" \in Undelivered
      /\ "none" \notin S /\ "pending" \in S /\ Undelivered \subseteq S
  BY DEF Undelivered
<1>f. /\ IsFiniteSet(Rows(t, S)) /\ Cardinality(Rows(t, S)) \in Nat
      /\ IsFiniteSet(Rows(t, Undelivered)) /\ Cardinality(Rows(t, Undelivered)) \in Nat
  BY RowsFinite
<1>g. ASSUME View(t)' = View(t), head'[t] = head[t], Rows(t, S)' = Rows(t, S),
             Rows(t, Undelivered)' = Rows(t, Undelivered)
      PROVE  Goal
  BY <1>c, <1>g DEF Live, Outstanding
<1>1. CASE QuietStep
  <2>1. Quiet
    BY <1>1, QuietSteps
  <2>2. Rows(t, S)' = Rows(t, S) /\ Rows(t, Undelivered)' = Rows(t, Undelivered)
    BY <1>n, <2>1, QuietRows
  <2>3. View(t)' = View(t) /\ head'[t] = head[t]
    BY <2>1 DEF Quiet, View
  <2> QED
    BY <1>g, <2>2, <2>3
<1>2. ASSUME NEW p \in Ops, (\E u \in Tenants : Begin(p, u)) \/ AdmitFull(p) \/ AdmitError(p)
      PROVE  Goal
  <2>1. View(t)' = View(t) /\ head' = head /\ outbox' = outbox
    BY <1>2, OtherView
  <2> QED
    BY <1>g, <2>1 DEF Rows
<1>3. ASSUME NEW p \in Ops, NEW e \in Events, NEW ok \in BOOLEAN, Admit(p, e, ok)
      PROVE  Goal
  <2>1. /\ Rows(t, Undelivered)' = Rows(t, Undelivered)
        /\ t = op[p].tenant => Rows(t, S)' = Rows(t, S) \cup {e}
        /\ t # op[p].tenant => Rows(t, S)' = Rows(t, S)
        /\ e \notin Rows(t, S)
    BY <1>3, <1>n, AdmitRows
  <2>2. /\ t = op[p].tenant => View(t)' = Advance(View(t), e) /\ View(t).pending < MaxPending
        /\ t # op[p].tenant => View(t)' = View(t)
        /\ head' = head
    BY <1>3, AdmitView
  <2>3. CASE t = op[p].tenant
    <3>1. Cardinality(Rows(t, S) \cup {e}) = Cardinality(Rows(t, S)) + 1
      BY <1>f, <2>1, FS_AddElement
    <3>2. View(t)'.pending = View(t).pending + 1 /\ View(t).pending < MaxPending
      BY <2>2, <2>3, SMT DEF Advance
    <3>3. Live(t)' = Rows(t, S) \cup {e} /\ Outstanding(t)' = Rows(t, Undelivered)
      BY <2>1, <2>3 DEF Live, Outstanding
    <3>4. View(t)'.pending = Cardinality(Live(t)') /\ View(t)'.pending <= MaxPending
      BY <1>c, <1>f, <3>1, <3>2, <3>3, SMT
    <3>5. head'[t].pending = Cardinality(Outstanding(t)') /\ head'[t].pending <= MaxPending
      BY <1>c, <2>2, <3>3
    <3> QED
      BY <3>4, <3>5
  <2>4. CASE t # op[p].tenant
    BY <1>g, <2>1, <2>2, <2>4
  <2> QED
    BY <2>3, <2>4
<1>4. ASSUME NEW p \in Ops, NEW r \in Results, NEW reply \in Results \cup {"unavailable"},
             Commit(p, r, reply)
      PROVE  Goal
  <2>1. /\ lock[t] = p => Rows(t, Undelivered)' = Rows(t, S)
        /\ lock[t] # p => Rows(t, Undelivered)' = Rows(t, Undelivered)
        /\ Rows(t, S)' = Rows(t, S)
    BY <1>4, <1>n, CommitRows
  <2>2. /\ lock[t] = p => head'[t] = op[p].head /\ View(t) = op[p].head
        /\ lock[t] # p => head'[t] = head[t]
    BY <1>4 DEF Commit, View, TypeOK
  <2>3. /\ lock[t] = p => View(t)' = head'[t]
        /\ lock[t] # p /\ head'[t] = head[t] => View(t)' = View(t)
    BY <1>4, EndView DEF Commit
  <2> QED
    BY <1>c, <1>g, <2>1, <2>2, <2>3 DEF Live, Outstanding
<1>5. ASSUME NEW p \in Ops, NEW reply, Undo(p, reply)
      PROVE  Goal
  <2>1. /\ Rows(t, Undelivered)' = Rows(t, Undelivered)
        /\ lock[t] = p => Rows(t, S)' = Rows(t, Undelivered)
        /\ lock[t] # p => Rows(t, S)' = Rows(t, S)
    BY <1>5, <1>n, UndoRows
  <2>2. head' = head
    BY <1>5 DEF Undo
  <2>3. /\ lock[t] = p => View(t)' = head'[t]
        /\ lock[t] # p /\ head'[t] = head[t] => View(t)' = View(t)
    BY <1>5, EndView DEF Undo
  <2> QED
    BY <1>c, <1>g, <2>1, <2>2, <2>3 DEF Live, Outstanding
<1>6. ASSUME NEW u \in Tenants, NEW e \in Events, NEW ok \in BOOLEAN, AdmitAlone(u, e, ok)
      PROVE  Goal
  <2>1. /\ t = u => Rows(t, S)' = Rows(t, S) \cup {e}
        /\ t # u => Rows(t, S)' = Rows(t, S)
        /\ e \notin Rows(t, S)
    BY <1>6, <1>n, AdmitAloneRows
  <2>2. /\ t = u => Rows(t, Undelivered)' = Rows(t, Undelivered) \cup {e}
        /\ t # u => Rows(t, Undelivered)' = Rows(t, Undelivered)
        /\ e \notin Rows(t, Undelivered)
    BY <1>6, <1>n, AdmitAloneRows
  <2>3. /\ lock' = lock /\ op' = op /\ lock[u] = None /\ head[u].pending < MaxPending
        /\ head' = [head EXCEPT ![u] = Advance(head[u], e)] /\ head \in [Tenants -> HeadRow]
    BY <1>6 DEF AdmitAlone, TypeOK
  <2>4. CASE t = u
    <3>1. /\ Cardinality(Rows(t, S) \cup {e}) = Cardinality(Rows(t, S)) + 1
          /\ Cardinality(Rows(t, Undelivered) \cup {e}) = Cardinality(Rows(t, Undelivered)) + 1
      BY <1>f, <2>1, <2>2, FS_AddElement
    <3>2. View(t)' = head'[t] /\ View(t) = head[t] /\ head'[t].pending = head[t].pending + 1
      BY <2>3, <2>4 DEF View, Advance
    <3>3. Live(t)' = Rows(t, S) \cup {e} /\ Outstanding(t)' = Rows(t, Undelivered) \cup {e}
      BY <2>1, <2>2, <2>4 DEF Live, Outstanding
    <3>4. View(t)'.pending = Cardinality(Live(t)') /\ View(t)'.pending <= MaxPending
      BY <1>c, <1>f, <2>3, <2>4, <3>1, <3>2, <3>3, SMT
    <3>5. head'[t].pending = Cardinality(Outstanding(t)') /\ head'[t].pending <= MaxPending
      BY <1>c, <1>f, <2>3, <2>4, <3>1, <3>2, <3>3, SMT
    <3> QED
      BY <3>4, <3>5
  <2>5. CASE t # u
    <3>1. View(t)' = View(t) /\ head'[t] = head[t]
      BY <2>3, <2>5 DEF View
    <3> QED
      BY <1>g, <2>1, <2>2, <2>5, <3>1
  <2> QED
    BY <2>4, <2>5
<1>7. ASSUME NEW w \in Workers, NEW pc \in {"idle", "fail"}, DeliverAck(w, pc)
      PROVE  Goal
  <2> DEFINE e == worker[w].event
             u == outbox[e].tenant
  <2>1. e \in Events /\ outbox[e].state = "leased" /\ u \in Tenants /\ lock[u] = None
    BY <1>7 DEF DeliverAck, Bound, Leased, Locked, Committed
  <2>2. /\ outbox'[e].state = "delivered" /\ outbox'[e].tenant = u
        /\ \A f \in Events \ {e} : outbox'[f] = outbox[f]
        /\ lock' = lock /\ op' = op
    BY <1>7, AckRow
  <2>3. head' = [head EXCEPT ![u].pending = IF @ > 0 THEN @ - 1 ELSE @]
    BY <1>7 DEF DeliverAck
  <2>4. CASE t = u
    <3>1. Rows(t, S) = Rows(t, Undelivered) /\ View(t) = head[t] /\ View(t)' = head'[t]
      BY <2>1, <2>2, <2>4, NoStaged DEF View
    <3>2. /\ e \in Rows(t, Undelivered) /\ e \in Rows(t, S)
          /\ Rows(t, Undelivered)' = Rows(t, Undelivered) \ {e}
          /\ Rows(t, S)' = Rows(t, S) \ {e}
      BY <2>1, <2>2, <2>4, SMT DEF Rows, Undelivered
    <3>3. Cardinality(Rows(t, Undelivered) \ {e}) = Cardinality(Rows(t, Undelivered)) - 1
      BY <1>f, <3>2, FS_RemoveElement
    <3>4. Cardinality(Rows(t, Undelivered)) > 0
      BY <1>f, <3>2, FS_EmptySet, SMT
    <3>5. head'[t].pending = head[t].pending - 1
      BY <1>c, <2>3, <2>4, <3>4 DEF TypeOK, HeadRow
    <3>6. Live(t)' = Rows(t, Undelivered) \ {e} /\ Outstanding(t)' = Rows(t, Undelivered) \ {e}
      BY <3>1, <3>2 DEF Live, Outstanding
    <3>7. head'[t].pending = Cardinality(Outstanding(t)') /\ head'[t].pending <= MaxPending
      BY <1>c, <1>f, <3>3, <3>5, <3>6, SMT
    <3>8. View(t)'.pending = Cardinality(Live(t)') /\ View(t)'.pending <= MaxPending
      BY <3>1, <3>6, <3>7
    <3> QED
      BY <3>7, <3>8
  <2>5. CASE t # u
    <3>1. Rows(t, Undelivered)' = Rows(t, Undelivered) /\ Rows(t, S)' = Rows(t, S)
      BY <2>1, <2>2, <2>5, SMT DEF Rows
    <3>2. View(t)' = View(t) /\ head'[t] = head[t]
      BY <2>2, <2>3, <2>5 DEF View, TypeOK
    <3> QED
      BY <1>g, <3>1, <3>2
  <2> QED
    BY <2>4, <2>5
<1> QED
  BY NextCases, <1>1, <1>2, <1>3, <1>4, <1>5, <1>6, <1>7

(***************************************************************************)
(* The chain.                                                              *)
(***************************************************************************)
\* A chain is one of sequences and hashes; nothing else in its rows matters.
LEMMA ChainFrame ==
    ASSUME NEW ob, NEW nb, NEW R, NEW h, NEW g, IsChain(ob, R, h),
           g.seq = h.seq, g.hash = h.hash,
           \A e \in R : nb[e].seq = ob[e].seq /\ nb[e].prev = ob[e].prev
    PROVE  IsChain(nb, R, g)
  BY SMT DEF IsChain

\* In particular, a chain none of whose rows changed is still one.
LEMMA ChainKept ==
    ASSUME NEW ob, NEW nb, NEW R, NEW h, IsChain(ob, R, h),
           \A e \in R : nb[e].seq = ob[e].seq /\ nb[e].prev = ob[e].prev
    PROVE  IsChain(nb, R, h)
  BY ChainFrame

\* The row that NewRow puts behind head h continues the chain that ends there.
LEMMA ChainAppend ==
    ASSUME NEW ob, NEW nb, NEW R \in SUBSET Events, NEW h \in HeadRow, NEW e \in Events,
           IsChain(ob, R, h), e \notin R,
           \A f \in R : nb[f].seq = ob[f].seq /\ nb[f].prev = ob[f].prev,
           nb[e].seq = h.seq + 1, nb[e].prev = h.hash
    PROVE  IsChain(nb, R \cup {e}, Advance(h, e))
<1> DEFINE g == Advance(h, e)
           Q == R \cup {e}
<1>1. g.seq = h.seq + 1 /\ g.hash = e /\ h.seq \in Nat
  BY DEF Advance, HeadRow
<1>2. \A f \in R : nb[f].seq \in 1 .. h.seq /\ nb[f].seq # h.seq + 1
  BY <1>1, SMT DEF IsChain
<1>3. \A f \in Q : nb[f].seq \in 1 .. g.seq
  BY <1>1, <1>2, SMT
<1>4. \A n \in 1 .. g.seq : \E f \in Q : nb[f].seq = n
  <2> SUFFICES ASSUME NEW n \in 1 .. g.seq PROVE \E f \in Q : nb[f].seq = n
    OBVIOUS
  <2>1. CASE n = h.seq + 1
    BY <2>1
  <2>2. CASE n \in 1 .. h.seq
    BY <2>2, SMT DEF IsChain
  <2> QED
    BY <1>1, <2>1, <2>2, SMT
<1>5. \A f, k \in Q : nb[f].seq = nb[k].seq => f = k
  BY <1>2, SMT DEF IsChain
<1>6. ASSUME NEW f \in Q
      PROVE  IF nb[f].seq = 1 THEN nb[f].prev = Genesis
             ELSE nb[f].prev \in Q /\ nb[nb[f].prev].seq = nb[f].seq - 1
  <2>1. CASE f \in R
    BY <2>1, SMT DEF IsChain
  <2>2. CASE f = e
    BY <1>1, <2>2, SMT DEF IsChain
  <2> QED
    BY <2>1, <2>2
<1>7. g.seq # 0 /\ g.hash \in Q /\ nb[g.hash].seq = g.seq
  BY <1>1, SMT
<1> QED
  BY <1>3, <1>4, <1>5, <1>6, <1>7 DEF IsChain

LEMMA ChainedInit == Init => Chained
<1> SUFFICES ASSUME Init, NEW t \in Tenants
             PROVE  /\ View(t) = NoHead /\ head[t] = NoHead
                    /\ All(t) = {} /\ Rows(t, Committed) = {}
  BY SMT DEF Chained, IsChain, NoHead
<1> QED
  BY DEF Init, View, All, Rows, NoRow, Committed

LEMMA ChainedNext ==
    TypeOK /\ Bound /\ Locked /\ Leased /\ Chained /\ [Next]_vars => Chained'
<1> SUFFICES ASSUME TypeOK, Bound, Locked, Leased, Chained, [Next]_vars, NEW t \in Tenants
             PROVE  /\ IsChain(outbox', All(t)', View(t)')
                    /\ IsChain(outbox', Rows(t, Committed)', head'[t])
  BY DEF Chained
<1> USE ConstantsAssumption
<1> DEFINE S == Committed \cup {"staged"}
           Goal == /\ IsChain(outbox', Rows(t, S)', View(t)')
                   /\ IsChain(outbox', Rows(t, Committed)', head'[t])
<1> SUFFICES Goal
  BY DEF All
<1>c. IsChain(outbox, Rows(t, S), View(t)) /\ IsChain(outbox, Rows(t, Committed), head[t])
  BY DEF Chained, All
<1>n. /\ "none" \notin Committed /\ "staged" \notin Committed /\ "pending" \in Committed
      /\ "none" \notin S /\ "pending" \in S /\ Undelivered \subseteq S
      /\ Undelivered \subseteq Committed
  BY DEF Undelivered, Committed
<1>s. Rows(t, S) \in SUBSET Events /\ Rows(t, Committed) \in SUBSET Events
  BY DEF Rows
<1>h. head[t] \in HeadRow /\ View(t) \in HeadRow
  BY DEF TypeOK, View, OpState
<1>1. CASE QuietStep
  <2>1. Quiet
    BY <1>1, QuietSteps
  <2>2. Rows(t, S)' = Rows(t, S) /\ Rows(t, Committed)' = Rows(t, Committed)
    BY <1>n, <2>1, QuietRows
  <2>3. View(t)' = View(t) /\ head'[t] = head[t]
    BY <2>1 DEF Quiet, View
  <2>4. \A e \in Events : outbox'[e].seq = outbox[e].seq /\ outbox'[e].prev = outbox[e].prev
    BY <2>1 DEF Quiet
  <2>5. IsChain(outbox', Rows(t, S), View(t)) /\ IsChain(outbox', Rows(t, Committed), head[t])
    <3> HIDE DEF S
    <3>1. IsChain(outbox', Rows(t, S), View(t))
      BY <1>c, <1>s, <2>4, ChainKept
    <3>2. IsChain(outbox', Rows(t, Committed), head[t])
      BY <1>c, <1>s, <2>4, ChainKept
    <3> QED
      BY <3>1, <3>2
  <2> QED
    BY <2>2, <2>3, <2>5
<1>2. ASSUME NEW p \in Ops, (\E u \in Tenants : Begin(p, u)) \/ AdmitFull(p) \/ AdmitError(p)
      PROVE  Goal
  <2>1. View(t)' = View(t) /\ head' = head /\ outbox' = outbox
    BY <1>2, OtherView
  <2> QED
    BY <1>c, <2>1 DEF Rows
<1>3. ASSUME NEW p \in Ops, NEW e \in Events, NEW ok \in BOOLEAN, Admit(p, e, ok)
      PROVE  Goal
  <2>1. /\ Rows(t, Committed)' = Rows(t, Committed)
        /\ t = op[p].tenant => Rows(t, S)' = Rows(t, S) \cup {e}
        /\ t # op[p].tenant => Rows(t, S)' = Rows(t, S)
        /\ e \notin Rows(t, S)
    BY <1>3, <1>n, AdmitRows
  <2>2. /\ t = op[p].tenant => View(t)' = Advance(View(t), e)
        /\ t # op[p].tenant => View(t)' = View(t)
        /\ head' = head
    BY <1>3, AdmitView
  <2>3. /\ \A f \in Events \ {e} : outbox'[f] = outbox[f]
        /\ outbox'[e].seq = HeadSeen(p).seq + 1 /\ outbox'[e].prev = HeadSeen(p).hash
    BY <1>3 DEF Admit, NewRow, TypeOK
  <2>4. t = op[p].tenant => HeadSeen(p) = View(t)
    BY <1>3 DEF Admit, CanLock, HeadSeen, View
  <2>5. e \notin Rows(t, Committed)
    BY <2>1, <1>n DEF Rows
  <2>6. IsChain(outbox', Rows(t, Committed), head[t])
    <3>1. \A f \in Rows(t, Committed) : outbox'[f] = outbox[f]
      BY <1>s, <2>3, <2>5
    <3> HIDE DEF S
    <3> QED
      BY <1>c, <3>1, ChainKept
  <2>7. CASE t = op[p].tenant
    <3>1. IsChain(outbox', Rows(t, S) \cup {e}, Advance(View(t), e))
      <4>1. \A f \in Rows(t, S) : outbox'[f].seq = outbox[f].seq /\ outbox'[f].prev = outbox[f].prev
        BY <1>s, <2>1, <2>3
      <4>2. outbox'[e].seq = View(t).seq + 1 /\ outbox'[e].prev = View(t).hash
        BY <2>3, <2>4, <2>7
      <4> HIDE DEF S
      <4> QED
        BY <1>c, <1>s, <1>h, <2>1, <4>1, <4>2, ChainAppend
    <3> QED
      BY <2>1, <2>2, <2>6, <2>7, <3>1
  <2>8. CASE t # op[p].tenant
    <3>1. IsChain(outbox', Rows(t, S), View(t))
      <4>1. \A f \in Rows(t, S) : outbox'[f] = outbox[f]
        BY <1>s, <2>1, <2>3
      <4> HIDE DEF S
      <4> QED
        BY <1>c, <4>1, ChainKept
    <3> QED
      BY <2>1, <2>2, <2>6, <2>8, <3>1
  <2> QED
    BY <2>7, <2>8
<1>4. ASSUME NEW p \in Ops, NEW r \in Results, NEW reply \in Results \cup {"unavailable"},
             Commit(p, r, reply)
      PROVE  Goal
  <2>1. /\ lock[t] = p => Rows(t, Committed)' = Rows(t, S)
        /\ lock[t] # p => Rows(t, Committed)' = Rows(t, Committed)
        /\ Rows(t, S)' = Rows(t, S)
    BY <1>4, <1>n, CommitRows
  <2>2. /\ lock[t] = p => head'[t] = op[p].head /\ View(t) = op[p].head
        /\ lock[t] # p => head'[t] = head[t]
    BY <1>4 DEF Commit, View, TypeOK
  <2>3. /\ lock[t] = p => View(t)' = head'[t]
        /\ lock[t] # p /\ head'[t] = head[t] => View(t)' = View(t)
    BY <1>4, EndView DEF Commit
  <2>4. \A e \in Events : outbox'[e].seq = outbox[e].seq /\ outbox'[e].prev = outbox[e].prev
    BY <1>4 DEF Commit, TypeOK, Row
  <2>5. IsChain(outbox', Rows(t, S), View(t)) /\ IsChain(outbox', Rows(t, Committed), head[t])
    <3> HIDE DEF S
    <3>1. IsChain(outbox', Rows(t, S), View(t))
      BY <1>c, <1>s, <2>4, ChainKept
    <3>2. IsChain(outbox', Rows(t, Committed), head[t])
      BY <1>c, <1>s, <2>4, ChainKept
    <3> QED
      BY <3>1, <3>2
  <2> QED
    BY <2>1, <2>2, <2>3, <2>5
<1>5. ASSUME NEW p \in Ops, NEW reply, Undo(p, reply)
      PROVE  Goal
  <2>1. /\ Rows(t, Committed)' = Rows(t, Committed)
        /\ lock[t] = p => Rows(t, S)' = Rows(t, Committed)
        /\ lock[t] # p => Rows(t, S)' = Rows(t, S)
    BY <1>5, <1>n, UndoRows, SMT
  <2>2. head' = head
    BY <1>5 DEF Undo
  <2>3. /\ lock[t] = p => View(t)' = head'[t]
        /\ lock[t] # p /\ head'[t] = head[t] => View(t)' = View(t)
    BY <1>5, EndView DEF Undo
  <2>4. \A e \in Events : e \notin op[p].staged => outbox'[e] = outbox[e]
    BY <1>5 DEF Undo
  <2>5. \A e \in Rows(t, Committed) : outbox'[e] = outbox[e]
    BY <2>4, <1>n, SMT DEF Rows, Locked
  <2>6. IsChain(outbox', Rows(t, Committed), head[t])
    BY <1>c, <2>5, ChainKept
  <2>7. CASE lock[t] = p
    BY <2>1, <2>2, <2>3, <2>6, <2>7
  <2>8. CASE lock[t] # p
    <3>1. \A e \in Rows(t, S) : outbox'[e] = outbox[e]
      BY <2>4, <2>8, SMT DEF Rows, Locked
    <3>2. IsChain(outbox', Rows(t, S), View(t))
      BY <1>c, <3>1, ChainKept
    <3> QED
      BY <2>1, <2>2, <2>3, <2>6, <2>8, <3>2
  <2> QED
    BY <2>7, <2>8
<1>6. ASSUME NEW u \in Tenants, NEW e \in Events, NEW ok \in BOOLEAN, AdmitAlone(u, e, ok)
      PROVE  Goal
  <2>1. /\ t = u => Rows(t, S)' = Rows(t, S) \cup {e}
        /\ t # u => Rows(t, S)' = Rows(t, S)
        /\ e \notin Rows(t, S)
    BY <1>6, <1>n, AdmitAloneRows
  <2>2. /\ t = u => Rows(t, Committed)' = Rows(t, Committed) \cup {e}
        /\ t # u => Rows(t, Committed)' = Rows(t, Committed)
        /\ e \notin Rows(t, Committed)
    BY <1>6, <1>n, AdmitAloneRows
  <2>3. /\ lock' = lock /\ op' = op /\ lock[u] = None
        /\ head' = [head EXCEPT ![u] = Advance(head[u], e)] /\ head \in [Tenants -> HeadRow]
    BY <1>6 DEF AdmitAlone, TypeOK
  <2>4. /\ \A f \in Events \ {e} : outbox'[f] = outbox[f]
        /\ outbox'[e].seq = head[u].seq + 1 /\ outbox'[e].prev = head[u].hash
    BY <1>6 DEF AdmitAlone, NewRow, TypeOK
  <2>5. CASE t = u
    <3>1. View(t)' = Advance(head[t], e) /\ View(t) = head[t] /\ head'[t] = Advance(head[t], e)
      BY <2>3, <2>5 DEF View
    <3>2. /\ IsChain(outbox', Rows(t, S) \cup {e}, Advance(head[t], e))
          /\ IsChain(outbox', Rows(t, Committed) \cup {e}, Advance(head[t], e))
      <4>1. /\ \A f \in Rows(t, S) \cup Rows(t, Committed) : outbox'[f] = outbox[f]
            /\ outbox'[e].seq = head[t].seq + 1 /\ outbox'[e].prev = head[t].hash
        BY <1>s, <2>1, <2>2, <2>4, <2>5
      <4> HIDE DEF S
      <4>2. IsChain(outbox', Rows(t, S) \cup {e}, Advance(head[t], e))
        BY <1>c, <1>s, <1>h, <2>1, <3>1, <4>1, ChainAppend, SMT
      <4>3. IsChain(outbox', Rows(t, Committed) \cup {e}, Advance(head[t], e))
        BY <1>c, <1>s, <1>h, <2>2, <4>1, ChainAppend
      <4> QED
        BY <4>2, <4>3
    <3> QED
      BY <2>1, <2>2, <2>5, <3>1, <3>2
  <2>6. CASE t # u
    <3>1. View(t)' = View(t) /\ head'[t] = head[t]
      BY <2>3, <2>6 DEF View
    <3>2. IsChain(outbox', Rows(t, S), View(t)) /\ IsChain(outbox', Rows(t, Committed), head[t])
      <4>1. \A f \in Rows(t, S) \cup Rows(t, Committed) : outbox'[f] = outbox[f]
        BY <1>s, <2>1, <2>2, <2>4
      <4> HIDE DEF S
      <4>2. IsChain(outbox', Rows(t, S), View(t))
        BY <1>c, <4>1, ChainKept
      <4>3. IsChain(outbox', Rows(t, Committed), head[t])
        BY <1>c, <4>1, ChainKept
      <4> QED
        BY <4>2, <4>3
    <3> QED
      BY <2>1, <2>2, <2>6, <3>1, <3>2
  <2> QED
    BY <2>5, <2>6
<1>7. ASSUME NEW w \in Workers, NEW pc \in {"idle", "fail"}, DeliverAck(w, pc)
      PROVE  Goal
  <2> DEFINE e == worker[w].event
             u == outbox[e].tenant
  <2>1. e \in Events /\ outbox[e].state = "leased"
    BY <1>7 DEF DeliverAck, Bound, Leased
  <2>2. /\ outbox'[e].state = "delivered" /\ outbox'[e].tenant = u
        /\ outbox'[e].seq = outbox[e].seq /\ outbox'[e].prev = outbox[e].prev
        /\ \A f \in Events \ {e} : outbox'[f] = outbox[f]
        /\ lock' = lock /\ op' = op
    BY <1>7, AckRow
  <2>3. Rows(t, S)' = Rows(t, S) /\ Rows(t, Committed)' = Rows(t, Committed)
    BY <2>1, <2>2, SMT DEF Rows, Committed
  <2>4. head'[t].seq = head[t].seq /\ head'[t].hash = head[t].hash
    <3>1. head' = [head EXCEPT ![u].pending = IF @ > 0 THEN @ - 1 ELSE @]
      BY <1>7 DEF DeliverAck
    <3> QED
      BY <1>h, <3>1 DEF TypeOK, HeadRow
  <2>5. View(t)'.seq = View(t).seq /\ View(t)'.hash = View(t).hash
    BY <2>2, <2>4 DEF View
  <2>6. IsChain(outbox', Rows(t, S), View(t)') /\ IsChain(outbox', Rows(t, Committed), head'[t])
    <3>1. \A f \in Events : outbox'[f].seq = outbox[f].seq /\ outbox'[f].prev = outbox[f].prev
      BY <2>1, <2>2
    <3> HIDE DEF S
    <3> QED
      <4>1. IsChain(outbox', Rows(t, S), View(t)')
        BY <1>c, <1>s, <2>5, <3>1, ChainFrame
      <4>2. IsChain(outbox', Rows(t, Committed), head'[t])
        BY <1>c, <1>s, <2>4, <3>1, ChainFrame, SMT
      <4> QED
        BY <4>1, <4>2
  <2> QED
    BY <2>3, <2>6
<1> QED
  BY NextCases, <1>1, <1>2, <1>3, <1>4, <1>5, <1>6, <1>7

(***************************************************************************)
(* Theorems.                                                               *)
(***************************************************************************)
LEMMA Inductive ==
    Spec => [](TypeOK /\ Bound /\ Locked /\ Leased /\ Counted /\ Chained)
<1> DEFINE IInv == TypeOK /\ Bound /\ Locked /\ Leased /\ Counted /\ Chained
<1>1. Init => IInv
  BY TypeInit, LockedInit, LeasedInit, CountedInit, ChainedInit
<1>2. IInv /\ [Next]_vars => IInv'
  BY TypeNext, LockedNext, LeasedNext, CountedNext, ChainedNext
<1> QED
  BY <1>1, <1>2, PTL DEF Spec

\* The pending counter of audit_heads always counts the undelivered rows and
\* stays within AUDIT_MAX_PENDING, for any number of tenants, events, replicas
\* and any capacity.
THEOREM PendingAlwaysCounted == Spec => []PendingCounted
<1>1. Counted => PendingCounted
  BY DEF Counted, PendingCounted
<1> QED
  BY Inductive, <1>1, PTL

\* The committed evidence of every tenant is one gapless hash chain that ends
\* at its head, whatever operations commit, roll back, deliver or crash.
THEOREM ChainAlwaysIntact == Spec => []ChainIntact
<1>1. Chained => ChainIntact
  BY DEF Chained, ChainIntact
<1> QED
  BY Inductive, <1>1, PTL

(***************************************************************************)
(* The answers of AuditOperation.                                          *)
(***************************************************************************)
\* Evidence of a success is known to its operation (Operation.Admitted).
Witnessed == \A p \in Ops : \A e \in op[p].staged : outbox[e].success => op[p].successful

LEMMA WitnessedInit == Init => Witnessed
  BY SMT DEF Init, Witnessed, Ended

LEMMA WitnessedNext == TypeOK /\ Bound /\ Locked /\ Leased /\ Witnessed /\ [Next]_vars => Witnessed'
<1> SUFFICES ASSUME TypeOK, Bound, Locked, Leased, Witnessed, [Next]_vars,
                    NEW q \in Ops, NEW f \in op'[q].staged, outbox'[f].success
             PROVE  op'[q].successful
  BY DEF Witnessed
<1>t. op \in [Ops -> OpState] /\ outbox \in [Events -> Row] /\ op[q] \in OpState
  BY DEF TypeOK
<1>s. \A p \in Ops : op[p].staged \subseteq Events /\ \A e \in op[p].staged : outbox[e].state = "staged"
  <2>1. \A p \in Ops : op[p].staged \subseteq Events
    BY <1>t DEF OpState
  <2> QED
    BY <2>1 DEF Locked
<1>g. ASSUME op'[q] = op[q], outbox'[f].success => outbox[f].success
      PROVE  op'[q].successful
  BY <1>g DEF Witnessed
<1>1. CASE QuietStep
  <2>1. op' = op /\ \A e \in Events : outbox'[e].success = outbox[e].success
    BY <1>1, QuietSteps DEF Quiet
  <2> QED
    BY <1>g, <1>s, <2>1
<1>2. ASSUME NEW p \in Ops, NEW t \in Tenants, Begin(p, t)
      PROVE  op'[q].successful
  <2>1. CASE q = p
    <3>1. op'[q] = [Ended("none") EXCEPT !.running = TRUE, !.tenant = t]
      BY <1>2, <1>t, <2>1 DEF Begin
    <3>2. op'[q].staged = {}
      BY <3>1 DEF Ended
    <3> QED
      BY <3>2
  <2>2. CASE q # p
    BY <1>2, <1>g, <1>t, <2>2 DEF Begin
  <2> QED
    BY <2>1, <2>2
<1>3. ASSUME NEW p \in Ops, AdmitFull(p) \/ AdmitError(p)
      PROVE  op'[q].successful
  <2>1. outbox' = outbox /\ op'[q].staged = op[q].staged /\ op'[q].successful = op[q].successful
    <3>1. CASE AdmitFull(p)
      BY <1>t, <3>1, SMT DEF AdmitFull, OpState
    <3>2. CASE AdmitError(p)
      BY <1>t, <3>2, SMT DEF AdmitError, OpState
    <3> QED
      BY <1>3, <3>1, <3>2
  <2> QED
    BY <2>1 DEF Witnessed
<1>4. ASSUME NEW p \in Ops, NEW e \in Events, NEW ok \in BOOLEAN, Admit(p, e, ok)
      PROVE  op'[q].successful
  <2>1. /\ outbox[e].state = "none" /\ outbox'[e].success = ok
        /\ \A d \in Events \ {e} : outbox'[d] = outbox[d]
    BY <1>4, <1>t DEF Admit, NewRow
  <2>2. \A d \in op[q].staged : d # e /\ outbox'[d] = outbox[d]
    BY <1>s, <2>1
  <2>3. CASE q # p
    BY <1>4, <1>g, <1>t, <2>2, <2>3 DEF Admit
  <2>4. CASE q = p
    <3>1. op'[q].staged = op[q].staged \cup {e} /\ op'[q].successful = (op[q].successful \/ ok)
      BY <1>4, <1>t, <2>4, SMT DEF Admit, OpState
    <3> QED
      BY <2>1, <2>2, <3>1 DEF Witnessed
  <2> QED
    BY <2>3, <2>4
<1>5. ASSUME NEW p \in Ops, NEW reply, op' = [op EXCEPT ![p] = Ended(reply)],
             \A e \in Events : outbox'[e].success => outbox[e].success
      PROVE  op'[q].successful
  <2>1. CASE q = p
    <3>1. op'[q] = Ended(reply)
      BY <1>5, <1>t, <2>1
    <3>2. Ended(reply).staged = {}
      BY DEF Ended
    <3> QED
      BY <3>1, <3>2
  <2>2. CASE q # p
    BY <1>5, <1>g, <1>s, <1>t, <2>2
  <2> QED
    BY <2>1, <2>2
<1>6. ASSUME NEW p \in Ops, NEW r \in Results, NEW reply \in Results \cup {"unavailable"},
             Commit(p, r, reply)
      PROVE  op'[q].successful
  <2>1. \A e \in Events : outbox'[e].success = outbox[e].success
    BY <1>6, <1>t DEF Commit, Row
  <2> QED
    BY <1>5, <1>6, <2>1 DEF Commit
<1>7. ASSUME NEW p \in Ops, NEW reply, Undo(p, reply)
      PROVE  op'[q].successful
  <2>1. ~NoRow.success
    BY DEF NoRow
  <2>2. \A e \in Events : outbox'[e].success => outbox[e].success
    BY <1>7, <2>1 DEF Undo
  <2> QED
    BY <1>5, <1>7, <2>2 DEF Undo
<1>8. ASSUME NEW t \in Tenants, NEW e \in Events, NEW ok \in BOOLEAN, AdmitAlone(t, e, ok)
      PROVE  op'[q].successful
  <2>1. outbox[e].state = "none" /\ op' = op /\ \A d \in Events \ {e} : outbox'[d] = outbox[d]
    BY <1>8, <1>t DEF AdmitAlone
  <2> QED
    BY <1>g, <1>s, <2>1
<1>9. ASSUME NEW w \in Workers, NEW pc \in {"idle", "fail"}, DeliverAck(w, pc)
      PROVE  op'[q].successful
  <2> DEFINE e == worker[w].event
  <2>1. /\ op' = op /\ outbox'[e].success = outbox[e].success
        /\ \A d \in Events \ {e} : outbox'[d] = outbox[d]
    BY <1>9, AckRow
  <2> QED
    BY <1>g, <1>s, <2>1
<1> QED
  BY NextCases, <1>1, <1>2, <1>3, <1>4, <1>6, <1>7, <1>8, <1>9

LEMMA HonestNext ==
    TypeOK /\ Bound /\ Locked /\ Witnessed /\ [Next]_vars => [HonestReplyStep]_vars
<1> SUFFICES ASSUME TypeOK, Bound, Locked, Witnessed, Next,
                    NEW p \in Ops, op[p].running, ~op'[p].running
             PROVE  /\ op'[p].reply = "ok" =>
                         /\ ~op[p].failed
                         /\ \A e \in op[p].staged : outbox'[e].state = "pending"
                    /\ op'[p].reply \in {"denied", "error"} =>
                         \A e \in op[p].staged : outbox[e].success => outbox'[e].state = "none"
  BY DEF HonestReplyStep
<1> DEFINE Goal == /\ op'[p].reply = "ok" =>
                         /\ ~op[p].failed
                         /\ \A e \in op[p].staged : outbox'[e].state = "pending"
                   /\ op'[p].reply \in {"denied", "error"} =>
                         \A e \in op[p].staged : outbox[e].success => outbox'[e].state = "none"
<1>t. op \in [Ops -> OpState] /\ outbox \in [Events -> Row] /\ op[p].staged \subseteq Events
  BY DEF TypeOK, OpState
<1>e. ASSUME NEW reply PROVE Ended(reply).reply = reply
  BY DEF Ended
<1>1. ASSUME NEW r \in Results, NEW reply \in Results \cup {"unavailable"}, Commit(p, r, reply)
      PROVE  Goal
  <2>1. op'[p].reply = reply /\ reply \in {r, "unavailable"} /\ MayCommit(p, r)
    BY <1>1, <1>e, <1>t DEF Commit
  <2>2. ~op[p].failed /\ (r = "ok" \/ (r = "denied" /\ ~op[p].successful))
    BY <2>1 DEF MayCommit, DenialMayCommit
  <2>3. \A e \in op[p].staged : outbox'[e].state = "pending"
    BY <1>1, <1>t DEF Commit, Row
  <2>4. reply \in {"denied", "error"} => ~op[p].successful
    BY <2>1, <2>2
  <2> QED
    BY <2>1, <2>2, <2>3, <2>4 DEF Witnessed
<1>2. ASSUME NEW reply, Undo(p, reply), reply # "ok"
      PROVE  Goal
  <2>1. op'[p].reply = reply
    BY <1>2, <1>e, <1>t DEF Undo
  <2>2. \A e \in op[p].staged : outbox'[e].state = "none"
    BY <1>2, <1>t DEF Undo, NoRow
  <2> QED
    BY <1>2, <2>1, <2>2
<1>3. ASSUME NEW r \in Results, Rollback(p, r)
      PROVE  Goal
  <2>1. Undo(p, IF op[p].failed THEN "unavailable" ELSE r) /\ ~MayCommit(p, r)
    BY <1>3 DEF Rollback
  <2>2. ~op[p].failed => r # "ok"
    BY <2>1 DEF MayCommit
  <2> QED
    BY <1>2, <2>1, <2>2
<1>4. CASE Abort(p)
  BY <1>2, <1>4 DEF Abort
<1>5. ASSUME NEW q \in Ops, Operation(q), q # p
      PROVE  FALSE
  <2>1. op'[p] = op[p]
    BY <1>5, <1>t DEF Operation, Begin, Admit, AdmitFull, AdmitError, Commit, Rollback, Abort, Undo
  <2> QED
    BY <2>1
<1>6. ASSUME op'[p].running = op[p].running
      PROVE  FALSE
  BY <1>6
<1>7. ASSUME \/ \E t \in Tenants : Begin(p, t)
             \/ \E e \in Events, ok \in BOOLEAN : Admit(p, e, ok)
             \/ AdmitFull(p) \/ AdmitError(p)
      PROVE  FALSE
  <2>1. ~(\E t \in Tenants : Begin(p, t))
    BY DEF Begin
  <2>2. op'[p].running = op[p].running
    <3>1. ASSUME NEW e \in Events, NEW ok \in BOOLEAN, Admit(p, e, ok)
          PROVE  op'[p].running = op[p].running
      BY <1>t, <3>1, SMT DEF Admit, OpState
    <3>2. CASE AdmitFull(p)
      BY <1>t, <3>2, SMT DEF AdmitFull, OpState
    <3>3. CASE AdmitError(p)
      BY <1>t, <3>3, SMT DEF AdmitError, OpState
    <3> QED
      BY <1>7, <2>1, <3>1, <3>2, <3>3
  <2> QED
    BY <1>6, <2>2
<1>8. CASE \/ \E t \in Tenants, e \in Events, ok \in BOOLEAN : AdmitAlone(t, e, ok)
           \/ \E w \in Workers : Dispatch(w)
           \/ \E e \in Events : RequeueDead(e)
           \/ Tick
  <2>1. op' = op
    BY <1>8 DEF AdmitAlone, Dispatch, Claim, ClaimExhausted, DeliverCheck, DeliverAck, DeliverError,
                FailClaim, Crash, RequeueDead, Tick, operationVars
  <2> QED
    BY <1>6, <2>1
<1>9. CASE Operation(p)
  BY <1>1, <1>3, <1>4, <1>7, <1>9 DEF Operation
<1> QED
  BY <1>5, <1>8, <1>9 DEF Next

\* The answer of AuditOperation can be trusted: "ok" means that every event it
\* admitted is durable and no admission failed, and a denial or an error leaves
\* no evidence of a success behind.
THEOREM RepliesHonest == Spec => HonestReply
<1> DEFINE IInv == TypeOK /\ Bound /\ Locked /\ Leased /\ Witnessed
<1>1. Init => IInv
  BY TypeInit, LockedInit, LeasedInit, WitnessedInit
<1>2. IInv /\ [Next]_vars => IInv'
  BY TypeNext, LockedNext, LeasedNext, WitnessedNext
<1>3. IInv /\ [Next]_vars => [HonestReplyStep]_vars
  BY HonestNext
<1> QED
  BY <1>1, <1>2, <1>3, PTL DEF Spec, HonestReply

(***************************************************************************)
(* The refinement of AuditQueue.  The history of a tenant lists the chain  *)
(* of its committed rows; while an operation holds the head's lock, each   *)
(* admission has moved sequence and counter of its View alike.             *)
(***************************************************************************)
Balanced == \A t \in Tenants : View(t).seq + head[t].pending = head[t].seq + View(t).pending

LEMMA BalancedInit == Init => Balanced
<1> SUFFICES ASSUME Init, NEW t \in Tenants PROVE View(t) = head[t]
  BY SMT DEF Balanced, Init, NoHead
<1> QED
  BY DEF Init, View

LEMMA BalancedNext ==
    TypeOK /\ Bound /\ Locked /\ Leased /\ Balanced /\ [Next]_vars => Balanced'
<1> SUFFICES ASSUME TypeOK, Bound, Locked, Leased, Balanced, [Next]_vars, NEW t \in Tenants
             PROVE  View(t)'.seq + head'[t].pending = head'[t].seq + View(t)'.pending
  BY DEF Balanced
<1> USE ConstantsAssumption
<1> DEFINE Goal == View(t)'.seq + head'[t].pending = head'[t].seq + View(t)'.pending
<1>h. head[t] \in HeadRow /\ View(t) \in HeadRow
  BY DEF TypeOK, View, OpState
<1>b. View(t).seq + head[t].pending = head[t].seq + View(t).pending
  BY DEF Balanced
<1>g. ASSUME View(t)' = View(t), head'[t] = head[t] PROVE Goal
  BY <1>b, <1>g
<1>v. ASSUME View(t)' = head'[t], head'[t] \in HeadRow PROVE Goal
  BY <1>v, SMT DEF HeadRow
<1>t. head'[t] \in HeadRow
  BY TypeNext DEF TypeOK
<1>1. CASE QuietStep
  <2>1. View(t)' = View(t) /\ head'[t] = head[t]
    BY <1>1, QuietSteps DEF Quiet, View
  <2> QED
    BY <1>g, <2>1
<1>2. ASSUME NEW p \in Ops, (\E u \in Tenants : Begin(p, u)) \/ AdmitFull(p) \/ AdmitError(p)
      PROVE  Goal
  <2>1. View(t)' = View(t) /\ head' = head
    BY <1>2, OtherView
  <2> QED
    BY <1>g, <2>1
<1>3. ASSUME NEW p \in Ops, NEW e \in Events, NEW ok \in BOOLEAN, Admit(p, e, ok)
      PROVE  Goal
  <2>1. (View(t)' = Advance(View(t), e) \/ View(t)' = View(t)) /\ head' = head
    BY <1>3, AdmitView
  <2>2. CASE View(t)' = Advance(View(t), e)
    <3>1. View(t)'.seq = View(t).seq + 1 /\ View(t)'.pending = View(t).pending + 1
      BY <2>2, SMT DEF Advance
    <3> QED
      BY <1>b, <1>h, <2>1, <3>1, SMT DEF HeadRow
  <2> QED
    BY <1>g, <2>1, <2>2
<1>4. ASSUME NEW p \in Ops, NEW r \in Results, NEW reply \in Results \cup {"unavailable"},
             Commit(p, r, reply)
      PROVE  Goal
  <2>1. lock[t] # p => head'[t] = head[t]
    BY <1>4 DEF Commit
  <2>2. /\ lock[t] = p => View(t)' = head'[t]
        /\ lock[t] # p /\ head'[t] = head[t] => View(t)' = View(t)
    BY <1>4, EndView DEF Commit
  <2> QED
    BY <1>g, <1>t, <1>v, <2>1, <2>2
<1>5. ASSUME NEW p \in Ops, NEW reply, Undo(p, reply)
      PROVE  Goal
  <2>1. head' = head
    BY <1>5 DEF Undo
  <2>2. /\ lock[t] = p => View(t)' = head'[t]
        /\ lock[t] # p /\ head'[t] = head[t] => View(t)' = View(t)
    BY <1>5, EndView DEF Undo
  <2> QED
    BY <1>g, <1>t, <1>v, <2>1, <2>2
<1>6. ASSUME NEW u \in Tenants, lock' = lock, op' = op, lock[u] = None,
             \A v \in Tenants \ {u} : head'[v] = head[v]
      PROVE  Goal
  <2>1. CASE t = u
    <3>1. View(t)' = head'[t]
      BY <1>6, <2>1 DEF View
    <3> QED
      BY <1>t, <1>v, <3>1
  <2>2. CASE t # u
    <3>1. View(t)' = View(t) /\ head'[t] = head[t]
      BY <1>6, <2>2 DEF View
    <3> QED
      BY <1>g, <3>1
  <2> QED
    BY <2>1, <2>2
<1>7. ASSUME NEW u \in Tenants, NEW e \in Events, NEW ok \in BOOLEAN, AdmitAlone(u, e, ok)
      PROVE  Goal
  <2>1. lock' = lock /\ op' = op /\ lock[u] = None /\ \A v \in Tenants \ {u} : head'[v] = head[v]
    BY <1>7 DEF AdmitAlone, TypeOK
  <2> QED
    BY <1>6, <2>1
<1>8. ASSUME NEW w \in Workers, NEW pc \in {"idle", "fail"}, DeliverAck(w, pc)
      PROVE  Goal
  <2> DEFINE u == outbox[worker[w].event].tenant
  <2>1. worker[w].event \in Events /\ outbox[worker[w].event].state = "leased"
    BY <1>8 DEF DeliverAck, Bound, Leased
  <2>2. u \in Tenants /\ lock[u] = None
    BY <1>8, <2>1 DEF DeliverAck, Locked, Committed
  <2>3. lock' = lock /\ op' = op /\ \A v \in Tenants \ {u} : head'[v] = head[v]
    BY <1>8, <2>2 DEF DeliverAck, TypeOK
  <2> QED
    BY <1>6, <2>2, <2>3
<1> QED
  BY NextCases, <1>1, <1>2, <1>3, <1>4, <1>5, <1>7, <1>8

\* The rows of table ob that tenant t has up to sequence n, in their order.
Listed(ob, t, n) ==
    [i \in 1 .. n |-> CHOOSE e \in Events : /\ ob[e].state \in Committed
                                            /\ ob[e].tenant = t
                                            /\ ob[e].seq = i]

RowsOf(ob, t) == {e \in Events : ob[e].tenant = t /\ ob[e].state \in Committed}

LEMMA HistoryIs ==
    /\ \A t \in Tenants : Rows(t, Committed) = RowsOf(outbox, t)
    /\ History = [t \in Tenants |-> Listed(outbox, t, head[t].seq)]
  BY DEF Rows, RowsOf, History, Listed

\* What a chain lists: its rows, each at its sequence.
LEMMA ListedChain ==
    ASSUME NEW ob, NEW t, NEW h, IsChain(ob, RowsOf(ob, t), h), NEW L, L = Listed(ob, t, h.seq)
    PROVE  /\ DOMAIN L = 1 .. h.seq
           /\ \A i \in 1 .. h.seq : L[i] \in RowsOf(ob, t) /\ ob[L[i]].seq = i
           /\ \A e \in RowsOf(ob, t) : ob[e].seq \in 1 .. h.seq /\ L[ob[e].seq] = e
<1> DEFINE R == RowsOf(ob, t)
<1>1. DOMAIN L = 1 .. h.seq
  BY DEF Listed
<1>2. ASSUME NEW i \in 1 .. h.seq PROVE L[i] \in R /\ ob[L[i]].seq = i
  <2>1. PICK e \in R : ob[e].seq = i
    BY DEF IsChain
  <2>2. e \in Events /\ ob[e].state \in Committed /\ ob[e].tenant = t /\ ob[e].seq = i
    BY <2>1 DEF RowsOf
  <2>3. L[i] = CHOOSE d \in Events : ob[d].state \in Committed /\ ob[d].tenant = t /\ ob[d].seq = i
    BY DEF Listed
  <2>4. L[i] \in Events /\ ob[L[i]].state \in Committed /\ ob[L[i]].tenant = t /\ ob[L[i]].seq = i
    BY <2>2, <2>3
  <2> QED
    BY <2>4 DEF RowsOf
<1>3. ASSUME NEW e \in R PROVE ob[e].seq \in 1 .. h.seq /\ L[ob[e].seq] = e
  <2>1. ob[e].seq \in 1 .. h.seq
    BY DEF IsChain
  <2>2. L[ob[e].seq] \in R /\ ob[L[ob[e].seq]].seq = ob[e].seq
    BY <1>2, <2>1
  <2> QED
    BY <2>1, <2>2 DEF IsChain
<1> QED
  BY <1>1, <1>2, <1>3

\* A chain that keeps its rows at their places keeps what it lists.
LEMMA ListedPrefix ==
    ASSUME NEW ob, NEW nb, NEW t, NEW h, NEW g, h.seq \in Nat, g.seq \in Nat, h.seq <= g.seq,
           IsChain(ob, RowsOf(ob, t), h), IsChain(nb, RowsOf(nb, t), g),
           \A e \in RowsOf(ob, t) : e \in RowsOf(nb, t) /\ nb[e].seq = ob[e].seq,
           NEW L, L = Listed(ob, t, h.seq), NEW M, M = Listed(nb, t, g.seq)
    PROVE  \A i \in 1 .. h.seq : M[i] = L[i]
<1> TAKE i \in 1 .. h.seq
<1>1. L[i] \in RowsOf(ob, t) /\ ob[L[i]].seq = i
  BY ListedChain, SMT
<1>2. L[i] \in RowsOf(nb, t) /\ nb[L[i]].seq = i
  BY <1>1
<1>3. \A e \in RowsOf(nb, t) : M[nb[e].seq] = e
  BY ListedChain, SMT
<1> QED
  BY <1>2, <1>3

\* Functions over an initial segment are sequences; what \o lists.
LEMMA Lists ==
    ASSUME NEW S, NEW n \in Nat, NEW L \in [1 .. n -> S]
    PROVE  L \in Seq(S) /\ Len(L) = n
  BY SMT

LEMMA Joined ==
    ASSUME NEW S, NEW L \in Seq(S), NEW s \in Seq(S), NEW M \in [1 .. Len(L) + Len(s) -> S],
           \A i \in 1 .. Len(L) : M[i] = L[i], \A i \in 1 .. Len(s) : M[Len(L) + i] = s[i]
    PROVE  M = L \o s
<1>1. L \o s \in Seq(S) /\ Len(L \o s) = Len(L) + Len(s)
  BY SMT
<1>2. \A i \in 1 .. Len(L) : (L \o s)[i] = L[i]
  BY SMT
<1>3. \A i \in 1 .. Len(s) : (L \o s)[Len(L) + i] = s[i]
  BY SMT
<1>4. PICK J : J = L \o s
  OBVIOUS
<1>5. J \in [1 .. Len(L) + Len(s) -> S]
  <2>1. ASSUME NEW q \in Seq(S) PROVE q \in [1 .. Len(q) -> S]
    BY SMT
  <2> QED
    BY <1>1, <1>4, <2>1
<1>6. \A i \in 1 .. Len(L) + Len(s) : J[i] = M[i]
  <2> TAKE i \in 1 .. Len(L) + Len(s)
  <2>1. CASE i \in 1 .. Len(L)
    BY <1>2, <1>4, <2>1
  <2>2. CASE i \notin 1 .. Len(L)
    <3>1. PICK k \in 1 .. Len(s) : i = Len(L) + k
      <4>1. i - Len(L) \in 1 .. Len(s) /\ i = Len(L) + (i - Len(L))
        BY <2>2, SMT
      <4> QED
        BY <4>1
    <3> QED
      BY <1>3, <1>4, <3>1
  <2> QED
    BY <2>1, <2>2
<1>7. J = M
  BY <1>5, <1>6, SMT
<1> QED
  BY <1>4, <1>7

\* A longer list with the same beginning is the shorter one and a sequence.
Continues(S, m, n, L, M, s) ==
    /\ m \in Nat /\ n \in Nat /\ L \in [1 .. m -> S] /\ M \in [1 .. m + n -> S] /\ s \in [1 .. n -> S]
    /\ \A i \in 1 .. m : M[i] = L[i]
    /\ \A i \in 1 .. n : M[m + i] = s[i]

LEMMA Continued ==
    ASSUME NEW S, NEW m, NEW n, NEW L, NEW M, NEW s, Continues(S, m, n, L, M, s)
    PROVE  Len(s) = n /\ M = L \o s
<1>1. s \in Seq(S) /\ L \in Seq(S)
  BY Lists DEF Continues
<1>2. Len(s) = n /\ Len(L) = m
  BY Lists DEF Continues
<1>3. /\ M \in [1 .. Len(L) + Len(s) -> S]
      /\ (\A i \in 1 .. Len(L) : M[i] = L[i]) /\ \A i \in 1 .. Len(s) : M[Len(L) + i] = s[i]
  BY <1>2 DEF Continues
<1>4. M = L \o s
  BY <1>1, <1>3, Joined
<1> QED
  BY <1>2, <1>4

\* The head of a tenant's chain, and what the abstract queue sees of it.
LEMMA Histories ==
    ASSUME TypeOK, Chained, DeliveredIffLogged, NEW t \in Tenants
    PROVE  LET L == History[t]
               m == head[t].seq
           IN  /\ m \in Nat /\ head[t].pending \in Nat
               /\ L = Listed(outbox, t, m) /\ L \in [1 .. m -> Events]
               /\ IsChain(outbox, RowsOf(outbox, t), head[t])
               /\ Range(L) = RowsOf(outbox, t)
               /\ Range(L) \ log = Outstanding(t)
<1> DEFINE L == History[t]
           m == head[t].seq
<1>1. m \in Nat /\ head[t].pending \in Nat
  BY DEF TypeOK, HeadRow
<1>2. L = Listed(outbox, t, m) /\ Rows(t, Committed) = RowsOf(outbox, t)
  BY HistoryIs
<1>3. IsChain(outbox, RowsOf(outbox, t), head[t])
  BY <1>2 DEF Chained
<1>4. /\ DOMAIN L = 1 .. m
      /\ \A i \in 1 .. m : L[i] \in RowsOf(outbox, t)
      /\ \A e \in RowsOf(outbox, t) : outbox[e].seq \in 1 .. m /\ L[outbox[e].seq] = e
  BY <1>2, <1>3, ListedChain, SMT
<1>5. L = [i \in 1 .. m |-> L[i]]
  BY <1>2 DEF Listed
<1>6. L \in [1 .. m -> Events]
  BY <1>4, <1>5 DEF RowsOf
<1>7. Range(L) = RowsOf(outbox, t)
  BY <1>4 DEF Range
<1>8. Range(L) \ log = Outstanding(t)
  BY <1>2, <1>7 DEF DeliveredIffLogged, Outstanding, Rows, RowsOf, Committed, Undelivered
<1> QED
  BY <1>1, <1>2, <1>3, <1>6, <1>7, <1>8

LEMMA HistoryAfter ==
    /\ \A t \in Tenants : Rows(t, Committed)' = RowsOf(outbox', t)
    /\ History' = [t \in Tenants |-> Listed(outbox', t, head'[t].seq)]
  BY DEF Rows, RowsOf, History, Listed

\* The operators AuditQueue extends are the ones this module extends.
LEMMA QueueRange == ASSUME NEW f PROVE Queue!Range(f) = Range(f)
  BY DEF Range, Queue!Range

LEMMA QueueInjection == ASSUME NEW S, NEW T PROVE Queue!Injection(S, T) = Injection(S, T)
  BY DEF Injection, Queue!Injection, IsInjective, Queue!IsInjective

LEMMA QueueCardinality == ASSUME NEW S PROVE Queue!Cardinality(S) = Cardinality(S)
  BY DEF Cardinality, Queue!Cardinality

\* The rows of t become a longer chain, and nothing else changes for the queue.
LEMMA RecordStep ==
    ASSUME TypeOK, Chained, Counted, DeliveredIffLogged, TypeOK', Chained', Counted',
           NEW t \in Tenants, NEW n \in Nat \ {0}, head'[t].seq = head[t].seq + n,
           head'[t].pending = head[t].pending + n, log' = log,
           \A u \in Tenants \ {t} : History'[u] = History[u],
           \A e \in RowsOf(outbox, t) : e \in RowsOf(outbox', t) /\ outbox'[e].seq = outbox[e].seq,
           \A e \in RowsOf(outbox', t) : e \in RowsOf(outbox, t) \/ outbox[e].state \notin Committed
    PROVE  Queue!QueueNext
<1> DEFINE m == head[t].seq
           L == History[t]
           M == History'[t]
<1>s. PICK s : s = [i \in 1 .. n |-> M[m + i]]
  OBVIOUS
<1>1. /\ m \in Nat /\ head[t].pending \in Nat /\ L = Listed(outbox, t, m) /\ L \in [1 .. m -> Events]
      /\ IsChain(outbox, RowsOf(outbox, t), head[t])
  BY Histories
<1>2. M = Listed(outbox', t, head'[t].seq) /\ IsChain(outbox', RowsOf(outbox', t), head'[t])
  BY HistoryAfter DEF Chained
<1>3. /\ \A i \in 1 .. m + n : M[i] \in RowsOf(outbox', t) /\ outbox'[M[i]].seq = i
      /\ M \in [1 .. m + n -> Events]
  <2>1. DOMAIN M = 1 .. m + n /\ \A i \in 1 .. m + n : M[i] \in RowsOf(outbox', t) /\ outbox'[M[i]].seq = i
    BY <1>2, ListedChain, SMT
  <2>2. M = [i \in 1 .. m + n |-> M[i]]
    BY <1>2 DEF Listed
  <2> QED
    BY <2>1, <2>2 DEF RowsOf
<1>4. \A i \in 1 .. m : M[i] = L[i]
  <2>1. m <= head'[t].seq /\ head'[t].seq \in Nat
    BY <1>1, SMT
  <2> QED
    BY <1>1, <1>2, <2>1, ListedPrefix, SMT
<1>5. ASSUME NEW i \in 1 .. n
      PROVE  s[i] = M[m + i] /\ m + i \in 1 .. m + n /\ m + i \notin 1 .. m
  BY <1>1, <1>5, <1>s, SMT
<1>6. s \in [1 .. n -> Events] /\ Len(s) = n /\ M = L \o s
  <2>1. s \in [1 .. n -> Events] /\ \A i \in 1 .. n : M[m + i] = s[i]
    BY <1>3, <1>5, <1>s
  <2> HIDE DEF M, L, m
  <2>2. Continues(Events, m, n, L, M, s)
    BY <1>1, <1>3, <1>4, <2>1 DEF Continues
  <2> QED
    BY <2>1, <2>2, Continued
<1>7. History' = [History EXCEPT ![t] = L \o s]
  <2>1. History = [u \in Tenants |-> History[u]] /\ History' = [u \in Tenants |-> History'[u]]
    BY HistoryIs, HistoryAfter
  <2> QED
    BY <1>6, <2>1
<1>8. \A i \in 1 .. n : s[i] \notin Queue!Recorded
  <2> SUFFICES ASSUME NEW i \in 1 .. n, NEW u \in Tenants, s[i] \in Range(History[u]) PROVE FALSE
    BY QueueRange DEF Queue!Recorded
  <2>1. s[i] \in RowsOf(outbox, u) /\ outbox[s[i]].state \in Committed
    <3>1. Range(History[u]) = RowsOf(outbox, u)
      BY Histories
    <3> QED
      BY <3>1 DEF RowsOf
  <2>2. s[i] \in RowsOf(outbox', t) /\ outbox'[s[i]].seq = m + i
    BY <1>3, <1>5
  <2>3. s[i] \in RowsOf(outbox, t) /\ outbox[s[i]].seq = m + i
    BY <2>1, <2>2
  <2>4. outbox[s[i]].seq \in 1 .. m
    BY <1>1, <2>3 DEF IsChain
  <2> QED
    BY <1>5, <2>3, <2>4
<1>9. \A i, j \in 1 .. n : s[i] = s[j] => i = j
  <2> SUFFICES ASSUME NEW i \in 1 .. n, NEW j \in 1 .. n, s[i] = s[j] PROVE i = j
    OBVIOUS
  <2>1. outbox'[s[i]].seq = m + i /\ outbox'[s[j]].seq = m + j
    BY <1>3, <1>5
  <2>2. m + i = m + j
    BY <2>1
  <2> QED
    BY <1>1, <2>2, SMT
<1>10. s \in Injection(1 .. n, Events \ Queue!Recorded)
  <2>1. s \in [1 .. n -> Events \ Queue!Recorded] /\ DOMAIN s = 1 .. n
    BY <1>6, <1>8
  <2> QED
    BY <1>9, <2>1 DEF Injection, IsInjective
<1>11. Queue!Cardinality(Queue!Backlog(t)) = head[t].pending
  <2>1. Queue!Backlog(t) = Outstanding(t)
    BY Histories, QueueRange DEF Queue!Backlog
  <2> QED
    BY <2>1, QueueCardinality DEF Counted
<1>12. head'[t].pending <= MaxPending /\ n \in 1 .. MaxPending /\ head[t].pending + n <= MaxPending
  BY <1>1, ConstantsAssumption, SMT DEF Counted
<1>13. Queue!Record(t, s)
  BY <1>6, <1>7, <1>11, <1>12 DEF Queue!Record
<1> QED
  BY <1>10, <1>12, <1>13, QueueInjection DEF Queue!QueueNext
\* Tenant u keeps its committed rows, each at its place.
Kept(u) == \A e \in RowsOf(outbox, u) : e \in RowsOf(outbox', u) /\ outbox'[e].seq = outbox[e].seq

\* A tenant whose rows and last sequence stay has the same history.
LEMMA HistoryKept ==
    ASSUME TypeOK, Chained, DeliveredIffLogged, Chained', NEW u \in Tenants,
           head'[u].seq = head[u].seq, Kept(u)
    PROVE  History'[u] = History[u]
<1> DEFINE m == head[u].seq
           L == History[u]
           M == History'[u]
<1>1. /\ m \in Nat /\ L = Listed(outbox, u, m) /\ L \in [1 .. m -> Events]
      /\ IsChain(outbox, RowsOf(outbox, u), head[u])
  BY Histories
<1>2. M = Listed(outbox', u, head'[u].seq) /\ IsChain(outbox', RowsOf(outbox', u), head'[u])
  BY HistoryAfter DEF Chained
<1>3. \A e \in RowsOf(outbox, u) : e \in RowsOf(outbox', u) /\ outbox'[e].seq = outbox[e].seq
  BY DEF Kept
<1>4. \A i \in 1 .. m : M[i] = L[i]
  <2>1. m <= head'[u].seq /\ head'[u].seq \in Nat
    BY <1>1, SMT
  <2> QED
    BY <1>1, <1>2, <1>3, <2>1, ListedPrefix, SMT
<1>5. M = [i \in 1 .. m |-> M[i]] /\ L = [i \in 1 .. m |-> L[i]]
  BY <1>1, <1>2 DEF Listed
<1> QED
  BY <1>4, <1>5

LEMMA HistoriesKept ==
    ASSUME TypeOK, Chained, DeliveredIffLogged, Chained',
           \A u \in Tenants : head'[u].seq = head[u].seq /\ Kept(u)
    PROVE  History' = History
<1>1. \A u \in Tenants : History'[u] = History[u]
  BY HistoryKept
<1>2. History = [u \in Tenants |-> History[u]] /\ History' = [u \in Tenants |-> History'[u]]
  BY HistoryIs, HistoryAfter
<1> QED
  BY <1>1, <1>2

\* Steps that leave every committed row and every head's sequence alone.
LEMMA StutterStep ==
    ASSUME TypeOK, Chained, DeliveredIffLogged, Chained', head' = head, log' = log,
           \A e \in Events : outbox[e].state \in Committed =>
               /\ outbox'[e].state \in Committed
               /\ outbox'[e].tenant = outbox[e].tenant /\ outbox'[e].seq = outbox[e].seq
    PROVE  UNCHANGED Queue!queueVars
<1>1. \A u \in Tenants : head'[u].seq = head[u].seq /\ Kept(u)
  BY DEF Kept, RowsOf
<1>2. History' = History
  BY <1>1, HistoriesKept
<1> QED
  BY <1>2 DEF Queue!queueVars

\* The ACK of Deliver is a Deliver of the queue.
LEMMA AckStep ==
    ASSUME TypeOK, Bound, Locked, Leased, Chained, DeliveredIffLogged, Chained',
           NEW w \in Workers, NEW pc, DeliverAck(w, pc)
    PROVE  Queue!QueueNext
<1> DEFINE e == worker[w].event
           t == outbox[e].tenant
<1>1. e \in Events /\ outbox[e].state = "leased"
  BY DEF DeliverAck, Bound, Leased
<1>2. t \in Tenants /\ e \in RowsOf(outbox, t)
  BY <1>1 DEF Locked, Committed, RowsOf
<1>3. /\ outbox'[e].state = "delivered" /\ outbox'[e].tenant = outbox[e].tenant
      /\ outbox'[e].seq = outbox[e].seq /\ \A f \in Events \ {e} : outbox'[f] = outbox[f]
  BY AckRow
<1>4. \A u \in Tenants : Kept(u)
  BY <1>3 DEF Kept, RowsOf, Committed
<1>5. \A u \in Tenants : head'[u].seq = head[u].seq
  <2>1. head \in [Tenants -> HeadRow] /\ head' = [head EXCEPT ![t].pending = IF @ > 0 THEN @ - 1 ELSE @]
    BY DEF DeliverAck, TypeOK
  <2> QED
    BY <1>2, <2>1 DEF HeadRow
<1>6. History' = History
  BY <1>4, <1>5, HistoriesKept
<1>7. e \in Range(History[t])
  <2>1. Range(History[t]) = RowsOf(outbox, t)
    BY <1>2, Histories
  <2> QED
    BY <1>2, <2>1
<1>8. e \in Queue!Recorded /\ e \notin log
  BY <1>1, <1>2, <1>7, QueueRange DEF Queue!Recorded, DeliveredIffLogged
<1>9. log' = log \cup {e}
  BY DEF DeliverAck
<1> QED
  BY <1>1, <1>6, <1>8, <1>9 DEF Queue!QueueNext, Queue!Deliver

\* An admission outside any operation records one event.
LEMMA AloneStep ==
    ASSUME TypeOK, Chained, Counted, DeliveredIffLogged, TypeOK', Chained', Counted',
           NEW t \in Tenants, NEW e \in Events, NEW ok, AdmitAlone(t, e, ok)
    PROVE  Queue!QueueNext
<1>1. /\ outbox[e].state = "none" /\ outbox'[e].state = "pending" /\ outbox'[e].tenant = t
      /\ \A f \in Events \ {e} : outbox'[f] = outbox[f]
  BY DEF AdmitAlone, NewRow, TypeOK
<1>2. /\ head'[t].seq = head[t].seq + 1 /\ head'[t].pending = head[t].pending + 1
      /\ (\A u \in Tenants \ {t} : head'[u] = head[u]) /\ log' = log
  BY DEF AdmitAlone, Advance, TypeOK, deliveryVars
<1>3. \A u \in Tenants : Kept(u)
  BY <1>1 DEF Kept, RowsOf, Committed
<1>4. \A u \in Tenants \ {t} : History'[u] = History[u]
  BY <1>2, <1>3, HistoryKept
<1>5. \A f \in RowsOf(outbox', t) : f \in RowsOf(outbox, t) \/ outbox[f].state \notin Committed
  BY <1>1 DEF RowsOf, Committed
<1>6. 1 \in Nat \ {0}
  BY SMT
<1> QED
  BY <1>2, <1>3, <1>4, <1>5, <1>6, RecordStep DEF Kept

\* A commit records what its operation admitted, or nothing.
LEMMA CommitStep ==
    ASSUME TypeOK, Locked, Chained, Counted, Balanced, DeliveredIffLogged,
           TypeOK', Chained', Counted', NEW p \in Ops, NEW r, NEW reply, Commit(p, r, reply)
    PROVE  Queue!QueueNext \/ UNCHANGED Queue!queueVars
<1>1. ASSUME NEW e \in Events
      PROVE  /\ outbox'[e].tenant = outbox[e].tenant /\ outbox'[e].seq = outbox[e].seq
             /\ e \notin op[p].staged => outbox'[e].state = outbox[e].state
             /\ e \in op[p].staged => outbox[e].state = "staged" /\ outbox'[e].state = "pending"
  BY SMT DEF Commit, TypeOK, Row, Locked
<1>2. \A u \in Tenants : Kept(u)
  BY <1>1 DEF Kept, RowsOf, Committed
<1>3. \A u \in Tenants : lock[u] # p => head'[u] = head[u]
  BY DEF Commit
<1>4. log' = log
  BY DEF Commit, deliveryVars
<1>5. CASE \A u \in Tenants : head'[u].seq = head[u].seq
  <2>1. History' = History
    BY <1>2, <1>5, HistoriesKept
  <2> QED
    BY <1>4, <2>1 DEF Queue!queueVars
<1>6. ASSUME NEW t \in Tenants, head'[t].seq # head[t].seq
      PROVE  Queue!QueueNext
  <2>1. lock[t] = p /\ head'[t] = View(t)
    BY <1>3, <1>6, ConstantsAssumption DEF Commit, View
  <2>2. \A u \in Tenants \ {t} : lock[u] # p
    <3>1. p # None
      BY ConstantsAssumption
    <3>2. \A u \in Tenants : lock[u] = p => op[p].tenant = u
      BY <3>1 DEF Locked
    <3> QED
      BY <2>1, <3>2
  <2>3. \A u \in Tenants \ {t} : History'[u] = History[u]
    BY <1>2, <1>3, <2>2, HistoryKept
  <2>4. \A e \in RowsOf(outbox', t) : e \in RowsOf(outbox, t) \/ outbox[e].state \notin Committed
    BY <1>1 DEF RowsOf, Committed
  <2>5. head[t] \in HeadRow /\ head'[t] \in HeadRow
    BY DEF TypeOK
  <2>6. head[t].seq <= head'[t].seq
    <3>1. CASE head[t].seq = 0
      BY <2>5, <3>1, SMT DEF HeadRow
    <3>2. CASE head[t].seq # 0
      <4>1. head[t].hash \in Rows(t, Committed) /\ outbox[head[t].hash].seq = head[t].seq
        BY <3>2 DEF Chained, IsChain
      <4>2. head[t].hash \in All(t)
        BY <4>1 DEF All, Rows
      <4>3. outbox[head[t].hash].seq \in 1 .. View(t).seq
        BY <4>2 DEF Chained, IsChain
      <4> QED
        BY <2>1, <2>5, <4>1, <4>3, SMT DEF HeadRow
    <3> QED
      BY <3>1, <3>2
  <2>7. head'[t].seq + head[t].pending = head[t].seq + head'[t].pending
    BY <2>1 DEF Balanced
  <2>8. PICK n \in Nat \ {0} : head'[t].seq = head[t].seq + n /\ head'[t].pending = head[t].pending + n
    <3> DEFINE n == head'[t].seq - head[t].seq
    <3>1. n \in Nat \ {0} /\ head'[t].seq = head[t].seq + n /\ head'[t].pending = head[t].pending + n
      BY <1>6, <2>5, <2>6, <2>7, SMT DEF HeadRow
    <3> QED
      BY <3>1
  <2> QED
    BY <1>2, <1>4, <2>3, <2>4, <2>8, RecordStep DEF Kept
<1> QED
  BY <1>5, <1>6

\* Every step of the outbox is a step of the queue, or changes nothing it sees.
LEMMA QueueStep ==
    ASSUME TypeOK, Bound, Locked, Leased, Counted, Chained, Balanced, DeliveredIffLogged,
           TypeOK', Counted', Chained', [Next]_vars
    PROVE  [Queue!QueueNext]_(Queue!queueVars)
<1>1. CASE QuietStep
  <2>1. Quiet
    BY <1>1, QuietSteps
  <2>2. head' = head /\ log' = log
    BY <2>1 DEF Quiet
  <2>3. \A e \in Events : outbox[e].state \in Committed =>
            /\ outbox'[e].state \in Committed
            /\ outbox'[e].tenant = outbox[e].tenant /\ outbox'[e].seq = outbox[e].seq
    BY <2>1 DEF Quiet, Undelivered, Committed
  <2> QED
    BY <2>2, <2>3, StutterStep
<1>2. ASSUME NEW p \in Ops, (\E t \in Tenants : Begin(p, t)) \/ AdmitFull(p) \/ AdmitError(p)
      PROVE  UNCHANGED Queue!queueVars
  <2>1. head' = head /\ log' = log /\ outbox' = outbox
    BY <1>2 DEF Begin, AdmitFull, AdmitError, deliveryVars
  <2> QED
    BY <2>1, StutterStep
<1>3. ASSUME NEW p \in Ops, NEW e \in Events, NEW ok \in BOOLEAN, Admit(p, e, ok)
      PROVE  UNCHANGED Queue!queueVars
  <2>1. head' = head /\ log' = log /\ outbox[e].state \notin Committed
    BY <1>3 DEF Admit, deliveryVars, Committed
  <2>2. \A f \in Events \ {e} : outbox'[f] = outbox[f]
    BY <1>3 DEF Admit, TypeOK
  <2> QED
    BY <2>1, <2>2, StutterStep
<1>4. ASSUME NEW p \in Ops, NEW reply, Undo(p, reply)
      PROVE  UNCHANGED Queue!queueVars
  <2>1. head' = head /\ log' = log
    BY <1>4 DEF Undo, deliveryVars
  <2>2. \A e \in Events : outbox[e].state \in Committed => outbox'[e] = outbox[e]
    BY <1>4 DEF Undo, Locked, Committed
  <2> QED
    BY <2>1, <2>2, StutterStep
<1> QED
  BY NextCases, <1>1, <1>2, <1>3, <1>4, CommitStep, AloneStep, AckStep

\* The outbox implements AuditQueue: whatever operations, workers, crashes and
\* rollbacks interleave, each tenant's evidence is one append-only history that
\* grows by the events of whole operations and within AUDIT_MAX_PENDING, and
\* what reaches audit_logs was recorded and stays.
THEOREM OutboxImplementsQueue == Spec => ImplementsQueue
<1> DEFINE IInv == /\ TypeOK /\ Bound /\ Locked /\ Leased /\ Counted /\ Chained
                   /\ Balanced /\ DeliveredIffLogged
<1>1. Init => IInv
  <2>1. Init => DeliveredIffLogged
    BY SMT DEF Init, DeliveredIffLogged, NoRow
  <2> QED
    BY <2>1, TypeInit, LockedInit, LeasedInit, CountedInit, ChainedInit, BalancedInit
<1>2. IInv /\ [Next]_vars => IInv'
  BY TypeNext, LockedNext, LeasedNext, CountedNext, ChainedNext, BalancedNext, LoggedNext
<1>3. Init => Queue!QueueInit
  <2> SUFFICES ASSUME Init PROVE Queue!QueueInit
    OBVIOUS
  <2>1. \A t \in Tenants : head[t].seq = 0
    BY DEF Init, NoHead
  <2>2. \A t \in Tenants : Listed(outbox, t, 0) = <<>>
    BY SMT DEF Listed
  <2>3. History = [t \in Tenants |-> <<>>]
    BY <2>1, <2>2, HistoryIs
  <2> QED
    BY <2>3 DEF Init, Queue!QueueInit
<1>4. IInv /\ IInv' /\ [Next]_vars => [Queue!QueueNext]_(Queue!queueVars)
  BY QueueStep
<1> QED
  BY <1>1, <1>2, <1>3, <1>4, PTL DEF Spec, ImplementsQueue, Queue!QueueSpec

(***************************************************************************)
(* Retention.  A checkpoint lies on the tenant's chain, so that rows which *)
(* verify between two of them are all the rows there are between the two.  *)
(***************************************************************************)
Between(t, p, q) == {e \in Rows(t, Committed) : outbox[e].seq > p.seq /\ outbox[e].seq <= q.seq}

LEMMA RowSeq ==
    ASSUME TypeOK, Chained, NEW t \in Tenants, NEW e \in Rows(t, Committed)
    PROVE  /\ e \in Events /\ outbox[e].seq \in Nat /\ outbox[e].seq \in 1 .. head[t].seq
           /\ \A f \in Rows(t, Committed) : outbox[f].seq = outbox[e].seq => f = e
<1>1. e \in Events
  BY DEF Rows
<1> QED
  BY <1>1 DEF TypeOK, Row, Chained, IsChain

LEMMA Points ==
    ASSUME TypeOK, Chained, NEW t \in Tenants, NEW p \in KnownPoints(t)
    PROVE  /\ p.seq \in Nat /\ p.seq <= head[t].seq /\ head[t].seq \in Nat
           /\ p = [seq |-> p.seq, hash |-> p.hash]
           /\ p.seq = 0 => p.hash = Genesis
           /\ p.seq # 0 => p.hash \in Rows(t, Committed) /\ outbox[p.hash].seq = p.seq
<1>h. head[t].seq \in Nat
  BY DEF TypeOK, HeadRow
<1>1. CASE p = GenesisPoint
  <2>1. p.seq = 0 /\ p.hash = Genesis /\ p = [seq |-> p.seq, hash |-> p.hash]
    BY <1>1 DEF GenesisPoint
  <2> QED
    BY <1>h, <2>1, SMT
<1>2. ASSUME NEW e \in Rows(t, Committed), p = PointOf(e)
      PROVE  /\ p.seq = outbox[e].seq /\ p.hash = e /\ p = [seq |-> p.seq, hash |-> p.hash]
             /\ p.seq \in 1 .. head[t].seq /\ p.seq \in Nat
  <2>1. p.seq = outbox[e].seq /\ p.hash = e /\ p = [seq |-> p.seq, hash |-> p.hash]
    BY <1>2 DEF PointOf
  <2> QED
    BY <2>1, RowSeq
<1>3. ASSUME p.seq \in 1 .. head[t].seq PROVE p.seq <= head[t].seq /\ p.seq # 0
  BY <1>3, <1>h, SMT
<1> QED
  BY <1>1, <1>2, <1>3, <1>h DEF KnownPoints

\* What verifyEvents accepts between two checkpoints of a chain.
LEMMA Verifies ==
    ASSUME TypeOK, Chained, NEW t \in Tenants, NEW p \in KnownPoints(t), NEW q \in KnownPoints(t),
           NEW R, R \subseteq Between(t, p, q)
    PROVE  verifyEvents(p, q, R) <=> p.seq <= q.seq /\ R = Between(t, p, q)
<1> DEFINE B == Between(t, p, q)
           C == Rows(t, Committed)
<1>p. /\ p.seq \in Nat /\ q.seq \in Nat /\ q.seq <= head[t].seq /\ head[t].seq \in Nat
      /\ p.seq = 0 => p.hash = Genesis
      /\ p.seq # 0 => p.hash \in C /\ outbox[p.hash].seq = p.seq
      /\ q.seq = 0 => q.hash = Genesis
      /\ q.seq # 0 => q.hash \in C /\ outbox[q.hash].seq = q.seq
  BY Points
<1>n. \A n \in 1 .. head[t].seq : \E e \in C : outbox[e].seq = n
  BY DEF Chained, IsChain
<1>u. \A e, f \in C : outbox[e].seq = outbox[f].seq => e = f
  BY DEF Chained, IsChain
<1>c. \A e \in C : IF outbox[e].seq = 1 THEN outbox[e].prev = Genesis
                   ELSE outbox[e].prev \in C /\ outbox[outbox[e].prev].seq = outbox[e].seq - 1
  BY DEF Chained, IsChain
<1>s. \A e \in C : outbox[e].seq \in Nat
  BY RowSeq
<1>b. \A e \in B : e \in C /\ outbox[e].seq \in p.seq + 1 .. q.seq
  <2> SUFFICES ASSUME NEW e \in C, outbox[e].seq > p.seq, outbox[e].seq <= q.seq
               PROVE  outbox[e].seq \in p.seq + 1 .. q.seq
    BY DEF Between
  <2>1. outbox[e].seq \in Nat
    BY <1>s
  <2> QED
    BY <1>p, <2>1, SMT
<1>m. ASSUME NEW e \in C, outbox[e].seq \in p.seq + 1 .. q.seq PROVE e \in B
  <2>1. outbox[e].seq > p.seq /\ outbox[e].seq <= q.seq
    BY <1>p, <1>m, SMT
  <2> QED
    BY <2>1 DEF Between
<1>1. ASSUME verifyEvents(p, q, R) PROVE p.seq <= q.seq /\ R = B
  <2>1. p.seq <= q.seq /\ {outbox[e].seq : e \in R} = p.seq + 1 .. q.seq
    BY <1>1 DEF verifyEvents
  <2>2. ASSUME NEW b \in B PROVE b \in R
    <3>1. b \in C /\ outbox[b].seq \in {outbox[e].seq : e \in R}
      BY <1>b, <2>1
    <3>2. PICK e \in R : outbox[e].seq = outbox[b].seq
      BY <3>1
    <3>3. e \in C
      BY <1>b
    <3> QED
      BY <1>u, <3>1, <3>2, <3>3
  <2> QED
    BY <2>1, <2>2
<1>2. ASSUME p.seq <= q.seq, R = B PROVE verifyEvents(p, q, R)
  <2>1. {outbox[e].seq : e \in B} = p.seq + 1 .. q.seq
    <3>1. ASSUME NEW n \in p.seq + 1 .. q.seq PROVE \E e \in B : outbox[e].seq = n
      <4>1. n \in 1 .. head[t].seq
        BY <1>p, SMT
      <4>2. PICK e \in C : outbox[e].seq = n
        BY <1>n, <4>1
      <4> QED
        BY <1>m, <4>2
    <3> QED
      BY <1>b, <3>1
  <2>2. ASSUME NEW e \in B
        PROVE  outbox[e].prev = IF outbox[e].seq = p.seq + 1 THEN p.hash
                                ELSE CHOOSE f \in B : outbox[f].seq = outbox[e].seq - 1
    <3>1. e \in C /\ outbox[e].seq \in p.seq + 1 .. q.seq
      BY <1>b
    <3>2. CASE outbox[e].seq = p.seq + 1 /\ p.seq = 0
      <4>1. outbox[e].seq = 1
        BY <3>2, SMT
      <4> QED
        BY <1>c, <1>p, <3>1, <3>2, <4>1
    <3>3. CASE outbox[e].seq = p.seq + 1 /\ p.seq # 0
      <4>1. outbox[e].seq # 1 /\ outbox[e].seq - 1 = p.seq
        BY <1>p, <3>3, SMT
      <4>2. outbox[e].prev \in C /\ outbox[outbox[e].prev].seq = p.seq
        BY <1>c, <3>1, <4>1
      <4>3. p.hash \in C /\ outbox[p.hash].seq = p.seq
        BY <1>p, <3>3
      <4>4. outbox[e].prev = p.hash
        BY <1>u, <4>2, <4>3
      <4> QED
        BY <3>3, <4>4
    <3>4. CASE outbox[e].seq # p.seq + 1
      <4> DEFINE n == outbox[e].seq - 1
      <4>1. outbox[e].seq # 1 /\ n \in p.seq + 1 .. q.seq
        BY <1>p, <3>1, <3>4, SMT
      <4>2. outbox[e].prev \in C /\ outbox[outbox[e].prev].seq = n
        BY <1>c, <3>1, <4>1
      <4>3. outbox[e].prev \in B
        BY <1>m, <4>1, <4>2
      <4>4. \A f \in B : outbox[f].seq = n => f = outbox[e].prev
        BY <1>b, <1>u, <4>2
      <4> HIDE DEF n, B
      <4>5. (CHOOSE f \in B : outbox[f].seq = n) = outbox[e].prev
        BY <4>2, <4>3, <4>4
      <4> QED
        BY <3>4, <4>5 DEF n
    <3> QED
      BY <3>2, <3>3, <3>4
  <2>3. CASE B = {}
    <3>1. p.seq = q.seq
      <4>1. p.seq + 1 .. q.seq = {}
        BY <2>1, <2>3
      <4> QED
        BY <1>2, <1>p, <4>1, SMT
    <3>2. q.hash = p.hash
      <4>1. CASE p.seq = 0
        BY <1>p, <3>1, <4>1
      <4>2. CASE p.seq # 0
        <5>1. p.hash \in C /\ q.hash \in C /\ outbox[p.hash].seq = outbox[q.hash].seq
          BY <1>p, <3>1, <4>2
        <5> QED
          BY <1>u, <5>1
      <4> QED
        BY <4>1, <4>2
    <3> QED
      BY <1>2, <2>1, <2>2, <2>3, <3>2 DEF verifyEvents
  <2>4. CASE B # {}
    <3>1. q.seq # 0 /\ q.seq \in p.seq + 1 .. q.seq
      <4>1. PICK e \in B : outbox[e].seq \in p.seq + 1 .. q.seq
        BY <1>b, <2>4
      <4> QED
        BY <1>p, <4>1, SMT
    <3>2. q.hash \in B /\ outbox[q.hash].seq = q.seq
      BY <1>m, <1>p, <3>1
    <3> QED
      BY <1>2, <2>1, <2>2, <2>4, <3>2 DEF verifyEvents
  <2> QED
    BY <2>3, <2>4
<1> QED
  BY <1>1, <1>2

\* What a step of the outbox does to committed rows and to the log.
Moves ==
    \A e \in Events :
        /\ outbox[e].state \in Committed =>
             /\ outbox'[e].state \in Committed
             /\ outbox'[e].tenant = outbox[e].tenant /\ outbox'[e].seq = outbox[e].seq
             /\ outbox[e].state = "delivered" => outbox'[e].state = "delivered"
        /\ outbox[e].state \notin Committed /\ outbox'[e].state \in Committed =>
             /\ outbox'[e].state # "delivered"
             /\ \A t \in Tenants : outbox'[e].tenant = t => ~ (outbox'[e].seq <= head[t].seq)
        /\ e \in log' <=> e \in log \/ (outbox[e].state # "delivered" /\ outbox'[e].state = "delivered")

\* Staged rows come behind all committed ones.
LEMMA StagedAhead ==
    ASSUME TypeOK, Chained, NEW t \in Tenants, NEW e \in Events,
           outbox[e].state = "staged", outbox[e].tenant = t
    PROVE  ~ (outbox[e].seq <= head[t].seq)
<1> SUFFICES ASSUME outbox[e].seq <= head[t].seq PROVE FALSE
  OBVIOUS
<1>1. e \in All(t) /\ e \notin Rows(t, Committed)
  BY DEF All, Rows, Committed
<1>2. outbox[e].seq \in 1 .. View(t).seq /\ head[t].seq \in Nat
  BY <1>1 DEF Chained, IsChain, TypeOK, HeadRow
<1>3. outbox[e].seq \in 1 .. head[t].seq
  BY <1>2, SMT
<1>c. \A n \in 1 .. head[t].seq : \E f \in Rows(t, Committed) : outbox[f].seq = n
  BY DEF Chained, IsChain
<1>4. PICK f \in Rows(t, Committed) : outbox[f].seq = outbox[e].seq
  BY <1>3, <1>c
<1>5. f \in All(t)
  BY DEF All, Rows
<1>u. \A d, g \in All(t) : outbox[d].seq = outbox[g].seq => d = g
  BY DEF Chained, IsChain
<1>6. f = e
  BY <1>1, <1>4, <1>5, <1>u
<1> QED
  BY <1>1, <1>6

LEMMA MovesNext ==
    ASSUME TypeOK, Bound, Locked, Leased, Chained, [Next]_vars
    PROVE  Moves
<1>s. ASSUME log' = log,
             \A e \in Events : \/ outbox'[e] = outbox[e]
                               \/ outbox[e].state \notin Committed /\ outbox'[e].state \notin Committed
      PROVE  Moves
  BY <1>s DEF Moves, Committed
<1>1. CASE QuietStep
  <2>1. Quiet
    BY <1>1, QuietSteps
  <2> QED
    BY <2>1 DEF Quiet, Moves, Committed, Undelivered
<1>2. ASSUME NEW p \in Ops, (\E t \in Tenants : Begin(p, t)) \/ AdmitFull(p) \/ AdmitError(p)
      PROVE  Moves
  <2>1. log' = log /\ outbox' = outbox
    BY <1>2 DEF Begin, AdmitFull, AdmitError, deliveryVars
  <2> QED
    BY <1>s, <2>1
<1>3. ASSUME NEW p \in Ops, NEW e \in Events, NEW ok \in BOOLEAN, Admit(p, e, ok)
      PROVE  Moves
  <2>1. /\ log' = log /\ outbox[e].state = "none" /\ outbox'[e].state = "staged"
        /\ \A f \in Events \ {e} : outbox'[f] = outbox[f]
    BY <1>3 DEF Admit, NewRow, TypeOK, deliveryVars
  <2> QED
    BY <1>s, <2>1 DEF Committed
<1>4. ASSUME NEW p \in Ops, NEW r, NEW reply, Commit(p, r, reply)
      PROVE  Moves
  <2>1. ASSUME NEW e \in Events
        PROVE  /\ outbox'[e].tenant = outbox[e].tenant /\ outbox'[e].seq = outbox[e].seq
               /\ e \notin op[p].staged => outbox'[e].state = outbox[e].state
               /\ e \in op[p].staged => outbox[e].state = "staged" /\ outbox'[e].state = "pending"
    BY <1>4, SMT DEF Commit, TypeOK, Row, Locked
  <2>2. log' = log
    BY <1>4 DEF Commit, deliveryVars
  <2>3. ASSUME NEW e \in Events, NEW t \in Tenants, outbox[e].state = "staged", outbox'[e].tenant = t
        PROVE  ~ (outbox'[e].seq <= head[t].seq)
    BY <2>1, <2>3, StagedAhead
  <2> QED
    BY <2>1, <2>2, <2>3 DEF Moves, Committed
<1>5. ASSUME NEW p \in Ops, NEW reply, Undo(p, reply)
      PROVE  Moves
  <2>1. log' = log
    BY <1>5 DEF Undo, deliveryVars
  <2>2. ASSUME NEW e \in Events
        PROVE  \/ outbox'[e] = outbox[e]
               \/ outbox[e].state = "staged" /\ outbox'[e].state = "none"
    BY <1>5 DEF Undo, Locked, NoRow
  <2> QED
    BY <1>s, <2>1, <2>2 DEF Committed
<1>6. ASSUME NEW t \in Tenants, NEW e \in Events, NEW ok \in BOOLEAN, AdmitAlone(t, e, ok)
      PROVE  Moves
  <2>1. /\ log' = log /\ outbox[e].state = "none" /\ outbox'[e].state = "pending"
        /\ outbox'[e].tenant = t /\ outbox'[e].seq = head[t].seq + 1
        /\ \A f \in Events \ {e} : outbox'[f] = outbox[f]
    BY <1>6 DEF AdmitAlone, NewRow, TypeOK, deliveryVars
  <2>2. head[t].seq \in Nat
    BY DEF TypeOK, HeadRow
  <2>3. ~ (outbox'[e].seq <= head[t].seq)
    BY <2>1, <2>2, SMT
  <2> QED
    BY <2>1, <2>3 DEF Moves, Committed
<1>7. ASSUME NEW w \in Workers, NEW pc \in {"idle", "fail"}, DeliverAck(w, pc)
      PROVE  Moves
  <2> DEFINE e == worker[w].event
  <2>1. e \in Events /\ outbox[e].state = "leased" /\ log' = log \cup {e}
    BY <1>7 DEF DeliverAck, Bound, Leased
  <2>2. /\ outbox'[e].state = "delivered" /\ outbox'[e].tenant = outbox[e].tenant
        /\ outbox'[e].seq = outbox[e].seq /\ \A f \in Events \ {e} : outbox'[f] = outbox[f]
    BY <1>7, AckRow
  <2> HIDE DEF e
  <2> QED
    BY <2>1, <2>2 DEF Moves, Committed
<1> QED
  BY NextCases, <1>1, <1>2, <1>3, <1>4, <1>5, <1>6, <1>7

\* Boundaries, archives and what a verifier has read are checkpoints of the
\* chain, and an archive holds all the rows between its two.
Retained ==
    /\ \A t \in Tenants : boundary[t] \in KnownPoints(t)
    /\ \A a \in archives :
         /\ a.base \in KnownPoints(a.tenant) /\ a.end \in KnownPoints(a.tenant)
         /\ a.base.seq <= a.end.seq /\ a.events = Between(a.tenant, a.base, a.end)
    /\ \A e \in log : outbox[e].state = "delivered"
    /\ \A v \in Verifiers : verifier[v].pc \in {"head", "rows"} => verifier[v].tenant \in Tenants
    /\ \A v \in Verifiers : \A t \in Tenants : verifier[v].tenant = t =>
         /\ verifier[v].pc \in {"head", "rows"} => verifier[v].base \in KnownPoints(t)
         /\ verifier[v].pc = "rows" => verifier[v].end \in KnownPoints(t)

\* The outbox's own invariant, which retention leaves alone.
OutboxInv == TypeOK /\ Bound /\ Locked /\ Leased /\ Counted /\ Chained

RetentionInv == OutboxInv /\ ArchiveTypeOK /\ Retained /\ NothingLost

LEMMA RetentionInit == ArchiveInit => RetentionInv
<1> SUFFICES ASSUME ArchiveInit PROVE RetentionInv
  OBVIOUS
<1>1. OutboxInv
  BY TypeInit, LockedInit, LeasedInit, CountedInit, ChainedInit DEF ArchiveInit, OutboxInv
<1>2. GenesisPoint \in Checkpoints /\ Unstarted \in VerifierState
  BY SMT DEF GenesisPoint, Checkpoints, Hashes, Unstarted, VerifierState
<1>3. ArchiveTypeOK
  BY <1>2 DEF ArchiveInit, ArchiveTypeOK
<1>4. Retained
  <2>1. log = {} /\ archives = {} /\ boundary = [t \in Tenants |-> GenesisPoint]
    BY DEF ArchiveInit, Init
  <2>2. \A v \in Verifiers : verifier[v].pc = "start"
    BY DEF ArchiveInit, Unstarted
  <2> QED
    BY <2>1, <2>2 DEF Retained, KnownPoints
<1>5. NothingLost
  <2>1. \A t \in Tenants : Rows(t, Committed) = {}
    BY DEF ArchiveInit, Init, Rows, NoRow, Committed
  <2> QED
    BY <2>1 DEF NothingLost
<1> QED
  BY <1>1, <1>3, <1>4, <1>5 DEF RetentionInv

\* Checkpoints stay on the chain, and no row comes between two of them.
LEMMA PointsStay ==
    ASSUME TypeOK, TypeOK', Chained, Moves, NEW t \in Tenants
    PROVE  /\ \A p \in KnownPoints(t) : p \in KnownPoints(t)'
           /\ \A p, q \in KnownPoints(t) : Between(t, p, q)' = Between(t, p, q)
<1>1. ASSUME NEW e \in Rows(t, Committed)
      PROVE  e \in Rows(t, Committed)' /\ outbox'[e].seq = outbox[e].seq /\ PointOf(e)' = PointOf(e)
  <2>1. e \in Events /\ outbox[e].tenant = t /\ outbox[e].state \in Committed
    BY DEF Rows
  <2>2. outbox'[e].state \in Committed /\ outbox'[e].tenant = t /\ outbox'[e].seq = outbox[e].seq
    BY <2>1 DEF Moves
  <2> QED
    BY <2>1, <2>2 DEF Rows, PointOf
<1>2. ASSUME NEW p \in KnownPoints(t) PROVE p \in KnownPoints(t)'
  BY <1>1 DEF KnownPoints
<1>3. ASSUME NEW p \in KnownPoints(t), NEW q \in KnownPoints(t)
      PROVE  Between(t, p, q)' = Between(t, p, q)
  <2>1. ASSUME NEW e \in Between(t, p, q) PROVE e \in Between(t, p, q)'
    BY <1>1 DEF Between
  <2>2. ASSUME NEW e \in Between(t, p, q)' PROVE e \in Between(t, p, q)
    <3>1. /\ e \in Events /\ outbox'[e].tenant = t /\ outbox'[e].state \in Committed
          /\ outbox'[e].seq > p.seq /\ outbox'[e].seq <= q.seq
      BY DEF Between, Rows
    <3>2. CASE outbox[e].state \in Committed
      BY <3>1, <3>2 DEF Moves, Between, Rows
    <3>3. CASE outbox[e].state \notin Committed
      <4>1. ~ (outbox'[e].seq <= head[t].seq)
        BY <3>1, <3>3 DEF Moves
      <4>2. q.seq \in Nat /\ q.seq <= head[t].seq /\ head[t].seq \in Nat
        BY Points
      <4>3. outbox'[e].seq \in Nat
        BY <3>1 DEF TypeOK, Row
      <4> QED
        BY <3>1, <4>1, <4>2, <4>3, SMT
    <3> QED
      BY <3>2, <3>3
  <2> QED
    BY <2>1, <2>2
<1> QED
  BY <1>2, <1>3

\* The steps of the outbox beside the archives.
LEMMA OutboxRetains ==
    ASSUME RetentionInv, [Next]_vars, UNCHANGED archiveVars
    PROVE  RetentionInv'
<1>1. TypeOK /\ Bound /\ Locked /\ Leased /\ Counted /\ Chained /\ ArchiveTypeOK /\ Retained /\ NothingLost
  BY DEF RetentionInv, OutboxInv
<1>2. boundary' = boundary /\ archives' = archives /\ verifier' = verifier
  BY DEF archiveVars
<1>3. Moves
  BY <1>1, MovesNext
<1>4. TypeOK' /\ OutboxInv'
  BY <1>1, TypeNext, LockedNext, LeasedNext, CountedNext, ChainedNext DEF OutboxInv
<1>5. ASSUME NEW t \in Tenants
      PROVE  /\ \A p \in KnownPoints(t) : p \in KnownPoints(t)'
             /\ \A p, q \in KnownPoints(t) : Between(t, p, q)' = Between(t, p, q)
  BY <1>1, <1>3, <1>4, PointsStay
<1>6. ArchiveTypeOK'
  BY <1>1, <1>2 DEF ArchiveTypeOK
<1>7. Retained'
  <2>1. \A t \in Tenants : boundary'[t] \in KnownPoints(t)'
    BY <1>1, <1>2, <1>5 DEF Retained
  <2>2. ASSUME NEW a \in archives
        PROVE  /\ a.base \in KnownPoints(a.tenant)' /\ a.end \in KnownPoints(a.tenant)'
               /\ a.base.seq <= a.end.seq /\ a.events = Between(a.tenant, a.base, a.end)'
    <3>1. a.tenant \in Tenants
      BY <1>1 DEF ArchiveTypeOK, Archives
    <3>2. /\ a.base \in KnownPoints(a.tenant) /\ a.end \in KnownPoints(a.tenant)
          /\ a.base.seq <= a.end.seq /\ a.events = Between(a.tenant, a.base, a.end)
      BY <1>1 DEF Retained
    <3> QED
      BY <1>5, <3>1, <3>2
  <2>3. \A e \in log' : outbox'[e].state = "delivered"
    <3>1. log' \subseteq Events
      BY <1>4 DEF TypeOK
    <3> QED
      BY <1>1, <1>3, <3>1 DEF Retained, Moves, Committed
  <2>4. ASSUME NEW v \in Verifiers
        PROVE  /\ verifier[v].pc \in {"head", "rows"} => verifier[v].tenant \in Tenants
               /\ \A t \in Tenants : verifier[v].tenant = t =>
                    /\ verifier[v].pc \in {"head", "rows"} => verifier[v].base \in KnownPoints(t)'
                    /\ verifier[v].pc = "rows" => verifier[v].end \in KnownPoints(t)'
    BY <1>1, <1>5 DEF Retained
  <2> QED
    BY <1>2, <2>1, <2>2, <2>3, <2>4 DEF Retained
<1>8. NothingLost'
  <2> SUFFICES ASSUME NEW t \in Tenants, NEW e \in Rows(t, Committed)'
               PROVE  IF outbox'[e].seq > boundary[t].seq
                      THEN outbox'[e].state = "delivered" => e \in log'
                      ELSE /\ outbox'[e].state = "delivered" /\ e \notin log'
                           /\ \E a \in archives : e \in a.events
    BY <1>2 DEF NothingLost
  <2>1. e \in Events /\ outbox'[e].tenant = t /\ outbox'[e].state \in Committed
    BY DEF Rows
  <2>2. CASE outbox[e].state \in Committed
    <3>1. /\ outbox'[e].seq = outbox[e].seq /\ outbox[e].tenant = t
          /\ outbox[e].state = "delivered" => outbox'[e].state = "delivered"
          /\ e \in log' <=> e \in log \/ (outbox[e].state # "delivered" /\ outbox'[e].state = "delivered")
      BY <1>3, <2>1, <2>2 DEF Moves
    <3>2. e \in Rows(t, Committed)
      BY <2>1, <2>2, <3>1 DEF Rows
    <3>3. IF outbox[e].seq > boundary[t].seq
          THEN outbox[e].state = "delivered" => e \in log
          ELSE /\ outbox[e].state = "delivered" /\ e \notin log
               /\ \E a \in archives : e \in a.events
      BY <1>1, <3>2 DEF NothingLost
    <3> QED
      BY <3>1, <3>3
  <2>3. CASE outbox[e].state \notin Committed
    <3>1. ~ (outbox'[e].seq <= head[t].seq) /\ outbox'[e].state # "delivered"
      BY <1>3, <2>1, <2>3 DEF Moves
    <3>2. boundary[t].seq \in Nat /\ boundary[t].seq <= head[t].seq /\ head[t].seq \in Nat
      BY <1>1, Points DEF Retained
    <3>3. outbox'[e].seq \in Nat
      BY <1>4, <2>1 DEF TypeOK, Row
    <3>4. outbox'[e].seq > boundary[t].seq
      BY <3>1, <3>2, <3>3, SMT
    <3> QED
      BY <3>1, <3>4
  <2> QED
    BY <2>2, <2>3
<1> QED
  BY <1>4, <1>6, <1>7, <1>8 DEF RetentionInv

\* The other steps change no row.
LEMMA OutboxKept ==
    ASSUME OutboxInv, log' \subseteq Events,
           UNCHANGED <<head, lock, outbox, minted, requeued, op, worker>>
    PROVE  /\ OutboxInv'
           /\ \A t : Rows(t, Committed)' = Rows(t, Committed) /\ KnownPoints(t)' = KnownPoints(t)
           /\ \A t, p, q : Between(t, p, q)' = Between(t, p, q)
<1>1. \A t, X : Rows(t, X)' = Rows(t, X)
  BY DEF Rows
<1>2. \A t : KnownPoints(t)' = KnownPoints(t)
  BY <1>1 DEF KnownPoints, PointOf
<1>3. \A t, p, q : Between(t, p, q)' = Between(t, p, q)
  BY <1>1 DEF Between
<1>4. TypeOK' /\ Bound' /\ Locked' /\ Leased'
  <2>1. TypeOK'
    BY DEF OutboxInv, TypeOK
  <2>2. Bound'
    BY DEF OutboxInv, Bound
  <2>3. Locked'
    BY DEF OutboxInv, Locked
  <2>4. Leased'
    BY DEF OutboxInv, Leased
  <2> QED
    BY <2>1, <2>2, <2>3, <2>4
<1>5. Counted' /\ Chained'
  BY <1>1 DEF OutboxInv, Counted, Chained, Live, All, View, Outstanding
<1> QED
  BY <1>1, <1>2, <1>3, <1>4, <1>5 DEF OutboxInv

\* The log rows between two checkpoints are committed rows between them.
LEMMA LogRowsBetween ==
    ASSUME TypeOK, Retained, NEW t, NEW p, NEW q
    PROVE  LogRows(t, p.seq, q.seq) \subseteq Between(t, p, q)
<1>1. \A e \in log : e \in Events /\ outbox[e].state = "delivered"
  BY DEF TypeOK, Retained
<1> QED
  BY <1>1 DEF LogRows, Between, Rows, Committed

LEMMA ArchiveRetains ==
    ASSUME RetentionInv, NEW t \in Tenants, NEW last \in Events, NEW base \in KnownPoints(t),
           Archive(t, base, last)
    PROVE  RetentionInv'
<1> DEFINE end == PointOf(last)
           R == LogRows(t, base.seq, end.seq)
           new == [tenant |-> t, base |-> base, end |-> end, events |-> R]
<1>1. TypeOK /\ Chained /\ OutboxInv /\ ArchiveTypeOK /\ Retained /\ NothingLost
  BY DEF RetentionInv, OutboxInv
<1>2. /\ UNCHANGED <<head, lock, outbox, minted, requeued, op, worker>> /\ log' = log
      /\ boundary' = boundary /\ verifier' = verifier /\ archives' = archives \cup {new}
      /\ last \in log /\ outbox[last].tenant = t /\ verifyEvents(base, end, R)
  BY DEF Archive, vars
<1>3. /\ OutboxInv'
      /\ \A u : Rows(u, Committed)' = Rows(u, Committed) /\ KnownPoints(u)' = KnownPoints(u)
      /\ \A u, p, q : Between(u, p, q)' = Between(u, p, q)
  <2>1. log' \subseteq Events
    BY <1>1, <1>2 DEF TypeOK
  <2> QED
    BY <1>1, <1>2, <2>1, OutboxKept
<1>4. last \in Rows(t, Committed) /\ end \in KnownPoints(t)
  BY <1>1, <1>2 DEF Retained, Rows, Committed, KnownPoints
<1>5. base.seq <= end.seq /\ R = Between(t, base, end)
  <2>1. R \subseteq Between(t, base, end)
    BY <1>1, LogRowsBetween
  <2> HIDE DEF end, R
  <2> QED
    BY <1>1, <1>2, <1>4, <2>1, Verifies
<1>6. new.tenant = t /\ new.base = base /\ new.end = end /\ new.events = R
  OBVIOUS
<1>7. new \in Archives
  <2>1. \A p \in KnownPoints(t) : p \in Checkpoints
    <3>1. \A e \in Rows(t, Committed) : e \in Events /\ outbox[e].seq \in Nat
      BY <1>1, RowSeq
    <3> QED
      BY <3>1, SMT DEF KnownPoints, PointOf, GenesisPoint, Checkpoints, Hashes
  <2>2. R \in SUBSET Events
    BY <1>1 DEF LogRows, TypeOK
  <2> HIDE DEF end, R
  <2> QED
    BY <1>4, <2>1, <2>2 DEF Archives
<1> HIDE DEF new, end, R
<1>8. ArchiveTypeOK'
  BY <1>1, <1>2, <1>7 DEF ArchiveTypeOK
<1>9. Retained'
  <2>1. ASSUME NEW a \in archives'
        PROVE  /\ a.base \in KnownPoints(a.tenant) /\ a.end \in KnownPoints(a.tenant)
               /\ a.base.seq <= a.end.seq /\ a.events = Between(a.tenant, a.base, a.end)
    <3>1. CASE a \in archives
      BY <1>1, <3>1 DEF Retained
    <3>2. CASE a = new
      BY <1>4, <1>5, <1>6, <3>2
    <3> QED
      BY <1>2, <3>1, <3>2
  <2> QED
    BY <1>1, <1>2, <1>3, <2>1 DEF Retained
<1>10. NothingLost'
  BY <1>1, <1>2, <1>3 DEF NothingLost
<1> QED
  BY <1>3, <1>8, <1>9, <1>10 DEF RetentionInv

\* A purge or a restore moves one boundary between the checkpoints of an archive
\* and takes the rows between them out of the log, or back into it.
LEMMA BoundaryRetains ==
    ASSUME RetentionInv, NEW a \in archives, NEW p, p \in {a.base, a.end},
           UNCHANGED <<head, lock, outbox, minted, requeued, op, worker, archives, verifier>>,
           boundary' = [boundary EXCEPT ![a.tenant] = p],
           log' \subseteq log \cup a.events,
           \A e \in a.events : outbox[e].state = "delivered",
           \A e \in Rows(a.tenant, Committed) :
               IF outbox[e].seq > p.seq THEN outbox[e].state = "delivered" => e \in log'
               ELSE /\ outbox[e].state = "delivered" /\ e \notin log'
                    /\ \E b \in archives : e \in b.events,
           \A e \in Events : outbox[e].tenant # a.tenant => (e \in log' <=> e \in log)
    PROVE  RetentionInv'
<1>1. TypeOK /\ OutboxInv /\ ArchiveTypeOK /\ Retained /\ NothingLost
  BY DEF RetentionInv, OutboxInv
<1>2. /\ a.tenant \in Tenants /\ p \in Checkpoints /\ p \in KnownPoints(a.tenant)
      /\ a.events \subseteq Events
  BY <1>1 DEF ArchiveTypeOK, Archives, Retained
<1>3. /\ OutboxInv'
      /\ \A u : Rows(u, Committed)' = Rows(u, Committed) /\ KnownPoints(u)' = KnownPoints(u)
      /\ \A u, r, q : Between(u, r, q)' = Between(u, r, q)
  <2>1. log' \subseteq Events
    BY <1>1, <1>2 DEF TypeOK
  <2> QED
    BY <1>1, <2>1, OutboxKept
<1>4. /\ boundary' \in [Tenants -> Checkpoints] /\ boundary'[a.tenant] = p
      /\ \A t \in Tenants \ {a.tenant} : boundary'[t] = boundary[t]
  BY <1>1, <1>2 DEF ArchiveTypeOK
<1>5. ArchiveTypeOK'
  BY <1>1, <1>4 DEF ArchiveTypeOK
<1>6. Retained'
  <2>1. \A t \in Tenants : boundary'[t] \in KnownPoints(t)
    BY <1>1, <1>2, <1>4 DEF Retained
  <2>2. \A e \in log' : outbox[e].state = "delivered"
    BY <1>1 DEF Retained
  <2> QED
    BY <1>1, <1>3, <2>1, <2>2 DEF Retained
<1>7. NothingLost'
  <2> SUFFICES ASSUME NEW t \in Tenants, NEW e \in Rows(t, Committed)
               PROVE  IF outbox[e].seq > boundary'[t].seq
                      THEN outbox[e].state = "delivered" => e \in log'
                      ELSE /\ outbox[e].state = "delivered" /\ e \notin log'
                           /\ \E b \in archives : e \in b.events
    BY <1>3 DEF NothingLost
  <2>1. CASE t = a.tenant
    BY <1>4, <2>1
  <2>2. CASE t # a.tenant
    <3>1. e \in log' <=> e \in log
      BY <2>2 DEF Rows
    <3> QED
      BY <1>1, <1>4, <2>2, <3>1 DEF NothingLost
  <2> QED
    BY <2>1, <2>2
<1> QED
  BY <1>3, <1>5, <1>6, <1>7 DEF RetentionInv

LEMMA PurgeRetains ==
    ASSUME RetentionInv, NEW a \in archives, PurgeArchive(a)
    PROVE  RetentionInv'
<1> DEFINE t == a.tenant
           R == LogRows(t, a.base.seq, a.end.seq)
<1>1. TypeOK /\ Chained /\ ArchiveTypeOK /\ Retained /\ NothingLost
  BY DEF RetentionInv, OutboxInv
<1>2. /\ UNCHANGED <<head, lock, outbox, minted, requeued, op, worker, archives, verifier>>
      /\ boundary' = [boundary EXCEPT ![t] = a.end] /\ boundary[t] = a.base
      /\ verifyEvents(a.base, a.end, R) /\ log' = log \ R
  BY DEF PurgeArchive
<1>3. /\ t \in Tenants /\ a.base \in KnownPoints(t) /\ a.end \in KnownPoints(t)
      /\ a.base.seq <= a.end.seq /\ a.events = Between(t, a.base, a.end)
  BY <1>1 DEF Retained, ArchiveTypeOK, Archives
<1>4. R = a.events
  <2>1. R \subseteq Between(t, a.base, a.end)
    BY <1>1, LogRowsBetween
  <2>2. /\ TypeOK /\ Chained /\ t \in Tenants /\ a.base \in KnownPoints(t) /\ a.end \in KnownPoints(t)
        /\ verifyEvents(a.base, a.end, R)
    BY <1>1, <1>2, <1>3
  <2> HIDE DEF R, t
  <2>3. R = Between(t, a.base, a.end)
    BY <2>1, <2>2, Verifies
  <2> QED
    BY <1>3, <2>3
<1>5. \A e \in R : e \in log /\ outbox[e].tenant = t /\ outbox[e].state = "delivered"
  BY <1>1 DEF LogRows, Retained
<1> HIDE DEF R
<1>6. ASSUME NEW e \in Rows(t, Committed)
      PROVE  IF outbox[e].seq > a.end.seq THEN outbox[e].state = "delivered" => e \in log'
             ELSE /\ outbox[e].state = "delivered" /\ e \notin log'
                  /\ \E b \in archives : e \in b.events
  <2>1. IF outbox[e].seq > a.base.seq THEN outbox[e].state = "delivered" => e \in log
        ELSE /\ outbox[e].state = "delivered" /\ e \notin log
             /\ \E b \in archives : e \in b.events
    BY <1>1, <1>2, <1>3 DEF NothingLost
  <2>2. /\ outbox[e].seq \in Nat /\ a.base.seq \in Nat /\ a.end.seq \in Nat
    BY <1>1, <1>3, RowSeq, Points
  <2>3. CASE outbox[e].seq > a.end.seq
    <3>1. outbox[e].seq > a.base.seq /\ ~ (outbox[e].seq <= a.end.seq)
      BY <1>3, <2>2, <2>3, SMT
    <3>2. e \notin R
      BY <1>3, <1>4, <3>1 DEF Between
    <3> QED
      BY <1>2, <2>1, <2>3, <3>1, <3>2
  <2>4. CASE ~ (outbox[e].seq > a.end.seq)
    <3>1. outbox[e].seq <= a.end.seq
      BY <2>2, <2>4, SMT
    <3>2. CASE outbox[e].seq > a.base.seq
      <4>1. e \in R
        BY <1>3, <1>4, <3>1, <3>2 DEF Between
      <4> QED
        BY <1>2, <1>4, <1>5, <2>4, <4>1
    <3>3. CASE ~ (outbox[e].seq > a.base.seq)
      BY <1>2, <2>1, <2>4, <3>3
    <3> QED
      BY <3>2, <3>3
  <2> QED
    BY <2>3, <2>4
<1>7. \A e \in Events : outbox[e].tenant # t => (e \in log' <=> e \in log)
  BY <1>2, <1>5
<1> QED
  BY <1>2, <1>4, <1>5, <1>6, <1>7, BoundaryRetains

LEMMA RestoreRetains ==
    ASSUME RetentionInv, NEW a \in archives, RestoreArchive(a)
    PROVE  RetentionInv'
<1> DEFINE t == a.tenant
<1>1. TypeOK /\ Chained /\ ArchiveTypeOK /\ Retained /\ NothingLost
  BY DEF RetentionInv, OutboxInv
<1>2. /\ UNCHANGED <<head, lock, outbox, minted, requeued, op, worker, archives, verifier>>
      /\ boundary' = [boundary EXCEPT ![t] = a.base] /\ boundary[t] = a.end
      /\ log' = log \cup a.events
  BY DEF RestoreArchive
<1>3. /\ t \in Tenants /\ a.base \in KnownPoints(t) /\ a.end \in KnownPoints(t)
      /\ a.base.seq <= a.end.seq /\ a.events = Between(t, a.base, a.end)
  BY <1>1 DEF Retained, ArchiveTypeOK, Archives
<1>4. ASSUME NEW e \in Rows(t, Committed)
      PROVE  /\ IF outbox[e].seq > a.end.seq THEN outbox[e].state = "delivered" => e \in log
                ELSE /\ outbox[e].state = "delivered" /\ e \notin log
                     /\ \E b \in archives : e \in b.events
             /\ outbox[e].seq \in Nat /\ a.base.seq \in Nat /\ a.end.seq \in Nat
  <2>1. outbox[e].seq \in Nat /\ a.base.seq \in Nat /\ a.end.seq \in Nat
    BY <1>1, <1>3, RowSeq, Points
  <2> QED
    BY <1>1, <1>2, <1>3, <2>1 DEF NothingLost
<1>5. ASSUME NEW e \in a.events PROVE outbox[e].tenant = t /\ outbox[e].state = "delivered"
  <2>1. e \in Rows(t, Committed) /\ outbox[e].seq <= a.end.seq
    BY <1>3 DEF Between
  <2>2. ~ (outbox[e].seq > a.end.seq)
    BY <1>4, <2>1, SMT
  <2> QED
    BY <1>4, <2>1, <2>2 DEF Rows
<1>6. ASSUME NEW e \in Rows(t, Committed)
      PROVE  IF outbox[e].seq > a.base.seq THEN outbox[e].state = "delivered" => e \in log'
             ELSE /\ outbox[e].state = "delivered" /\ e \notin log'
                  /\ \E b \in archives : e \in b.events
  <2>1. CASE outbox[e].seq > a.base.seq
    <3>1. outbox[e].seq > a.end.seq \/ outbox[e].seq <= a.end.seq
      BY <1>4, SMT
    <3>2. outbox[e].seq <= a.end.seq => e \in a.events
      BY <1>3, <2>1 DEF Between
    <3> QED
      BY <1>2, <1>4, <2>1, <3>1, <3>2
  <2>2. CASE ~ (outbox[e].seq > a.base.seq)
    <3>1. ~ (outbox[e].seq > a.end.seq)
      BY <1>3, <1>4, <2>2, SMT
    <3>2. e \notin a.events
      BY <1>3, <2>2 DEF Between
    <3> QED
      BY <1>2, <1>4, <2>2, <3>1, <3>2
  <2> QED
    BY <2>1, <2>2
<1>7. \A e \in Events : outbox[e].tenant # t => (e \in log' <=> e \in log)
  BY <1>2, <1>5
<1> QED
  BY <1>2, <1>5, <1>6, <1>7, BoundaryRetains

\* VerifyChain reads checkpoints and writes nothing.
LEMMA VerifierRetains ==
    ASSUME RetentionInv, NEW v \in Verifiers,
           \/ \E t \in Tenants : VerifyBoundary(v, t)
           \/ VerifyHead(v) \/ VerifyRows(v) \/ VerifyAgain(v)
    PROVE  RetentionInv'
<1>1. TypeOK /\ Chained /\ OutboxInv /\ ArchiveTypeOK /\ Retained /\ NothingLost
  BY DEF RetentionInv, OutboxInv
<1>2. /\ UNCHANGED <<head, lock, outbox, minted, requeued, op, worker>> /\ log' = log
      /\ boundary' = boundary /\ archives' = archives
  BY DEF VerifyBoundary, VerifyHead, VerifyRows, VerifyAgain, vars
<1>3. /\ OutboxInv'
      /\ \A u : Rows(u, Committed)' = Rows(u, Committed) /\ KnownPoints(u)' = KnownPoints(u)
      /\ \A u, r, q : Between(u, r, q)' = Between(u, r, q)
  <2>1. log' \subseteq Events
    BY <1>1, <1>2 DEF TypeOK
  <2> QED
    BY <1>1, <1>2, <2>1, OutboxKept
<1>4. verifier \in [Verifiers -> VerifierState] /\ verifier[v] \in VerifierState
  BY <1>1 DEF ArchiveTypeOK
<1>5. ASSUME NEW c \in VerifierState, verifier' = [verifier EXCEPT ![v] = c],
             c.pc \in {"head", "rows"} => c.tenant \in Tenants,
             \A t \in Tenants : c.tenant = t =>
               /\ c.pc \in {"head", "rows"} => c.base \in KnownPoints(t)
               /\ c.pc = "rows" => c.end \in KnownPoints(t)
      PROVE  RetentionInv'
  <2>1. verifier' \in [Verifiers -> VerifierState]
    BY <1>4, <1>5
  <2>2. verifier'[v] = c /\ \A w \in Verifiers \ {v} : verifier'[w] = verifier[w]
    BY <1>4, <1>5
  <2>3. ArchiveTypeOK'
    BY <1>1, <1>2, <2>1 DEF ArchiveTypeOK
  <2>4. \A w \in Verifiers : verifier'[w].pc \in {"head", "rows"} => verifier'[w].tenant \in Tenants
    BY <1>1, <1>5, <2>2 DEF Retained
  <2>5. ASSUME NEW w \in Verifiers, NEW t \in Tenants, verifier'[w].tenant = t
        PROVE  /\ verifier'[w].pc \in {"head", "rows"} => verifier'[w].base \in KnownPoints(t)
               /\ verifier'[w].pc = "rows" => verifier'[w].end \in KnownPoints(t)
    BY <1>1, <1>5, <2>2, <2>5 DEF Retained
  <2>6. Retained'
    BY <1>1, <1>2, <1>3, <2>4, <2>5 DEF Retained
  <2>7. NothingLost'
    BY <1>1, <1>2, <1>3 DEF NothingLost
  <2> QED
    BY <1>3, <2>3, <2>6, <2>7 DEF RetentionInv
<1>6. ASSUME NEW t \in Tenants, VerifyBoundary(v, t) PROVE RetentionInv'
  <2> DEFINE c == [Unstarted EXCEPT !.pc = "head", !.tenant = t, !.base = boundary[t]]
  <2>1. boundary[t] \in Checkpoints /\ boundary[t] \in KnownPoints(t)
    BY <1>1 DEF ArchiveTypeOK, Retained
  <2>2. Unstarted \in VerifierState
    BY SMT DEF GenesisPoint, Checkpoints, Hashes, Unstarted, VerifierState
  <2>3. c \in VerifierState /\ c.pc = "head" /\ c.tenant = t /\ c.base = boundary[t]
    BY <2>1, <2>2 DEF VerifierState
  <2>4. verifier' = [verifier EXCEPT ![v] = c]
    BY <1>6 DEF VerifyBoundary
  <2> HIDE DEF c
  <2> QED
    BY <1>5, <2>1, <2>3, <2>4
<1>7. CASE VerifyHead(v)
  <2> DEFINE t == verifier[v].tenant
             c == [verifier[v] EXCEPT !.pc = "rows", !.end = HeadPoint(t)]
  <2>1. verifier[v].pc = "head" /\ verifier' = [verifier EXCEPT ![v] = c]
    BY <1>4, <1>7 DEF VerifyHead
  <2>2. t \in Tenants /\ verifier[v].base \in KnownPoints(t)
    BY <1>1, <2>1 DEF Retained
  <2>3. HeadPoint(t) \in Checkpoints
    BY <1>1, <2>2 DEF TypeOK, HeadRow, HeadPoint, Checkpoints
  <2>4. HeadPoint(t) \in KnownPoints(t)
    <3>1. IF head[t].seq = 0 THEN head[t].hash = Genesis
          ELSE head[t].hash \in Rows(t, Committed) /\ outbox[head[t].hash].seq = head[t].seq
      BY <1>1, <2>2 DEF Chained, IsChain
    <3> QED
      BY <3>1 DEF HeadPoint, KnownPoints, GenesisPoint, PointOf
  <2>5. /\ c \in VerifierState /\ c.pc = "rows" /\ c.tenant = t /\ c.base = verifier[v].base
        /\ c.end = HeadPoint(t)
    BY <1>4, <2>3 DEF VerifierState
  <2> HIDE DEF c
  <2> QED
    BY <1>5, <2>1, <2>2, <2>4, <2>5
<1>8. CASE VerifyRows(v)
  <2> DEFINE ok == verifyEvents(verifier[v].base, verifier[v].end,
                       LogRows(verifier[v].tenant, verifier[v].base.seq, verifier[v].end.seq))
             c == [verifier[v] EXCEPT !.pc = "done", !.ok = ok]
  <2>1. verifier' = [verifier EXCEPT ![v] = c]
    BY <1>4, <1>8 DEF VerifyRows
  <2>2. ok \in BOOLEAN
    BY DEF verifyEvents
  <2> HIDE DEF ok
  <2>3. c \in VerifierState /\ c.pc = "done"
    BY <1>4, <2>2 DEF VerifierState
  <2> HIDE DEF c
  <2> QED
    BY <1>5, <2>1, <2>3
<1>9. CASE VerifyAgain(v)
  <2>1. Unstarted \in VerifierState /\ Unstarted.pc = "start"
    BY SMT DEF GenesisPoint, Checkpoints, Hashes, Unstarted, VerifierState
  <2>2. verifier' = [verifier EXCEPT ![v] = Unstarted]
    BY <1>9 DEF VerifyAgain
  <2> QED
    BY <1>5, <2>1, <2>2
<1> QED
  BY <1>6, <1>7, <1>8, <1>9

LEMMA RetentionNext == RetentionInv /\ [ArchiveNext]_allVars => RetentionInv'
<1> SUFFICES ASSUME RetentionInv, [ArchiveNext]_allVars PROVE RetentionInv'
  OBVIOUS
<1>1. CASE (Next /\ UNCHANGED archiveVars) \/ UNCHANGED allVars
  <2>1. [Next]_vars /\ UNCHANGED archiveVars
    BY <1>1 DEF allVars
  <2> QED
    BY <2>1, OutboxRetains
<1> QED
  BY <1>1, ArchiveRetains, PurgeRetains, RestoreRetains, VerifierRetains DEF ArchiveNext

\* Retention loses no evidence: whatever archives PurgeArchive and RestoreArchive
\* take, in whatever order and beside whatever operations and deliveries, rows
\* ahead of the boundary are in the log once delivered, and rows behind it were
\* delivered and are in a retained archive.
THEOREM RetentionLosesNothing == ArchiveSpec => []NothingLost
<1>1. RetentionInv => NothingLost
  BY DEF RetentionInv
<1> QED
  BY <1>1, RetentionInit, RetentionNext, PTL DEF ArchiveSpec

\* The verdict of VerifyChain is right for what it read: it confirms the chain
\* exactly if all rows up to the head it read are delivered and no purge has
\* overtaken its boundary, for any number of verifiers, archives and replicas.
THEOREM VerdictsExplained == ArchiveSpec => VerdictExplained
<1>1. ASSUME RetentionInv, [ArchiveNext]_allVars PROVE VerdictStep
  <2> SUFFICES ASSUME NEW v \in Verifiers, verifier[v].pc = "rows", verifier'[v].pc = "done"
               PROVE  LET c == verifier[v]
                          B == Between(c.tenant, c.base, c.end)
                      IN  verifier'[v].ok <=>
                            /\ \A e \in B : outbox[e].state = "delivered"
                            /\ \A e \in B : outbox[e].seq > boundary[c.tenant].seq
                            /\ c.base.seq <= c.end.seq
    BY DEF VerdictStep, Between
  <2> DEFINE c == verifier[v]
             t == c.tenant
             R == LogRows(t, c.base.seq, c.end.seq)
             B == Between(t, c.base, c.end)
  <2>1. TypeOK /\ Chained /\ ArchiveTypeOK /\ Retained /\ NothingLost
    BY <1>1 DEF RetentionInv, OutboxInv
  <2>2. t \in Tenants /\ c.base \in KnownPoints(t) /\ c.end \in KnownPoints(t)
    BY <2>1 DEF Retained
  <2>3. verifier \in [Verifiers -> VerifierState]
    BY <2>1 DEF ArchiveTypeOK
  <2>4. VerifyRows(v)
    <3>1. verifier' # verifier
      OBVIOUS
    <3>2. PICK w \in Verifiers : (\E u \in Tenants : VerifyBoundary(w, u)) \/ VerifyHead(w)
                                   \/ VerifyRows(w) \/ VerifyAgain(w)
      BY <1>1, <3>1 DEF ArchiveNext, allVars, archiveVars, Archive, PurgeArchive, RestoreArchive
    <3>3. w = v
      BY <2>3, <3>2 DEF VerifyBoundary, VerifyHead, VerifyRows, VerifyAgain
    <3> QED
      BY <3>2, <3>3 DEF VerifyBoundary, VerifyHead, VerifyAgain
  <2>5. verifier'[v].ok = verifyEvents(c.base, c.end, R)
    BY <2>3, <2>4 DEF VerifyRows, VerifierState
  <2>6. R \subseteq B
    BY <2>1, LogRowsBetween
  <2>7. verifyEvents(c.base, c.end, R) <=> c.base.seq <= c.end.seq /\ R = B
    <3> HIDE DEF c, R, t
    <3> QED
      BY <2>1, <2>2, <2>6, Verifies
  <2>8. ASSUME NEW e \in B
        PROVE  e \in R <=> outbox[e].state = "delivered" /\ outbox[e].seq > boundary[t].seq
    <3>1. e \in Rows(t, Committed) /\ outbox[e].seq > c.base.seq /\ outbox[e].seq <= c.end.seq
      BY DEF Between
    <3>2. e \in R <=> e \in log
      BY <3>1 DEF LogRows, Rows
    <3>3. e \in log => outbox[e].state = "delivered"
      BY <2>1 DEF Retained
    <3> QED
      BY <2>1, <2>2, <3>1, <3>2, <3>3 DEF NothingLost
  <2> HIDE DEF R, B, c, t
  <2>9. R = B <=> /\ \A e \in B : outbox[e].state = "delivered"
                  /\ \A e \in B : outbox[e].seq > boundary[t].seq
    BY <2>6, <2>8
  <2>10. verifier'[v].ok <=> /\ \A e \in B : outbox[e].state = "delivered"
                             /\ \A e \in B : outbox[e].seq > boundary[t].seq
                             /\ c.base.seq <= c.end.seq
    BY <2>5, <2>7, <2>9
  <2> QED
    BY <2>10 DEF B, c, t
<1>2. RetentionInv /\ [ArchiveNext]_allVars => [VerdictStep]_allVars
  BY <1>1
<1> QED
  BY <1>2, RetentionInit, RetentionNext, PTL DEF ArchiveSpec, VerdictExplained
=============================================================================
