----------------------------- MODULE AuditQueue -----------------------------
(***************************************************************************)
(* What the audit outbox promises its callers: per tenant one append-only  *)
(* history of events, extended by whole operations and never beyond a      *)
(* backlog of Capacity undelivered events, and a set of delivered events   *)
(* that only grows.                                                        *)
(***************************************************************************)
EXTENDS Integers, Sequences, FiniteSets, Functions

CONSTANTS Tenants, Events, Capacity

VARIABLES history, delivered

queueVars == <<history, delivered>>

Recorded == UNION {Range(history[t]) : t \in Tenants}

Backlog(t) == Range(history[t]) \ delivered

QueueInit ==
    /\ history = [t \in Tenants |-> <<>>]
    /\ delivered = {}

\* One operation's evidence becomes durable: all of its events, in order.
Record(t, s) ==
    /\ Cardinality(Backlog(t)) + Len(s) <= Capacity
    /\ history' = [history EXCEPT ![t] = @ \o s]
    /\ UNCHANGED delivered

\* An event of the history reaches the audit log.
Deliver(e) ==
    /\ e \in Recorded \ delivered
    /\ delivered' = delivered \cup {e}
    /\ UNCHANGED history

QueueNext ==
    \/ \E t \in Tenants : \E n \in 1 .. Capacity :
         \E s \in Injection(1 .. n, Events \ Recorded) : Record(t, s)
    \/ \E e \in Events : Deliver(e)

QueueSpec == QueueInit /\ [][QueueNext]_queueVars
=============================================================================
