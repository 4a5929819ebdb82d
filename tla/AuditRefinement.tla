-------------------------- MODULE AuditRefinement --------------------------
(***************************************************************************)
(* The refinement mapping from AuditOutbox to AuditQueue.                  *)
(***************************************************************************)
EXTENDS AuditOutbox

\* The committed rows of each tenant in sequence order.
History ==
    [t \in Tenants |->
        [n \in 1 .. head[t].seq |->
            CHOOSE e \in Events : /\ outbox[e].state \in Committed
                                  /\ outbox[e].tenant = t
                                  /\ outbox[e].seq = n]]

Queue == INSTANCE AuditQueue WITH
            Capacity <- MaxPending, history <- History, delivered <- log

\* The outbox implements AuditQueue: operations append their evidence as a
\* whole, in sequence order and within capacity; delivery is final.
ImplementsQueue == Queue!QueueSpec
=============================================================================
