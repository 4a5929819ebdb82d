---------------------------- MODULE AuditArchive ----------------------------
(***************************************************************************)
(* Archive, purge, restore and verification of the audit log, beside the   *)
(* running outbox.  An archive is a contiguous prefix of a tenant's log    *)
(* between two checkpoints; the operator keeps every archive it exported.  *)
(* PurgeArchive and RestoreArchive are transactions under the head's row   *)
(* lock; VerifyChain is three reads without one.                           *)
(***************************************************************************)
EXTENDS AuditOutbox

CONSTANTS
    Verifiers,    \* goroutines in VerifyChain
    MaxArchives   \* bound: how many archives the operator exports

ASSUME ArchiveAssumption == MaxArchives \in Nat

VARIABLES
    boundary,  \* audit_boundaries: the checkpoint behind the purged prefix
    archives,  \* the archives retained outside the database
    verifier   \* the progress of a VerifyChain call

archiveVars == <<boundary, archives, verifier>>

allVars == <<vars, archiveVars>>

Checkpoints == [seq: Nat, hash: Hashes]

GenesisPoint == [seq |-> 0, hash |-> Genesis]

PointOf(e) == [seq |-> outbox[e].seq, hash |-> e]

HeadPoint(t) == [seq |-> head[t].seq, hash |-> head[t].hash]

Archives == [tenant: Tenants, base: Checkpoints, end: Checkpoints, events: SUBSET Events]

VerifierState == [pc: {"start", "head", "rows", "done"}, tenant: Tenants \cup {None},
                  base: Checkpoints, end: Checkpoints, ok: BOOLEAN]

Unstarted == [pc |-> "start", tenant |-> None, base |-> GenesisPoint,
              end |-> GenesisPoint, ok |-> TRUE]

ArchiveTypeOK ==
    /\ boundary \in [Tenants -> Checkpoints]
    /\ archives \in SUBSET Archives
    /\ verifier \in [Verifiers -> VerifierState]

\* The rows of t's log with a sequence in from+1 .. to.
LogRows(t, from, to) ==
    {e \in log : outbox[e].tenant = t /\ outbox[e].seq > from /\ outbox[e].seq <= to}

\* The rows R, read in sequence order, link checkpoint base to checkpoint end.
verifyEvents(base, end, R) ==
    /\ base.seq <= end.seq
    /\ {outbox[e].seq : e \in R} = base.seq + 1 .. end.seq
    /\ \A e \in R : outbox[e].prev =
            IF outbox[e].seq = base.seq + 1 THEN base.hash
            ELSE CHOOSE f \in R : outbox[f].seq = outbox[e].seq - 1
    /\ IF R = {} THEN end.hash = base.hash
       ELSE \E e \in R : outbox[e].seq = end.seq /\ end.hash = e

\* Every checkpoint of t the operator can hold: the head at some time, or none.
KnownPoints(t) == {GenesisPoint} \cup {PointOf(e) : e \in Rows(t, Committed)}

\* Archive exports the log rows behind base, cut by MaxRows or by the time
\* limit, if they verify; a row that is not delivered yet makes it fail.
Archive(t, base, last) ==
    LET end == PointOf(last)
        R   == LogRows(t, base.seq, end.seq)
    IN  /\ last \in log /\ outbox[last].tenant = t
        /\ base \in KnownPoints(t)
        /\ verifyEvents(base, end, R)
        /\ Cardinality(archives) < MaxArchives
        /\ archives' = archives \cup
               {[tenant |-> t, base |-> base, end |-> end, events |-> R]}
        /\ UNCHANGED <<vars, boundary, verifier>>

\* Mutant: the archive need not start at the boundary.
PurgeArchiveAnyBase(a) ==
    LET R == LogRows(a.tenant, a.base.seq, a.end.seq)
    IN  /\ lock[a.tenant] = None
        /\ verifyEvents(a.base, a.end, R)
        /\ log' = log \ R
        /\ boundary' = [boundary EXCEPT ![a.tenant] = a.end]
        /\ UNCHANGED <<head, lock, outbox, minted, requeued, op, worker, archives, verifier>>

\* PurgeArchive deletes the archived rows if they start at the boundary and
\* the rows in the table still verify, and moves the boundary behind them.
PurgeArchive(a) ==
    LET R == LogRows(a.tenant, a.base.seq, a.end.seq)
    IN  /\ lock[a.tenant] = None
        /\ boundary[a.tenant] = a.base
        /\ verifyEvents(a.base, a.end, R)
        /\ log' = log \ R
        /\ boundary' = [boundary EXCEPT ![a.tenant] = a.end]
        /\ UNCHANGED <<head, lock, outbox, minted, requeued, op, worker, archives, verifier>>

\* RestoreArchive puts the rows back if the boundary is the archive's end; the
\* unique event_id rejects rows that are in the table.
RestoreArchive(a) ==
    /\ lock[a.tenant] = None
    /\ boundary[a.tenant] = a.end
    /\ head[a.tenant].seq >= a.end.seq
    /\ a.events \cap log = {}
    /\ log' = log \cup a.events
    /\ boundary' = [boundary EXCEPT ![a.tenant] = a.base]
    /\ UNCHANGED <<head, lock, outbox, minted, requeued, op, worker, archives, verifier>>

(***************************************************************************)
(* VerifyChain: read the boundary, read the head, read the rows between.   *)
(***************************************************************************)
VerifyBoundary(v, t) ==
    /\ verifier[v].pc = "start"
    /\ verifier' = [verifier EXCEPT ![v] = [Unstarted EXCEPT !.pc = "head", !.tenant = t,
                                                           !.base = boundary[t]]]
    /\ UNCHANGED <<vars, boundary, archives>>

VerifyHead(v) ==
    /\ verifier[v].pc = "head"
    /\ verifier' = [verifier EXCEPT ![v].pc = "rows", ![v].end = HeadPoint(verifier[v].tenant)]
    /\ UNCHANGED <<vars, boundary, archives>>

\* Mutant: the rows are read without the lower bound on the sequence.
VerifyRowsUnbounded(v) ==
    LET c == verifier[v]
        R == LogRows(c.tenant, 0, c.end.seq)
    IN  /\ c.pc = "rows"
        /\ verifier' = [verifier EXCEPT ![v].pc = "done",
                                        ![v].ok = verifyEvents(c.base, c.end, R)]
        /\ UNCHANGED <<vars, boundary, archives>>

VerifyRows(v) ==
    LET c == verifier[v]
        R == LogRows(c.tenant, c.base.seq, c.end.seq)
    IN  /\ c.pc = "rows"
        /\ verifier' = [verifier EXCEPT ![v].pc = "done",
                                        ![v].ok = verifyEvents(c.base, c.end, R)]
        /\ UNCHANGED <<vars, boundary, archives>>

VerifyAgain(v) ==
    /\ verifier[v].pc = "done"
    /\ verifier' = [verifier EXCEPT ![v] = Unstarted]
    /\ UNCHANGED <<vars, boundary, archives>>

ArchiveInit ==
    /\ Init
    /\ boundary = [t \in Tenants |-> GenesisPoint]
    /\ archives = {}
    /\ verifier = [v \in Verifiers |-> Unstarted]

ArchiveNext ==
    \/ Next /\ UNCHANGED archiveVars
    \/ \E t \in Tenants, last \in Events : \E base \in KnownPoints(t) : Archive(t, base, last)
    \/ \E a \in archives : PurgeArchive(a)
    \/ \E a \in archives : RestoreArchive(a)
    \/ \E v \in Verifiers, t \in Tenants : VerifyBoundary(v, t)
    \/ \E v \in Verifiers : VerifyHead(v)
    \/ \E v \in Verifiers : VerifyRows(v)
    \/ \E v \in Verifiers : VerifyAgain(v)

ArchiveSpec == ArchiveInit /\ [][ArchiveNext]_allVars

(***************************************************************************)
(* Properties.                                                             *)
(***************************************************************************)

\* No evidence is lost or duplicated by retention, whatever order overlapping
\* archives are purged and restored in: ahead of the boundary a delivered event
\* is in the log; behind it every event was delivered, is in a retained archive
\* and no longer in the log.  PurgeArchive never passes evidence that was
\* admitted and not delivered, which could not be inserted in order any more.
NothingLost ==
    \A t \in Tenants : \A e \in Rows(t, Committed) :
        IF outbox[e].seq > boundary[t].seq
        THEN outbox[e].state = "delivered" => e \in log
        ELSE /\ outbox[e].state = "delivered" /\ e \notin log
             /\ \E a \in archives : e \in a.events

VerdictStep ==
    \A v \in Verifiers : verifier[v].pc = "rows" /\ verifier'[v].pc = "done" =>
        LET c == verifier[v]
            between == {e \in Rows(c.tenant, Committed) :
                           outbox[e].seq > c.base.seq /\ outbox[e].seq <= c.end.seq}
        IN  verifier'[v].ok <=>
               /\ \A e \in between : outbox[e].state = "delivered"
               /\ \A e \in between : outbox[e].seq > boundary[c.tenant].seq
               /\ c.base.seq <= c.end.seq

\* VerifyChain reports a broken chain exactly when evidence up to the head it
\* read is still on its way to the log, or a purge overtook it after it read the
\* boundary; in every other interleaving it confirms the chain.
VerdictExplained == [][VerdictStep]_allVars
=============================================================================
