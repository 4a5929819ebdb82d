----------------------------- MODULE Lifecycle ------------------------------
(***************************************************************************)
(* Replicas of the server from start to exit: the election of the one that *)
(* runs the clean-up jobs, through a lock in the shared store, and the     *)
(* order in which a replica that was told to stop gives up its resources.  *)
(*                                                                         *)
(* Time is counted in job intervals.  An operation of the in-memory store  *)
(* reads the clock before it takes the mutex: the time between the two is  *)
(* its stall.  Redis reads the clock itself, which is a stall of 0; a call *)
(* to it may fail, and may take effect without an answer.                  *)
(***************************************************************************)
EXTENDS Integers, FiniteSetsExt

CONSTANTS
  Replicas,
  None,
  LockTTL,      \* lockTTL, in intervals
  MaxStall,     \* bound on a stall; an operation is over before a TTL is
  MaxStarts,    \* bound on the starts of all replicas
  MaxFailures,  \* bound on failed store calls
  Deployments   \* records of
                \*   jobs: RUN_JOBS of each replica, "elect" (unset), "always" (true), "off" (false)
                \*   served: the replicas that get requests and have audit rows to flush

ASSUME LifecycleAssumption ==
  /\ IsFiniteSet(Replicas) /\ {LockTTL, MaxStall, MaxStarts, MaxFailures} \subseteq Nat
  /\ MaxStall < LockTTL
  /\ \A d \in Deployments :
       d.jobs \in [Replicas -> {"elect", "always", "off"}] /\ d.served \subseteq Replicas

VARIABLES
  deployment,  \* of Deployments
  start,     \* how often the replica was started; <<replica, start>> is its "self"
  proc,      \* how far main got
  request,   \* a request is in flight
  runner,    \* the loop of the LeaderRunner, or of RunWhileLeader
  job,       \* the statement of runOnce it is at
  canceled,  \* the job context, and stopCh
  stall,     \* of the store call in flight
  worker,    \* the audit writer's worker
  pool,      \* the connection pool
  late,      \* Shutdown or Close gave up waiting
  lock,      \* jobs:leader:cleanup in the store
  claim,     \* the time its last successful claim still runs, by the caller's clock
  failures

main == <<start, proc, request, worker, pool, late>>
loop == <<runner, job, canceled, stall>>
shared == <<lock, claim, failures>>
vars == <<deployment, main, loop, shared>>

Stages == {"up", "drain", "stopJobs", "closeAudit", "closeDB", "exit"}
Lock == [owner : Replicas \X Nat, left : -(MaxStall + 1) .. LockTTL]

ASSUME NoneAssumption == None \notin Lock

TypeOK ==
  /\ deployment \in Deployments
  /\ start \in [Replicas -> Nat]
  /\ proc \in [Replicas -> Stages]
  /\ {request, canceled} \subseteq [Replicas -> BOOLEAN]
  /\ runner \in [Replicas -> {"wait", "setNX", "renew", "run", "release", "done"}]
  /\ job \in [Replicas -> 0 .. 2] /\ stall \in [Replicas -> 0 .. MaxStall]
  /\ worker \in [Replicas -> {"idle", "flush", "last", "done"}]
  /\ pool \in [Replicas -> {"open", "closed"}]
  /\ late \in [Replicas -> SUBSET {"shutdown", "audit"}]
  /\ lock = None \/ lock \in Lock
  /\ claim \in [Replicas -> 0 .. LockTTL] /\ failures \in 0 .. MaxFailures

Init ==
  /\ deployment \in Deployments
  /\ start = [r \in Replicas |-> 0] /\ proc = [r \in Replicas |-> "exit"]
  /\ request = [r \in Replicas |-> FALSE] /\ canceled = [r \in Replicas |-> TRUE]
  /\ runner = [r \in Replicas |-> "done"] /\ job = [r \in Replicas |-> 0]
  /\ stall = [r \in Replicas |-> 0]
  /\ worker = [r \in Replicas |-> "done"] /\ pool = [r \in Replicas |-> "closed"]
  /\ late = [r \in Replicas |-> {}]
  /\ lock = None /\ claim = [r \in Replicas |-> 0] /\ failures = 0

runJobs(r) == deployment.jobs[r]

Self(r) == <<r, start[r]>>
Set(f, r, x) == [f EXCEPT ![r] = x]

-----------------------------------------------------------------------------
(* The store *)

\* entry.expired, at the time that was read; an entry may outlive its time.
expired(e, since) == e.left + since < 0

\* The sweeper, or Redis.
sweep ==
  /\ lock # None /\ expired(lock, 0)
  /\ lock' = None
  /\ UNCHANGED <<deployment, main, loop, claim, failures>>

Calling(r) == runner[r] \in {"setNX", "renew"}

\* Mutant: a TTL of 0, which is no expiry; nothing counts it down.
TimeNoExpiry ==
  /\ \A r \in Replicas : Calling(r) => stall[r] < MaxStall
  /\ stall' = [r \in Replicas |-> IF Calling(r) THEN stall[r] + 1 ELSE 0]
  /\ UNCHANGED <<deployment, main, runner, job, canceled, lock, claim, failures>>

\* A job interval passes.
Time ==
  /\ \A r \in Replicas : Calling(r) => stall[r] < MaxStall
  /\ stall' = [r \in Replicas |-> IF Calling(r) THEN stall[r] + 1 ELSE 0]
  /\ claim' = [r \in Replicas |-> IF claim[r] > 0 THEN claim[r] - 1 ELSE 0]
  /\ lock' = IF lock = None \/ lock.left < -MaxStall THEN lock ELSE [lock EXCEPT !.left = @ - 1]
  /\ UNCHANGED <<deployment, main, runner, job, canceled, failures>>

-----------------------------------------------------------------------------
(* LeaderRunner *)

\* The ticker; Go chooses freely when the stop is due as well.
Tick(r) ==
  /\ runner[r] = "wait" /\ proc[r] # "exit"
  /\ \/ runJobs(r) = "elect" /\ runner' = Set(runner, r, "setNX") /\ UNCHANGED job
     \/ runJobs(r) = "always" /\ runner' = Set(runner, r, "run") /\ job' = Set(job, r, 1)
  /\ UNCHANGED <<deployment, main, canceled, stall, shared>>

\* The claim runs from the time that was read.
Claim(r) ==
  /\ lock' = [owner |-> Self(r), left |-> LockTTL - stall[r]]
  /\ claim' = Set(claim, r, LockTTL - stall[r])
  /\ runner' = Set(runner, r, "run") /\ job' = Set(job, r, 1) /\ stall' = Set(stall, r, 0)

\* isLeader, first half.
SetNX(r) ==
  /\ runner[r] = "setNX"
  /\ IF lock = None \/ expired(lock, stall[r])
       THEN Claim(r)
       ELSE /\ runner' = Set(runner, r, "renew") /\ stall' = Set(stall, r, 0)
            /\ UNCHANGED <<job, lock, claim>>
  /\ UNCHANGED <<deployment, main, canceled, failures>>

\* Mutant: Renew, which does not compare the owner.
OwnedAny(r) == TRUE

Owned(r) == lock.owner = Self(r)

\* isLeader, second half: RenewIfOwner.
RenewIfOwner(r) ==
  /\ runner[r] = "renew"
  /\ IF lock # None /\ ~expired(lock, stall[r]) /\ Owned(r)
       THEN Claim(r)
       ELSE /\ runner' = Set(runner, r, "wait") /\ stall' = Set(stall, r, 0)
            /\ UNCHANGED <<job, lock, claim>>
  /\ UNCHANGED <<deployment, main, canceled, failures>>

\* An error of Redis is a "no", also when the command took effect.
StoreFails(r) ==
  /\ Calling(r) /\ failures < MaxFailures
  /\ failures' = failures + 1
  /\ \/ UNCHANGED lock
     \/ /\ IF runner[r] = "setNX" THEN lock # None => expired(lock, 0)
                                  ELSE lock # None /\ ~expired(lock, 0) /\ Owned(r)
        /\ lock' = [owner |-> Self(r), left |-> LockTTL]
  /\ runner' = Set(runner, r, IF runner[r] = "setNX" THEN "renew" ELSE "wait")
  /\ stall' = Set(stall, r, 0)
  /\ UNCHANGED <<deployment, main, job, canceled, claim>>

\* runOnce: PurgeExpired of the refresh tokens, then of the used tokens; with a
\* canceled context a statement is not sent.
RunOnce(r) ==
  /\ runner[r] = "run"
  /\ IF job[r] = 1 THEN job' = Set(job, r, 2) /\ UNCHANGED runner
                   ELSE job' = Set(job, r, 0) /\ runner' = Set(runner, r, "wait")
  /\ UNCHANGED <<deployment, main, canceled, stall, shared>>

StopSeen(r) ==
  /\ runner[r] = "wait" /\ canceled[r] /\ proc[r] # "exit"
  /\ runner' = Set(runner, r, IF runJobs(r) = "elect" THEN "release" ELSE "done")
  /\ UNCHANGED <<deployment, main, job, canceled, stall, shared>>

\* releaseLock: DeleteIfOwner.
DeleteIfOwner(r) ==
  /\ runner[r] = "release"
  /\ lock' = IF lock # None /\ Owned(r) THEN None ELSE lock
  /\ claim' = Set(claim, r, 0)
  /\ runner' = Set(runner, r, "done")
  /\ UNCHANGED <<deployment, main, job, canceled, stall, failures>>

-----------------------------------------------------------------------------
(* main *)

\* run: a fresh process; the audit worker before the jobs, the listener last.
Start(r) ==
  /\ proc[r] = "exit" /\ MapThenSumSet(LAMBDA q : start[q], Replicas) < MaxStarts
  /\ start' = Set(start, r, start[r] + 1)
  /\ proc' = Set(proc, r, "up") /\ pool' = Set(pool, r, "open")
  /\ worker' = Set(worker, r, "idle") /\ late' = Set(late, r, {})
  /\ runner' = Set(runner, r, IF runJobs(r) = "off" THEN "done" ELSE "wait")
  /\ canceled' = Set(canceled, r, FALSE)
  /\ UNCHANGED <<deployment, request, job, stall, shared>>

RequestArrives(r) ==
  /\ proc[r] = "up" /\ ~request[r] /\ r \in deployment.served
  /\ request' = Set(request, r, TRUE)
  /\ UNCHANGED <<deployment, start, proc, worker, pool, late, loop, shared>>

\* Its operation wakes the worker, which flushes at every tick anyway.
RequestEnds(r) ==
  /\ request[r]
  /\ request' = Set(request, r, FALSE)
  /\ UNCHANGED <<deployment, start, proc, worker, pool, late, loop, shared>>

\* A tick or a wake-up, which may also be taken when stopCh is closed (select); a
\* replica without requests has nothing to deliver.
Flush(r) ==
  /\ worker[r] = "idle" /\ proc[r] # "exit" /\ r \in deployment.served
  /\ worker' = Set(worker, r, "flush")
  /\ UNCHANGED <<deployment, start, proc, request, pool, late, loop, shared>>

\* stopCh is closed: one more flush, after any that was under way, and the worker
\* ends.
LastFlush(r) ==
  /\ worker[r] = "idle" /\ proc[r] \in {"closeAudit", "closeDB"}
  /\ worker' = Set(worker, r, "last")
  /\ UNCHANGED <<deployment, start, proc, request, pool, late, loop, shared>>

FlushEnds(r) ==
  /\ worker[r] \in {"flush", "last"}
  /\ worker' = Set(worker, r, IF worker[r] = "last" THEN "done" ELSE "idle")
  /\ UNCHANGED <<deployment, start, proc, request, pool, late, loop, shared>>

\* A stage of the shutdown ends, or gives up after its timeout.
Stage(r, from, to, finished, note) ==
  /\ proc[r] = from
  /\ \/ finished /\ UNCHANGED late
     \/ ~finished /\ note # None /\ late' = Set(late, r, late[r] \cup {note})
  /\ proc' = Set(proc, r, to)
  /\ UNCHANGED <<deployment, start, request, worker, runner, job, stall, shared>>

Signal(r) ==
  /\ Stage(r, "up", "drain", TRUE, None)
  /\ UNCHANGED <<pool, canceled>>

\* srv.Shutdown, 15 s; then stopJobs cancels.
Drained(r) ==
  /\ Stage(r, "drain", "stopJobs", ~request[r], "shutdown")
  /\ canceled' = Set(canceled, r, TRUE)
  /\ UNCHANGED pool

\* Mutant: Stop cancels and does not wait for the loop.
JobsStoppedAny(r) == TRUE

\* Stop waits for the loop; the cancel of RUN_JOBS=true does not.
JobsStopped(r) == runJobs(r) = "elect" => runner[r] = "done"

StopJobs(r) ==
  /\ JobsStopped(r)
  /\ Stage(r, "stopJobs", "closeAudit", TRUE, None)
  /\ UNCHANGED <<pool, canceled>>

\* Mutant: Close without its timeout.
AuditClosedUnbounded(r) ==
  /\ Stage(r, "closeAudit", "closeDB", worker[r] = "done", None)
  /\ UNCHANGED <<pool, canceled>>

\* auditRepo.Close, closeWaitTimeout.
AuditClosed(r) ==
  /\ Stage(r, "closeAudit", "closeDB", worker[r] = "done", "audit")
  /\ UNCHANGED <<pool, canceled>>

CloseDB(r) ==
  /\ proc[r] = "closeDB" /\ pool[r] = "open"
  /\ pool' = Set(pool, r, "closed")
  /\ UNCHANGED <<deployment, start, proc, request, worker, late, loop, shared>>

Gone(r) ==
  /\ proc' = Set(proc, r, "exit") /\ pool' = Set(pool, r, "closed")
  /\ request' = Set(request, r, FALSE) /\ worker' = Set(worker, r, "done")
  /\ runner' = Set(runner, r, "done") /\ job' = Set(job, r, 0)
  /\ canceled' = Set(canceled, r, TRUE) /\ stall' = Set(stall, r, 0)
  /\ claim' = Set(claim, r, 0)
  /\ UNCHANGED <<deployment, start, late, lock, failures>>

Exit(r) == proc[r] = "closeDB" /\ pool[r] = "closed" /\ Gone(r)

\* The process dies; its lock stays.
Crash(r) == proc[r] # "exit" /\ Gone(r)

Shutdown(r) == Drained(r) \/ StopJobs(r) \/ AuditClosed(r) \/ CloseDB(r) \/ Exit(r)

Loop(r) == Tick(r) \/ SetNX(r) \/ RenewIfOwner(r) \/ RunOnce(r) \/ DeleteIfOwner(r)

Next ==
  \/ sweep \/ Time
  \/ \E r \in Replicas :
       \/ Shutdown(r) \/ Loop(r) \/ StopSeen(r) \/ StoreFails(r)
       \/ Start(r) \/ RequestArrives(r) \/ RequestEnds(r) \/ Flush(r) \/ LastFlush(r)
       \/ FlushEnds(r) \/ Signal(r) \/ Crash(r)

Spec == Init /\ [][Next]_vars

\* The clock, the ticker and main go on; a loop that finds the stop due again and
\* again takes it some time (select picks at random).  Nothing is assumed of the
\* requests and of the audit worker.
Fairness ==
  /\ WF_vars(Time)
  /\ \A r \in Replicas :
       WF_vars(Shutdown(r)) /\ WF_vars(Loop(r)) /\ SF_vars(StopSeen(r))

FairSpec == Spec /\ Fairness

-----------------------------------------------------------------------------

\* No two replicas have a claim that still runs, by their own clocks: across
\* stalls, store failures, crashes, restarts and releases (isLeader: "a
\* split-brain window where two leaders run the job").
OneLeader == \A r, s \in Replicas : claim[r] > 0 /\ claim[s] > 0 => r = s

\* "Closing in the reverse order would drop buffered audit rows" and "a tick
\* landing mid-shutdown can no longer start a purge against a closed pool"
\* (main.go): whoever uses the pool is done, or canceled, or was waited for in
\* vain, when it closes.
PoolOutlivesUsers == \A r \in Replicas :
  pool[r] = "closed" /\ proc[r] # "exit" =>
    /\ request[r] => "shutdown" \in late[r]
    /\ worker[r] # "done" => "audit" \in late[r]
    /\ runner[r] # "done" => canceled[r] /\ runJobs(r) = "always"

\* "A dead leader's lock simply expires and a contender takes over" (leader.go):
\* while a replica takes part in the election, jobs are run again and again.
JobsGoOn ==
  (\E r \in Replicas : <>[](proc[r] = "up" /\ runJobs(r) = "elect"))
    => []<>(\E r \in Replicas : runner[r] = "run")

\* A replica that was told to stop exits, whatever its requests, its worker and
\* a purge under way do.
ShutdownEnds == \A r \in Replicas : proc[r] = "drain" ~> proc[r] = "exit"

\* "Cleanup/purge work must run on exactly ONE replica" (leader.go).  A tick
\* that outlasts the lock is overtaken by the next leader.
OneRunner == \A r, s \in Replicas : runner[r] = "run" /\ runner[s] = "run" => r = s
=============================================================================
