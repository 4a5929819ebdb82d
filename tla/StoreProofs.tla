---------------------------- MODULE StoreProofs -----------------------------
(***************************************************************************)
(* Proofs about the two protocols over keys of the shared store that SetNX *)
(* decides: the lock of the leader with the shutdown it takes part in      *)
(* (Lifecycle), for every number of replicas, starts, failures and stalls  *)
(* and every TTL longer than a stall; and the single-use tokens            *)
(* (SingleUse), for every set of tokens and requests.                      *)
(*                                                                         *)
(* OneLeader is not inductive: it needs that a running claim is backed by  *)
(* the lock, which names its holder and lasts at least as long.            *)
(* PoolOutlivesUsers needs what each stage of the shutdown has waited for. *)
(* AppliedOnce needs that the requests past SetNX hold different tokens,   *)
(* each marked and not yet applied, and that an applied token stays marked *)
(* for as long as a request can still present it; BackstopHolds, that an   *)
(* applied token has its row until it expires, so that a late request's    *)
(* snapshot shows it.                                                      *)
(***************************************************************************)
EXTENDS Lifecycle, SingleUse, TLAPS

\* A leaf is for Zenon unless it names another prover: SMT, where there is
\* arithmetic or Zenon does not find the proof.
USE Zenon

\* A claim that runs is backed by the lock.
Backed(r) ==
  claim[r] > 0 => lock # None /\ lock.owner = Self(r) /\ claim[r] <= lock.left

\* A replica that is down has no claim and no loop.
Down(r) == proc[r] = "exit" => claim[r] = 0 /\ runner[r] = "done"

LeaderTypes ==
  /\ start \in [Replicas -> Nat]
  /\ proc \in [Replicas -> Stages]
  /\ runner \in [Replicas -> {"wait", "setNX", "renew", "run", "release", "done"}]
  /\ stall \in [Replicas -> 0 .. MaxStall]
  /\ lock = None \/ lock \in Lock
  /\ claim \in [Replicas -> 0 .. LockTTL]

LeaderInv == LeaderTypes /\ \A r \in Replicas : Backed(r) /\ Down(r)

-----------------------------------------------------------------------------

\* Bounds as numbers.
LEMMA Bounds == LockTTL \in Nat /\ MaxStall \in Nat /\ MaxStall < LockTTL
BY LifecycleAssumption

\* The lock that a claim or a lost answer writes.
LEMMA NewLock ==
  ASSUME LeaderTypes, NEW r \in Replicas, NEW n \in 0 .. MaxStall
  PROVE  LET e == [owner |-> Self(r), left |-> LockTTL - n] IN
         /\ e \in Lock /\ e # None
         /\ e.owner = Self(r) /\ e.left = LockTTL - n
<1> DEFINE e == [owner |-> Self(r), left |-> LockTTL - n]
<1>1. Self(r) \in Replicas \X Nat
  BY DEF Self, LeaderTypes
<1>2. LockTTL - n \in -(MaxStall + 1) .. LockTTL
  BY Bounds, SMT
<1>3. e \in Lock
  BY <1>1, <1>2 DEF Lock
<1> QED
  BY <1>3, NoneAssumption

\* Without a lock, or with an expired one, no claim runs.
LEMMA NoClaim ==
  ASSUME LeaderInv, NEW n \in Nat, lock = None \/ expired(lock, n)
  PROVE  \A q \in Replicas : claim[q] = 0
<1> SUFFICES ASSUME NEW q \in Replicas, claim[q] > 0 PROVE FALSE
  BY Bounds, SMT DEF LeaderInv, LeaderTypes
<1>1. lock \in Lock /\ claim[q] <= lock.left
  BY DEF LeaderInv, LeaderTypes, Backed
<1>2. lock.left \in Int /\ claim[q] \in Nat
  BY <1>1, Bounds, SMT DEF LeaderInv, LeaderTypes, Lock
<1>3. expired(lock, n)
  BY <1>1, NoneAssumption
<1> QED
  BY <1>1, <1>2, <1>3, SMT DEF expired

\* While the lock is a replica's, nobody else's claim runs.
LEMMA OwnerAlone ==
  ASSUME LeaderInv, NEW r \in Replicas, Owned(r)
  PROVE  \A q \in Replicas : claim[q] > 0 => q = r
BY SMT DEF LeaderInv, Backed, Owned, Self

\* A step that leaves the starts, the lock and the claims alone, and brings no
\* replica down.
LEMMA Moved ==
  ASSUME LeaderInv, UNCHANGED <<start, lock, claim>>,
         proc' \in [Replicas -> Stages],
         runner' \in [Replicas -> {"wait", "setNX", "renew", "run", "release", "done"}],
         stall' \in [Replicas -> 0 .. MaxStall],
         \A q \in Replicas : proc'[q] = "exit" => proc[q] = "exit" /\ runner'[q] = runner[q]
  PROVE  LeaderInv'
<1>1. LeaderTypes'
  BY DEF LeaderInv, LeaderTypes
<1>2. \A q \in Replicas : Backed(q)'
  BY DEF LeaderInv, Backed, Self
<1>3. \A q \in Replicas : Down(q)'
  BY DEF LeaderInv, Down
<1> QED
  BY <1>1, <1>2, <1>3 DEF LeaderInv

\* A claim, when nobody else's runs.
LEMMA Claimed ==
  ASSUME LeaderInv, NEW r \in Replicas, runner[r] # "done", Claim(r),
         UNCHANGED <<start, proc>>, \A q \in Replicas : claim[q] > 0 => q = r
  PROVE  LeaderInv'
<1>0. LeaderTypes /\ stall[r] \in 0 .. MaxStall
  BY DEF LeaderInv, LeaderTypes
<1>1. /\ lock' \in Lock /\ lock' # None
      /\ lock'.owner = Self(r) /\ lock'.left = LockTTL - stall[r]
  BY <1>0, NewLock DEF Claim
<1>2. LockTTL - stall[r] \in 0 .. LockTTL
  BY <1>0, Bounds, SMT
<1>3. /\ claim' \in [Replicas -> 0 .. LockTTL]
      /\ \A q \in Replicas : claim'[q] = IF q = r THEN LockTTL - stall[r] ELSE claim[q]
  BY <1>0, <1>2 DEF Set, Claim, LeaderTypes
<1>4. /\ runner' \in [Replicas -> {"wait", "setNX", "renew", "run", "release", "done"}]
      /\ \A q \in Replicas : runner'[q] = IF q = r THEN "run" ELSE runner[q]
  BY <1>0 DEF Set, Claim, LeaderTypes
<1>5. 0 \in 0 .. MaxStall
  BY Bounds, SMT
<1>6. stall' \in [Replicas -> 0 .. MaxStall]
  BY <1>0, <1>5 DEF Set, Claim, LeaderTypes
<1>7. LeaderTypes'
  BY <1>0, <1>1, <1>3, <1>4, <1>6 DEF LeaderTypes
<1>8. \A q \in Replicas : Backed(q)'
  <2> SUFFICES ASSUME NEW q \in Replicas, claim'[q] > 0
               PROVE  lock' # None /\ lock'.owner = Self(q)' /\ claim'[q] <= lock'.left
    BY DEF Backed
  <2>1. q = r
    BY <1>3
  <2> QED
    BY <2>1, <1>1, <1>2, <1>3, SMT DEF Self
<1>9. \A q \in Replicas : Down(q)'
  BY <1>3, <1>4 DEF LeaderInv, Down
<1> QED
  BY <1>7, <1>8, <1>9 DEF LeaderInv

\* At the start no claim runs.
LEMMA LeaderInit == Init => LeaderInv
BY Bounds, SMT DEF Init, LeaderInv, LeaderTypes, Backed, Down, Stages

\* sweep: only a lock that backs nothing goes.
LEMMA LeaderSweep == LeaderInv /\ sweep => LeaderInv'
<1> SUFFICES ASSUME LeaderInv, sweep PROVE LeaderInv'
  OBVIOUS
<1>1. \A q \in Replicas : claim[q] = 0
  BY NoClaim DEF sweep
<1>2. UNCHANGED <<start, proc, runner, stall, claim>> /\ lock' = None
  BY DEF sweep, main, loop
<1> QED
  BY <1>1, <1>2, SMT DEF LeaderInv, LeaderTypes, Backed, Down

\* Time: the lock and the claims run down together.
LEMMA LeaderTime == LeaderInv /\ Time => LeaderInv'
<1> SUFFICES ASSUME LeaderInv, Time PROVE LeaderInv'
  OBVIOUS
<1>1. UNCHANGED <<start, proc, runner>>
  BY DEF Time, main
<1>2. stall' \in [Replicas -> 0 .. MaxStall]
  BY Bounds, SMT DEF Time, LeaderInv, LeaderTypes
<1>3. /\ claim' \in [Replicas -> 0 .. LockTTL]
      /\ \A q \in Replicas : claim'[q] = IF claim[q] > 0 THEN claim[q] - 1 ELSE 0
  BY Bounds, SMT DEF Time, LeaderInv, LeaderTypes
<1>4. ASSUME lock \in Lock, lock.left >= -MaxStall
      PROVE  lock' \in Lock /\ lock'.owner = lock.owner /\ lock'.left = lock.left - 1
  BY <1>4, NoneAssumption, Bounds, SMT DEF Time, Lock
<1>5. ASSUME lock = None \/ lock.left < -MaxStall PROVE lock' = lock
  BY <1>5 DEF Time
<1>6. lock \in Lock => lock.left \in Int
  BY Bounds, SMT DEF Lock
<1>7. LeaderTypes'
  BY <1>1, <1>2, <1>3, <1>4, <1>5, <1>6, Bounds, SMT DEF LeaderInv, LeaderTypes
<1>8. \A q \in Replicas : Backed(q)'
  <2> SUFFICES ASSUME NEW q \in Replicas, claim'[q] > 0
               PROVE  lock' # None /\ lock'.owner = Self(q)' /\ claim'[q] <= lock'.left
    BY DEF Backed
  <2>1. claim[q] \in Nat /\ claim[q] > 0 /\ claim'[q] = claim[q] - 1
    BY <1>3, Bounds, SMT DEF LeaderInv, LeaderTypes
  <2>2. lock \in Lock /\ lock.owner = Self(q) /\ claim[q] <= lock.left
    BY <2>1 DEF LeaderInv, LeaderTypes, Backed
  <2>3. lock' \in Lock /\ lock'.owner = lock.owner /\ lock'.left = lock.left - 1
    BY <1>4, <1>6, <2>1, <2>2, Bounds, SMT
  <2> QED
    BY <1>1, <1>6, <2>1, <2>2, <2>3, NoneAssumption, SMT DEF Self
<1>9. \A q \in Replicas : Down(q)'
  BY <1>1, <1>3, SMT DEF LeaderInv, Down
<1> QED
  BY <1>7, <1>8, <1>9 DEF LeaderInv

\* The loop: a claim is taken when none runs, or renewed by its holder.
LEMMA LeaderLoop ==
  ASSUME LeaderInv, NEW r \in Replicas, Loop(r) \/ StopSeen(r)
  PROVE  LeaderInv'
<1> USE Bounds
<1>0. LeaderTypes /\ Down(r) /\ 0 \in 0 .. MaxStall
  BY SMT DEF LeaderInv
<1>1. CASE Tick(r) \/ RunOnce(r) \/ StopSeen(r)
  <2>1. UNCHANGED <<start, proc, stall, lock, claim>>
    BY <1>1 DEF Tick, RunOnce, StopSeen, main, shared
  <2>2. proc[r] # "exit"
    BY <1>0, <1>1 DEF Tick, RunOnce, StopSeen, Down
  <2>3. /\ runner' \in [Replicas -> {"wait", "setNX", "renew", "run", "release", "done"}]
        /\ \A q \in Replicas : q # r => runner'[q] = runner[q]
    BY <1>0, <1>1 DEF Tick, RunOnce, StopSeen, Set, LeaderTypes
  <2> QED
    BY <1>0, <2>1, <2>2, <2>3, Moved DEF LeaderTypes
<1>2. CASE SetNX(r) /\ (lock = None \/ expired(lock, stall[r]))
  <2>1. \A q \in Replicas : claim[q] = 0
    BY <1>0, <1>2, NoClaim, SMT DEF LeaderTypes
  <2>2. runner[r] # "done" /\ Claim(r) /\ UNCHANGED <<start, proc>>
    BY <1>2 DEF SetNX, main
  <2> QED
    BY <2>1, <2>2, Claimed, SMT
<1>3. CASE RenewIfOwner(r) /\ lock # None /\ ~expired(lock, stall[r]) /\ Owned(r)
  <2>1. runner[r] # "done" /\ Claim(r) /\ UNCHANGED <<start, proc>>
    BY <1>3 DEF RenewIfOwner, main
  <2> QED
    BY <1>3, <2>1, OwnerAlone, Claimed
<1>4. CASE \/ SetNX(r) /\ ~(lock = None \/ expired(lock, stall[r]))
           \/ RenewIfOwner(r) /\ ~(lock # None /\ ~expired(lock, stall[r]) /\ Owned(r))
  <2>1. UNCHANGED <<start, proc, lock, claim>>
    BY <1>4 DEF SetNX, RenewIfOwner, main
  <2>2. proc[r] # "exit"
    BY <1>0, <1>4 DEF SetNX, RenewIfOwner, Down
  <2>3. /\ runner' \in [Replicas -> {"wait", "setNX", "renew", "run", "release", "done"}]
        /\ \A q \in Replicas : q # r => runner'[q] = runner[q]
        /\ stall' \in [Replicas -> 0 .. MaxStall]
    BY <1>0, <1>4 DEF SetNX, RenewIfOwner, Set, LeaderTypes
  <2> QED
    BY <1>0, <2>1, <2>2, <2>3, Moved DEF LeaderTypes
<1>5. CASE DeleteIfOwner(r)
  <2>1. UNCHANGED <<start, proc, stall>>
    BY <1>5 DEF DeleteIfOwner, main
  <2>2. /\ claim' \in [Replicas -> 0 .. LockTTL]
        /\ \A q \in Replicas : claim'[q] = IF q = r THEN 0 ELSE claim[q]
    BY <1>0, <1>5, SMT DEF DeleteIfOwner, Set, LeaderTypes
  <2>3. /\ runner' \in [Replicas -> {"wait", "setNX", "renew", "run", "release", "done"}]
        /\ \A q \in Replicas : runner'[q] = IF q = r THEN "done" ELSE runner[q]
    BY <1>0, <1>5 DEF DeleteIfOwner, Set, LeaderTypes
  <2>4. lock' = IF lock # None /\ Owned(r) THEN None ELSE lock
    BY <1>5 DEF DeleteIfOwner
  <2>5. \A q \in Replicas : claim'[q] > 0 => claim[q] > 0 /\ claim'[q] = claim[q] /\ lock' = lock
    BY <2>2, <2>4, OwnerAlone, SMT
  <2>6. \A q \in Replicas : Backed(q)'
    BY <2>1, <2>5 DEF LeaderInv, Backed, Self
  <2>7. \A q \in Replicas : Down(q)'
    BY <2>1, <2>2, <2>3 DEF LeaderInv, Down
  <2>8. LeaderTypes'
    BY <1>0, <2>1, <2>2, <2>3, <2>4 DEF LeaderTypes
  <2> QED
    BY <2>6, <2>7, <2>8 DEF LeaderInv
<1> QED
  BY <1>1, <1>2, <1>3, <1>4, <1>5 DEF Loop

\* A failed call: it may have written a lock, but nobody claims by it.
LEMMA LeaderFails ==
  ASSUME LeaderInv, NEW r \in Replicas, StoreFails(r)
  PROVE  LeaderInv'
<1> USE Bounds
<1>0. LeaderTypes /\ Down(r) /\ 0 \in 0 .. MaxStall
  BY SMT DEF LeaderInv
<1>1. UNCHANGED <<start, proc, claim>> /\ Calling(r) /\ proc[r] # "exit"
  BY <1>0 DEF StoreFails, main, Calling, Down
<1>2. /\ runner' \in [Replicas -> {"wait", "setNX", "renew", "run", "release", "done"}]
      /\ \A q \in Replicas : q # r => runner'[q] = runner[q]
      /\ stall' \in [Replicas -> 0 .. MaxStall]
  BY <1>0 DEF StoreFails, Set, LeaderTypes
<1>3. CASE UNCHANGED lock
  BY <1>0, <1>1, <1>2, <1>3, Moved DEF LeaderTypes
<1>4. CASE lock' # lock
  <2>1. lock' = [owner |-> Self(r), left |-> LockTTL - 0]
    BY <1>4, SMT DEF StoreFails
  <2>2. /\ lock' \in Lock /\ lock' # None
        /\ lock'.owner = Self(r) /\ lock'.left = LockTTL - 0
    BY <1>0, <2>1, NewLock
  <2>3. (lock = None \/ expired(lock, 0)) \/ Owned(r)
    BY <1>4 DEF StoreFails
  <2>4. \A q \in Replicas : claim[q] > 0 => q = r
    BY <2>3, NoClaim, OwnerAlone, SMT
  <2>5. \A q \in Replicas : claim[q] \in Nat /\ claim[q] <= LockTTL
    BY <1>0, SMT DEF LeaderTypes
  <2>6. \A q \in Replicas : Backed(q)'
    BY <1>1, <2>2, <2>4, <2>5, SMT DEF Backed, Self
  <2>7. \A q \in Replicas : Down(q)'
    BY <1>1, <1>2 DEF LeaderInv, Down
  <2>8. LeaderTypes'
    BY <1>0, <1>1, <1>2, <2>2 DEF LeaderTypes
  <2> QED
    BY <2>6, <2>7, <2>8 DEF LeaderInv
<1> QED
  BY <1>3, <1>4

\* Start: the new process has another self; the old one left no claim.
LEMMA LeaderStart ==
  ASSUME LeaderInv, NEW r \in Replicas, Start(r)
  PROVE  LeaderInv'
<1>0. LeaderTypes /\ Down(r) /\ proc[r] = "exit"
  BY DEF LeaderInv, Start
<1>1. UNCHANGED <<stall, lock, claim>> /\ claim[r] = 0
  BY <1>0 DEF Start, shared, Down
<1>2. /\ start' \in [Replicas -> Nat]
      /\ \A q \in Replicas : q # r => start'[q] = start[q]
  BY <1>0, SMT DEF Start, Set, LeaderTypes
<1>3. /\ proc' \in [Replicas -> Stages]
      /\ \A q \in Replicas : proc'[q] = IF q = r THEN "up" ELSE proc[q]
  BY <1>0 DEF Start, Set, LeaderTypes, Stages
<1>4. /\ runner' \in [Replicas -> {"wait", "setNX", "renew", "run", "release", "done"}]
      /\ \A q \in Replicas : q # r => runner'[q] = runner[q]
  BY <1>0 DEF Start, Set, LeaderTypes
<1>5. \A q \in Replicas : Backed(q)'
  BY <1>1, <1>2, Bounds, SMT DEF LeaderInv, Backed, Self
<1>6. \A q \in Replicas : Down(q)'
  BY <1>1, <1>3, <1>4 DEF LeaderInv, Down
<1>7. LeaderTypes'
  BY <1>0, <1>1, <1>2, <1>3, <1>4 DEF LeaderTypes
<1> QED
  BY <1>5, <1>6, <1>7 DEF LeaderInv

\* Exit and Crash: the claim goes with the process, the lock stays.
LEMMA LeaderGone ==
  ASSUME LeaderInv, NEW r \in Replicas, Gone(r)
  PROVE  LeaderInv'
<1>0. LeaderTypes /\ 0 \in 0 .. MaxStall /\ 0 \in 0 .. LockTTL
  BY Bounds, SMT DEF LeaderInv
<1>1. UNCHANGED <<start, lock>>
  BY DEF Gone
<1>2. /\ claim' \in [Replicas -> 0 .. LockTTL]
      /\ \A q \in Replicas : claim'[q] = IF q = r THEN 0 ELSE claim[q]
  BY <1>0 DEF Gone, Set, LeaderTypes
<1>3. /\ proc' \in [Replicas -> Stages]
      /\ \A q \in Replicas : q # r => proc'[q] = proc[q]
  BY <1>0 DEF Gone, Set, LeaderTypes, Stages
<1>4. /\ runner' \in [Replicas -> {"wait", "setNX", "renew", "run", "release", "done"}]
      /\ \A q \in Replicas : runner'[q] = IF q = r THEN "done" ELSE runner[q]
      /\ stall' \in [Replicas -> 0 .. MaxStall]
  BY <1>0 DEF Gone, Set, LeaderTypes
<1>5. \A q \in Replicas : Backed(q)'
  BY <1>1, <1>2, SMT DEF LeaderInv, Backed, Self
<1>6. \A q \in Replicas : Down(q)'
  BY <1>2, <1>3, <1>4 DEF LeaderInv, Down
<1>7. LeaderTypes'
  BY <1>0, <1>1, <1>2, <1>3, <1>4 DEF LeaderTypes
<1> QED
  BY <1>5, <1>6, <1>7 DEF LeaderInv

\* The stages of main up to the last, and what requests and the worker do.
LEMMA LeaderMain ==
  ASSUME LeaderInv, NEW r \in Replicas,
         \/ Signal(r) \/ Drained(r) \/ StopJobs(r) \/ AuditClosed(r) \/ CloseDB(r)
         \/ RequestArrives(r) \/ RequestEnds(r) \/ Flush(r) \/ LastFlush(r) \/ FlushEnds(r)
  PROVE  LeaderInv'
<1>1. UNCHANGED <<start, runner, stall, lock, claim>>
  BY DEF Signal, Drained, StopJobs, AuditClosed, CloseDB, RequestArrives, RequestEnds,
         Flush, LastFlush, FlushEnds, Stage, loop, shared
<1>2. \/ UNCHANGED proc
      \/ \E s \in Stages \ {"exit"} : proc' = Set(proc, r, s)
  BY DEF Signal, Drained, StopJobs, AuditClosed, CloseDB, RequestArrives, RequestEnds,
         Flush, LastFlush, FlushEnds, Stage, Stages
<1>3. proc' \in [Replicas -> Stages] /\ \A q \in Replicas : proc'[q] = "exit" => proc[q] = "exit"
  BY <1>2 DEF LeaderInv, LeaderTypes, Set
<1> QED
  BY <1>1, <1>3, Moved DEF LeaderInv, LeaderTypes

\* Two replicas never both hold a claim to lead that still runs, however long
\* store calls stall, whichever fail, and whenever replicas die and come back
\* (isLeader, SetNX, RenewIfOwner, DeleteIfOwner).
THEOREM LeadsAlone == Spec => []OneLeader
<1>1. LeaderInv /\ [Next]_vars => LeaderInv'
  <2> SUFFICES ASSUME LeaderInv, [Next]_vars PROVE LeaderInv'
    OBVIOUS
  <2>1. CASE UNCHANGED vars
    BY <2>1, Moved DEF vars, main, loop, shared, LeaderInv, LeaderTypes
  <2>2. CASE sweep \/ Time
    BY <2>2, LeaderSweep, LeaderTime
  <2>3. ASSUME NEW r \in Replicas,
               \/ Shutdown(r) \/ Loop(r) \/ StopSeen(r) \/ StoreFails(r)
               \/ Start(r) \/ RequestArrives(r) \/ RequestEnds(r) \/ Flush(r) \/ LastFlush(r) \/ FlushEnds(r)
               \/ Signal(r) \/ Crash(r)
        PROVE  LeaderInv'
    BY <2>3, LeaderLoop, LeaderFails, LeaderStart, LeaderGone, LeaderMain
       DEF Shutdown, Exit, Crash
  <2> QED
    BY <2>1, <2>2, <2>3 DEF Next
<1>2. LeaderInv => OneLeader
  BY SMT DEF LeaderInv, Backed, Self, OneLeader
<1> QED
  BY LeaderInit, <1>1, <1>2, PTL DEF Spec

-----------------------------------------------------------------------------
(* The shutdown *)

\* From stopJobs on the listener is closed and the jobs are canceled; from
\* closeAudit on an elected loop has ended; from closeDB on the worker has, or
\* was waited for in vain; only then is the pool closed.
Ordered(r) ==
  /\ proc[r] \in {"stopJobs", "closeAudit", "closeDB"} =>
       canceled[r] /\ (request[r] => "shutdown" \in late[r])
  /\ proc[r] \in {"closeAudit", "closeDB"} => JobsStopped(r)
  /\ proc[r] = "closeDB" => (worker[r] # "done" => "audit" \in late[r])
  /\ pool[r] = "closed" => proc[r] \in {"closeDB", "exit"}
  /\ runJobs(r) = "off" => runner[r] = "done"

ShutdownTypes ==
  /\ deployment \in Deployments
  /\ proc \in [Replicas -> Stages]
  /\ request \in [Replicas -> BOOLEAN] /\ canceled \in [Replicas -> BOOLEAN]
  /\ runner \in [Replicas -> {"wait", "setNX", "renew", "run", "release", "done"}]
  /\ worker \in [Replicas -> {"idle", "flush", "last", "done"}]
  /\ pool \in [Replicas -> {"open", "closed"}]
  /\ late \in [Replicas -> SUBSET {"shutdown", "audit"}]

ShutdownInv == ShutdownTypes /\ \A r \in Replicas : Ordered(r)

users == <<deployment, proc, request, canceled, runner, worker, pool, late>>

\* A step that leaves the processes and their parts alone.
LEMMA ShutdownFrame == ShutdownInv /\ UNCHANGED users => ShutdownInv'
BY SMT DEF ShutdownInv, ShutdownTypes, Ordered, JobsStopped, runJobs, users

\* At the start all replicas are down.
LEMMA ShutdownInit == Init => ShutdownInv
<1> SUFFICES ASSUME Init PROVE ShutdownInv
  OBVIOUS
<1>1. request \in [Replicas -> BOOLEAN] /\ canceled \in [Replicas -> BOOLEAN]
  BY DEF Init
<1> QED
  BY <1>1 DEF Init, ShutdownInv, ShutdownTypes, Stages, Ordered

\* The loop: it changes only where it stands, and not after its end.
LEMMA ShutdownLoop ==
  ASSUME ShutdownInv, NEW r \in Replicas, Loop(r) \/ StopSeen(r) \/ StoreFails(r)
  PROVE  ShutdownInv'
<1>1. UNCHANGED <<deployment, proc, request, canceled, worker, pool, late>>
  BY DEF Loop, Tick, SetNX, RenewIfOwner, RunOnce, DeleteIfOwner, StopSeen, StoreFails, main
<1>2. runner[r] # "done"
  BY DEF Loop, Tick, SetNX, RenewIfOwner, RunOnce, DeleteIfOwner, StopSeen, StoreFails, Calling
<1>3. /\ runner' \in [Replicas -> {"wait", "setNX", "renew", "run", "release", "done"}]
      /\ \A q \in Replicas : q # r => runner'[q] = runner[q]
  BY DEF Loop, Tick, SetNX, RenewIfOwner, RunOnce, DeleteIfOwner, StopSeen, StoreFails,
         Claim, Set, ShutdownInv, ShutdownTypes
<1>4. \A q \in Replicas : Ordered(q)'
  BY <1>1, <1>2, <1>3 DEF ShutdownInv, Ordered, JobsStopped, runJobs
<1> QED
  BY <1>1, <1>3, <1>4 DEF ShutdownInv, ShutdownTypes

\* Requests end and the worker flushes; no request arrives once the drain began.
LEMMA ShutdownUsers ==
  ASSUME ShutdownInv, NEW r \in Replicas,
         RequestArrives(r) \/ RequestEnds(r) \/ Flush(r) \/ LastFlush(r) \/ FlushEnds(r)
  PROVE  ShutdownInv'
<1>0. ShutdownTypes /\ \A q \in Replicas : Ordered(q)
  BY DEF ShutdownInv
<1>1. CASE RequestArrives(r) \/ RequestEnds(r)
  <2>1. UNCHANGED <<deployment, proc, canceled, runner, worker, pool, late>>
    BY <1>1 DEF RequestArrives, RequestEnds, loop
  <2>2. request' \in [Replicas -> BOOLEAN]
    BY <1>0, <1>1 DEF RequestArrives, RequestEnds, Set, ShutdownTypes
  <2>3. \A q \in Replicas : request'[q] => request[q] \/ proc[q] = "up"
    BY <1>0, <1>1 DEF RequestArrives, RequestEnds, Set, ShutdownTypes
  <2>4. \A q \in Replicas : Ordered(q)'
    BY <1>0, <2>1, <2>3 DEF Ordered, JobsStopped, runJobs
  <2> QED
    BY <1>0, <2>1, <2>2, <2>4 DEF ShutdownInv, ShutdownTypes
<1>2. CASE Flush(r) \/ LastFlush(r) \/ FlushEnds(r)
  <2>1. UNCHANGED <<deployment, proc, request, canceled, runner, pool, late>>
    BY <1>2 DEF Flush, LastFlush, FlushEnds, loop
  <2>2. /\ worker' \in [Replicas -> {"idle", "flush", "last", "done"}]
        /\ \A q \in Replicas : worker[q] = "done" => worker'[q] = "done"
    BY <1>0, <1>2 DEF Flush, LastFlush, FlushEnds, Set, ShutdownTypes
  <2>3. \A q \in Replicas : Ordered(q)'
    BY <1>0, <2>1, <2>2 DEF Ordered, JobsStopped, runJobs
  <2> QED
    BY <1>0, <2>1, <2>2, <2>3 DEF ShutdownInv, ShutdownTypes
<1> QED
  BY <1>1, <1>2

\* A stage of main: what it has waited for, or noted, is what the next needs.
LEMMA ShutdownStage ==
  ASSUME ShutdownInv, NEW r \in Replicas,
         Signal(r) \/ Drained(r) \/ StopJobs(r) \/ AuditClosed(r)
  PROVE  ShutdownInv'
<1>0. ShutdownTypes /\ \A q \in Replicas : Ordered(q)
  BY DEF ShutdownInv
<1>1. UNCHANGED <<deployment, request, runner, worker, pool>>
  BY DEF Signal, Drained, StopJobs, AuditClosed, Stage
<1>2. /\ proc' \in [Replicas -> Stages]
      /\ \A q \in Replicas : q # r => proc'[q] = proc[q]
  BY <1>0 DEF Signal, Drained, StopJobs, AuditClosed, Stage, Set, ShutdownTypes, Stages
<1>3. /\ late' \in [Replicas -> SUBSET {"shutdown", "audit"}]
      /\ \A q \in Replicas : late[q] \subseteq late'[q]
  BY <1>0, SMT DEF Signal, Drained, StopJobs, AuditClosed, Stage, Set, ShutdownTypes
<1>4. canceled' = canceled \/ canceled' = Set(canceled, r, TRUE)
  BY DEF Signal, Drained, StopJobs, AuditClosed
<1>5. canceled' \in [Replicas -> BOOLEAN]
  BY <1>0, <1>4 DEF Set, ShutdownTypes
<1>6. \A q \in Replicas : canceled[q] => canceled'[q]
  BY <1>0, <1>4 DEF Set, ShutdownTypes
<1>7. \A q \in Replicas : q # r => Ordered(q)'
  BY <1>0, <1>1, <1>2, <1>3, <1>6 DEF Ordered, JobsStopped, runJobs
<1>8. Ordered(r)'
  <2>1. CASE Signal(r)
    <3>1. proc[r] = "up" /\ proc'[r] = "drain"
      BY <1>0, <2>1 DEF Signal, Stage, Set, ShutdownTypes
    <3> QED
      BY <1>0, <1>1, <3>1 DEF Ordered, JobsStopped, runJobs
  <2>2. CASE Drained(r)
    <3>1. proc[r] = "drain" /\ proc'[r] = "stopJobs"
      BY <1>0, <2>2 DEF Drained, Stage, Set, ShutdownTypes
    <3>2. canceled'[r]
      BY <1>0, <2>2 DEF Drained, Set, ShutdownTypes
    <3>3. request[r] => "shutdown" \in late'[r]
      BY <1>0, <2>2, SMT DEF Drained, Stage, Set, ShutdownTypes
    <3> QED
      BY <1>0, <1>1, <3>1, <3>2, <3>3 DEF Ordered, JobsStopped, runJobs
  <2>3. CASE StopJobs(r)
    <3>1. proc[r] = "stopJobs" /\ proc'[r] = "closeAudit" /\ JobsStopped(r)
      BY <1>0, <2>3 DEF StopJobs, Stage, Set, ShutdownTypes
    <3> QED
      BY <1>0, <1>1, <1>3, <1>6, <3>1 DEF Ordered, JobsStopped, runJobs
  <2>4. CASE AuditClosed(r)
    <3>1. proc[r] = "closeAudit" /\ proc'[r] = "closeDB"
      BY <1>0, <2>4 DEF AuditClosed, Stage, Set, ShutdownTypes
    <3>2. worker[r] # "done" => "audit" \in late'[r]
      BY <1>0, <2>4, SMT DEF AuditClosed, Stage, Set, ShutdownTypes
    <3> QED
      BY <1>0, <1>1, <1>3, <1>6, <3>1, <3>2 DEF Ordered, JobsStopped, runJobs
  <2> QED
    BY <2>1, <2>2, <2>3, <2>4
<1>9. \A q \in Replicas : Ordered(q)'
  BY <1>7, <1>8
<1> QED
  BY <1>0, <1>1, <1>2, <1>3, <1>5, <1>9 DEF ShutdownInv, ShutdownTypes

\* CloseDB comes last.
LEMMA ShutdownClose ==
  ASSUME ShutdownInv, NEW r \in Replicas, CloseDB(r)
  PROVE  ShutdownInv'
<1>1. UNCHANGED <<deployment, proc, request, canceled, runner, worker, late>>
  BY DEF CloseDB, loop
<1>2. /\ pool' \in [Replicas -> {"open", "closed"}]
      /\ \A q \in Replicas : pool'[q] = "closed" => pool[q] = "closed" \/ proc[q] = "closeDB"
  BY DEF CloseDB, Set, ShutdownInv, ShutdownTypes
<1>3. \A q \in Replicas : Ordered(q)'
  BY <1>1, <1>2 DEF ShutdownInv, Ordered, JobsStopped, runJobs
<1> QED
  BY <1>1, <1>2, <1>3 DEF ShutdownInv, ShutdownTypes

\* A process comes or goes: its parts are new, or nobody's.
LEMMA ShutdownProcess ==
  ASSUME ShutdownInv, NEW r \in Replicas, Start(r) \/ Gone(r)
  PROVE  ShutdownInv'
<1>0. ShutdownTypes /\ \A q \in Replicas : Ordered(q)
  BY DEF ShutdownInv
<1>1. UNCHANGED deployment
  BY DEF Start, Gone
<1>2. request' \in [Replicas -> BOOLEAN] /\ canceled' \in [Replicas -> BOOLEAN]
  BY <1>0 DEF Start, Gone, Set, ShutdownTypes
<1>3. \A q \in Replicas : q # r => request'[q] = request[q]
  BY <1>0 DEF Start, Gone, Set, ShutdownTypes
<1>4. \A q \in Replicas : q # r => canceled'[q] = canceled[q]
  BY <1>0 DEF Start, Gone, Set, ShutdownTypes
<1>5. /\ proc' \in [Replicas -> Stages]
      /\ \A q \in Replicas : q # r => proc'[q] = proc[q]
  BY <1>0 DEF Start, Gone, Set, ShutdownTypes, Stages
<1>6. /\ runner' \in [Replicas -> {"wait", "setNX", "renew", "run", "release", "done"}]
      /\ \A q \in Replicas : q # r => runner'[q] = runner[q]
  BY <1>0 DEF Start, Gone, Set, ShutdownTypes
<1>7. /\ worker' \in [Replicas -> {"idle", "flush", "last", "done"}]
      /\ \A q \in Replicas : q # r => worker'[q] = worker[q]
  BY <1>0 DEF Start, Gone, Set, ShutdownTypes
<1>8. /\ pool' \in [Replicas -> {"open", "closed"}]
      /\ \A q \in Replicas : q # r => pool'[q] = pool[q]
  BY <1>0 DEF Start, Gone, Set, ShutdownTypes
<1>9. /\ late' \in [Replicas -> SUBSET {"shutdown", "audit"}]
      /\ \A q \in Replicas : q # r => late'[q] = late[q]
  BY <1>0 DEF Start, Gone, Set, ShutdownTypes
<1>10. \A q \in Replicas : q # r => Ordered(q)'
  BY <1>0, <1>1, <1>3, <1>4, <1>5, <1>6, <1>7, <1>8, <1>9, SMT DEF Ordered, JobsStopped, runJobs
<1>11. /\ (proc'[r] = "up" /\ pool'[r] = "open") \/ proc'[r] = "exit"
       /\ runJobs(r) = "off" => runner'[r] = "done"
  BY <1>0 DEF Start, Gone, Set, ShutdownTypes
<1>12. Ordered(r)'
  BY <1>1, <1>11 DEF Ordered, runJobs
<1>13. \A q \in Replicas : Ordered(q)'
  BY <1>10, <1>12
<1> QED
  BY <1>0, <1>1, <1>2, <1>5, <1>6, <1>7, <1>8, <1>9, <1>13 DEF ShutdownInv, ShutdownTypes

\* The pool is closed only after those who use it are done, canceled, or were
\* waited for until a timeout (run: Shutdown, stopJobs, auditRepo.Close, the
\* pool).
THEOREM PoolClosedLast == Spec => []PoolOutlivesUsers
<1>1. ShutdownInv /\ [Next]_vars => ShutdownInv'
  <2> SUFFICES ASSUME ShutdownInv, [Next]_vars PROVE ShutdownInv'
    OBVIOUS
  <2>1. CASE sweep \/ Time \/ UNCHANGED vars
    <3>1. UNCHANGED users
      BY <2>1 DEF sweep, Time, vars, main, loop, users
    <3> QED
      BY <3>1, ShutdownFrame
  <2>2. ASSUME NEW r \in Replicas,
               \/ Shutdown(r) \/ Loop(r) \/ StopSeen(r) \/ StoreFails(r)
               \/ Start(r) \/ RequestArrives(r) \/ RequestEnds(r) \/ Flush(r) \/ LastFlush(r) \/ FlushEnds(r)
               \/ Signal(r) \/ Crash(r)
        PROVE  ShutdownInv'
    BY <2>2, ShutdownLoop, ShutdownUsers, ShutdownStage, ShutdownClose, ShutdownProcess
       DEF Shutdown, Exit, Crash
  <2> QED
    BY <2>1, <2>2 DEF Next
<1>2. ShutdownInv => PoolOutlivesUsers
  <2> SUFFICES ASSUME ShutdownInv, NEW r \in Replicas, pool[r] = "closed", proc[r] # "exit"
               PROVE  /\ request[r] => "shutdown" \in late[r]
                      /\ worker[r] # "done" => "audit" \in late[r]
                      /\ runner[r] # "done" => canceled[r] /\ runJobs(r) = "always"
    BY DEF PoolOutlivesUsers
  <2>1. proc[r] = "closeDB" /\ Ordered(r)
    BY DEF ShutdownInv, Ordered
  <2>2. runJobs(r) \in {"elect", "always", "off"}
    BY LifecycleAssumption DEF ShutdownInv, ShutdownTypes, runJobs
  <2> QED
    BY <2>1, <2>2 DEF Ordered, JobsStopped
<1> QED
  BY ShutdownInit, <1>1, <1>2, PTL DEF Spec

-----------------------------------------------------------------------------
(* Single-use tokens *)

\* The request won SetNX.
Past(p) == req[p].pc \in {"check", "durable", "apply", "commit"}

\* A request at work presents an issued token.
Presents ==
  \A p \in Requests : req[p].pc # "idle" => req[p].tok \in issued

\* A winner's token is marked and not applied, and no other winner has it.
WinnerAlone ==
  \A p \in Requests : Past(p) =>
    /\ req[p].tok \in marked
    /\ applied[req[p].tok] = 0
    /\ \A q \in Requests : Past(q) /\ q # p => req[q].tok # req[p].tok

\* An applied token is marked, or expired and presented by nobody.
AppliedMarked ==
  \A t \in Tokens : applied[t] > 0 =>
    \/ t \in marked
    \/ t \in lapsed /\ \A p \in Requests : req[p].tok # t

Kept == WinnerAlone /\ AppliedMarked /\ ReplayRejected

OnceInv == TokenTypeOK /\ Presents /\ (~flushed => Kept)

\* An applied token has its row until it expires.
AppliedRecorded == \A t \in Tokens : applied[t] > 0 => t \in used \cup lapsed

\* So does the token of a request about to commit, unless it wrote the row.
WillRecord ==
  \A p \in Requests : req[p].pc \in {"apply", "commit"} =>
    req[p].inserted \/ req[p].tok \in used \cup lapsed

\* A late request sees the row, and one past the check did not.
LateSees ==
  \A p \in Requests :
    /\ req[p].late => req[p].tok \in req[p].seen
    /\ req[p].pc \in {"durable", "apply", "commit"} => req[p].tok \notin req[p].seen

BackstopInv == TokenTypeOK /\ Presents /\ AppliedRecorded /\ WillRecord /\ LateSees

-----------------------------------------------------------------------------
(* What every step preserves *)

Basic == TokenTypeOK /\ Presents

\* The request record a step writes is a request.
LEMMA RecordTyped ==
  ASSUME NEW r \in Request, NEW c \in {"idle", "mark", "check", "durable", "apply", "commit"},
         NEW b \in BOOLEAN
  PROVE  /\ [r EXCEPT !.pc = c] \in Request
         /\ [r EXCEPT !.pc = c, !.inserted = b] \in Request
         /\ NoRequest \in Request
BY DEF Request, NoRequest

\* The initial state is well typed.
LEMMA TypeInit == TokenInit => TokenTypeOK
<1> SUFFICES ASSUME TokenInit PROVE TokenTypeOK
  OBVIOUS
<1>1. NoRequest \in Request
  BY DEF NoRequest, Request
<1>2. req \in [Requests -> Request] /\ applied \in [Tokens -> 0 .. 2]
  BY <1>1, SMT DEF TokenInit
<1>3. flushed \in BOOLEAN
  BY DEF TokenInit
<1> QED
  BY <1>2, <1>3 DEF TokenInit, TokenTypeOK

\* Types are kept, and a request at work presents an issued token.
LEMMA BasicStep == Basic /\ [TokenNext]_tokenVars => Basic'
<1> SUFFICES ASSUME Basic, [TokenNext]_tokenVars PROVE Basic'
  OBVIOUS
<1> USE DEF Basic
<1>1. ASSUME NEW p \in Requests, NEW t \in Tokens, Begin(p, t) PROVE Basic'
  <2>1. [pc |-> "mark", tok |-> t, seen |-> used, inserted |-> FALSE,
         late |-> applied[t] > 0] \in Request
    BY <1>1, SMT DEF Begin, TokenTypeOK, Request
  <2>2. TokenTypeOK'
    BY <1>1, <2>1 DEF Begin, TokenTypeOK
  <2> QED
    BY <1>1, <2>2 DEF Begin, TokenTypeOK, Presents
<1>2. ASSUME NEW p \in Requests, markTokenUsed(p) PROVE Basic'
  <2> DEFINE r == [req[p] EXCEPT !.pc = "check"]
  <2>1. r \in Request
    BY RecordTyped DEF TokenTypeOK
  <2>2. req' = [req EXCEPT ![p] = r]
    BY <1>2 DEF markTokenUsed, TokenTypeOK
  <2>3. req[p].tok \in issued
    BY <1>2 DEF markTokenUsed, Presents
  <2>4. TokenTypeOK'
    BY <1>2, <2>1, <2>2, <2>3 DEF markTokenUsed, TokenTypeOK
  <2>5. Presents'
    BY <1>2, <2>2, <2>3 DEF markTokenUsed, TokenTypeOK, Presents, Request, NoRequest
  <2> QED
    BY <2>4, <2>5
<1>3. ASSUME NEW p \in Requests, markTokenLost(p) PROVE Basic'
  <2> DEFINE r == NoRequest
  <2>1. r \in Request
    BY RecordTyped DEF TokenTypeOK
  <2>2. req' = [req EXCEPT ![p] = r]
    BY <1>3 DEF markTokenLost, TokenTypeOK
  <2>3. req[p].tok \in issued
    BY <1>3 DEF markTokenLost, Presents
  <2>4. TokenTypeOK'
    BY <1>3, <2>1, <2>2, <2>3 DEF markTokenLost, TokenTypeOK
  <2>5. Presents'
    BY <1>3, <2>2, <2>3, SMT DEF markTokenLost, TokenTypeOK, Presents, Request, NoRequest
  <2> QED
    BY <2>4, <2>5
<1>4. ASSUME NEW p \in Requests, IsUsed(p) PROVE Basic'
  <2> DEFINE r == [req[p] EXCEPT !.pc = "durable"]
  <2>1. r \in Request
    BY RecordTyped DEF TokenTypeOK
  <2>2. req' = [req EXCEPT ![p] = r]
    BY <1>4 DEF IsUsed, TokenTypeOK
  <2>3. req[p].tok \in issued
    BY <1>4 DEF IsUsed, Presents
  <2>4. TokenTypeOK'
    BY <1>4, <2>1, <2>2, <2>3 DEF IsUsed, TokenTypeOK
  <2>5. Presents'
    BY <1>4, <2>2, <2>3 DEF IsUsed, TokenTypeOK, Presents, Request, NoRequest
  <2> QED
    BY <2>4, <2>5
<1>5. ASSUME NEW p \in Requests, markTokenDurable(p) PROVE Basic'
  <2> DEFINE r == [req[p] EXCEPT !.pc = "apply", !.inserted = req[p].tok \notin used]
  <2>1. r \in Request
    BY RecordTyped DEF TokenTypeOK
  <2>2. req' = [req EXCEPT ![p] = r]
    BY <1>5 DEF markTokenDurable, TokenTypeOK
  <2>3. req[p].tok \in issued
    BY <1>5 DEF markTokenDurable, Presents
  <2>4. TokenTypeOK'
    BY <1>5, <2>1, <2>2, <2>3, SMT DEF markTokenDurable, TokenTypeOK
  <2>5. Presents'
    BY <1>5, <2>2, <2>3, SMT DEF markTokenDurable, TokenTypeOK, Presents, Request, NoRequest
  <2> QED
    BY <2>4, <2>5
<1>6. ASSUME NEW p \in Requests, Apply(p) PROVE Basic'
  <2> DEFINE r == [req[p] EXCEPT !.pc = "commit"]
  <2>1. r \in Request
    BY RecordTyped DEF TokenTypeOK
  <2>2. req' = [req EXCEPT ![p] = r]
    BY <1>6 DEF Apply, TokenTypeOK
  <2>3. req[p].tok \in issued
    BY <1>6 DEF Apply, Presents
  <2>4. TokenTypeOK'
    BY <1>6, <2>1, <2>2, <2>3 DEF Apply, TokenTypeOK
  <2>5. Presents'
    BY <1>6, <2>2, <2>3 DEF Apply, TokenTypeOK, Presents, Request, NoRequest
  <2> QED
    BY <2>4, <2>5
<1>7. ASSUME NEW p \in Requests, Commit(p) PROVE Basic'
  <2> DEFINE r == NoRequest
  <2>1. r \in Request
    BY RecordTyped DEF TokenTypeOK
  <2>2. req' = [req EXCEPT ![p] = r]
    BY <1>7 DEF Commit, TokenTypeOK
  <2>3. req[p].tok \in issued
    BY <1>7 DEF Commit, Presents
  <2>4. TokenTypeOK'
    BY <1>7, <2>1, <2>2, <2>3, SMT DEF Commit, TokenTypeOK
  <2>5. Presents'
    BY <1>7, <2>2, <2>3, SMT DEF Commit, TokenTypeOK, Presents, Request, NoRequest
  <2> QED
    BY <2>4, <2>5
<1>8. ASSUME NEW p \in Requests, Abort(p) PROVE Basic'
  <2> DEFINE r == NoRequest
  <2>1. r \in Request
    BY RecordTyped DEF TokenTypeOK
  <2>2. req' = [req EXCEPT ![p] = r]
    BY <1>8 DEF Abort, TokenTypeOK
  <2>3. req[p].tok \in issued
    BY <1>8 DEF Abort, Presents
  <2>4. TokenTypeOK'
    BY <1>8, <2>1, <2>2, <2>3 DEF Abort, TokenTypeOK
  <2>5. Presents'
    BY <1>8, <2>2, <2>3, SMT DEF Abort, TokenTypeOK, Presents, Request, NoRequest
  <2> QED
    BY <2>4, <2>5
<1>9. ASSUME NEW t \in Tokens, Issue(t) \/ Expire(t) \/ StoreExpire(t) PROVE Basic'
  BY <1>9 DEF Issue, Expire, StoreExpire, TokenTypeOK, Presents
<1>10. ASSUME PurgeExpired \/ StoreLost \/ UNCHANGED tokenVars PROVE Basic'
  BY <1>10 DEF PurgeExpired, StoreLost, tokenVars, TokenTypeOK, Presents
<1> QED
  BY <1>1, <1>2, <1>3, <1>4, <1>5, <1>6, <1>7, <1>8, <1>9, <1>10 DEF TokenNext, Step

-----------------------------------------------------------------------------
(* A token is applied at most once while the store keeps its keys *)

\* A flush is never forgotten.
LEMMA FlushStays == [TokenNext]_tokenVars /\ ~flushed' => ~flushed
BY DEF TokenNext, Step, Begin, markTokenUsed, markTokenLost, IsUsed, markTokenDurable, Apply,
       Commit, Abort, Issue, Expire, StoreExpire, PurgeExpired, StoreLost, tokenVars

\* Without a flush every step keeps the winners apart.
LEMMA OnceStep ==
  ASSUME Basic, Kept, [TokenNext]_tokenVars, ~flushed'
  PROVE  Kept'
<1> USE DEF Basic, Kept
<1>1. ASSUME NEW p \in Requests, NEW t \in Tokens, Begin(p, t) PROVE Kept'
  <2>1. \A q \in Requests \ {p} : req'[q] = req[q]
    BY <1>1 DEF Begin, TokenTypeOK
  <2>2. req'[p].pc = "mark" /\ req'[p].tok = t
    BY <1>1 DEF Begin, TokenTypeOK
  <2> QED
    BY <1>1, <2>1, <2>2, SMT DEF Begin, WinnerAlone, AppliedMarked, ReplayRejected, Past
<1>2. ASSUME NEW p \in Requests, markTokenUsed(p) PROVE Kept'
  <2>1. \A q \in Requests \ {p} : req'[q] = req[q]
    BY <1>2 DEF markTokenUsed, TokenTypeOK
  <2>2. req'[p].pc = "check" /\ req'[p].tok = req[p].tok
    BY <1>2 DEF markTokenUsed, TokenTypeOK, Request, NoRequest
  <2>3. req[p].tok \in Tokens /\ applied[req[p].tok] = 0
    BY <1>2, SMT DEF markTokenUsed, AppliedMarked, Presents, TokenTypeOK
  <2>4. WinnerAlone'
    BY <1>2, <2>1, <2>2, <2>3, SMT DEF markTokenUsed, WinnerAlone, Past
  <2>5. AppliedMarked' /\ ReplayRejected'
    BY <1>2, <2>1, <2>2 DEF markTokenUsed, AppliedMarked, ReplayRejected
  <2> QED
    BY <2>4, <2>5
<1>3. ASSUME NEW p \in Requests, markTokenLost(p) PROVE Kept'
  <2>1. \A q \in Requests \ {p} : req'[q] = req[q]
    BY <1>3 DEF markTokenLost, TokenTypeOK
  <2>2. req'[p].pc = "idle" /\ req'[p].tok = NoToken
    BY <1>3 DEF markTokenLost, TokenTypeOK, Request, NoRequest
  <2>3. WinnerAlone'
    BY <1>3, <2>1, <2>2, SMT DEF markTokenLost, WinnerAlone, Past
  <2>4. AppliedMarked' /\ ReplayRejected'
    BY <1>3, <2>1, <2>2, SingleUseAssumption DEF markTokenLost, AppliedMarked, ReplayRejected
  <2> QED
    BY <2>3, <2>4
<1>4. ASSUME NEW p \in Requests, IsUsed(p) PROVE Kept'
  <2>1. \A q \in Requests \ {p} : req'[q] = req[q]
    BY <1>4 DEF IsUsed, TokenTypeOK
  <2>2. req'[p].pc = "durable" /\ req'[p].tok = req[p].tok
    BY <1>4 DEF IsUsed, TokenTypeOK, Request, NoRequest
  <2>3. WinnerAlone'
    BY <1>4, <2>1, <2>2, SMT DEF IsUsed, WinnerAlone, Past
  <2>4. AppliedMarked' /\ ReplayRejected'
    BY <1>4, <2>1, <2>2, SingleUseAssumption DEF IsUsed, AppliedMarked, ReplayRejected
  <2> QED
    BY <2>3, <2>4
<1>5. ASSUME NEW p \in Requests, markTokenDurable(p) PROVE Kept'
  <2>1. \A q \in Requests \ {p} : req'[q] = req[q]
    BY <1>5 DEF markTokenDurable, TokenTypeOK
  <2>2. req'[p].pc = "apply" /\ req'[p].tok = req[p].tok
    BY <1>5 DEF markTokenDurable, TokenTypeOK, Request, NoRequest
  <2> req[p].pc = "durable" /\ UNCHANGED <<marked, applied>>
    BY <1>5 DEF markTokenDurable
  <2>3. WinnerAlone'
    BY <2>1, <2>2, SMT DEF WinnerAlone, Past
  <2>4. AppliedMarked' /\ ReplayRejected'
    BY <1>5, <2>1, <2>2, SingleUseAssumption DEF markTokenDurable, AppliedMarked, ReplayRejected
  <2> QED
    BY <2>3, <2>4
<1>6. ASSUME NEW p \in Requests, Apply(p) PROVE Kept'
  <2>1. \A q \in Requests \ {p} : req'[q] = req[q]
    BY <1>6 DEF Apply, TokenTypeOK
  <2>2. req'[p].pc = "commit" /\ req'[p].tok = req[p].tok
    BY <1>6 DEF Apply, TokenTypeOK, Request, NoRequest
  <2>3. WinnerAlone'
    BY <1>6, <2>1, <2>2, SMT DEF Apply, WinnerAlone, Past
  <2>4. AppliedMarked' /\ ReplayRejected'
    BY <1>6, <2>1, <2>2, SingleUseAssumption DEF Apply, AppliedMarked, ReplayRejected
  <2> QED
    BY <2>3, <2>4
<1>7. ASSUME NEW p \in Requests, Commit(p) PROVE Kept'
  <2>1. \A q \in Requests \ {p} : req'[q] = req[q]
    BY <1>7 DEF Commit, TokenTypeOK
  <2>2. req'[p].pc = "idle" /\ req'[p].tok = NoToken
    BY <1>7 DEF Commit, TokenTypeOK, Request, NoRequest
  <2>3. req[p].tok \in Tokens /\ req[p].tok \in marked /\ applied[req[p].tok] = 0
    BY <1>7 DEF Commit, WinnerAlone, Past, Presents, TokenTypeOK
  <2>4. applied' = [applied EXCEPT ![req[p].tok] = 1]
    BY <1>7, <2>3, SMT DEF Commit, TokenTypeOK
  <2>5. WinnerAlone'
    BY <1>7, <2>1, <2>2, <2>3, <2>4, SMT DEF Commit, WinnerAlone, Past, TokenTypeOK
  <2>6. AppliedMarked' /\ ReplayRejected'
    BY SMT, <1>7, <2>1, <2>2, <2>3, <2>4, SingleUseAssumption
    DEF Commit, AppliedMarked, ReplayRejected, TokenTypeOK
  <2> QED
    BY <2>5, <2>6
<1>8. ASSUME NEW p \in Requests, Abort(p) PROVE Kept'
  <2>1. \A q \in Requests \ {p} : req'[q] = req[q]
    BY <1>8 DEF Abort, TokenTypeOK
  <2>2. req'[p].pc = "idle" /\ req'[p].tok = NoToken
    BY <1>8 DEF Abort, TokenTypeOK, Request, NoRequest
  <2>3. WinnerAlone'
    BY <1>8, <2>1, <2>2, SMT DEF Abort, WinnerAlone, Past
  <2>4. AppliedMarked' /\ ReplayRejected'
    BY <1>8, <2>1, <2>2, SingleUseAssumption DEF Abort, AppliedMarked, ReplayRejected
  <2> QED
    BY <2>3, <2>4
<1>9. ASSUME NEW t \in Tokens, Issue(t) \/ Expire(t) PROVE Kept'
  BY <1>9 DEF Issue, Expire, WinnerAlone, AppliedMarked, ReplayRejected, Past
<1>10. ASSUME NEW t \in Tokens, StoreExpire(t) PROVE Kept'
  BY <1>10 DEF StoreExpire, WinnerAlone, AppliedMarked, ReplayRejected, Past
<1>11. ASSUME PurgeExpired \/ UNCHANGED tokenVars PROVE Kept'
  BY <1>11 DEF PurgeExpired, tokenVars, WinnerAlone, AppliedMarked, ReplayRejected, Past
<1> QED
  BY <1>1, <1>2, <1>3, <1>4, <1>5, <1>6, <1>7, <1>8, <1>9, <1>10, <1>11
  DEF TokenNext, Step, StoreLost

\* A reset or verify-email token takes effect at most once, for any number of
\* racing ResetPassword and VerifyEmail requests, as long as the store has not
\* been flushed.
THEOREM NeverAppliedTwice == TokenSpec => []AppliedOnce
<1>1. TokenInit => OnceInv
  <2> SUFFICES ASSUME TokenInit PROVE OnceInv
    OBVIOUS
  <2>1. TokenTypeOK
    BY TypeInit
  <2>2. Presents /\ WinnerAlone
    BY DEF TokenInit, Presents, WinnerAlone, Past, NoRequest
  <2>3. AppliedMarked /\ ReplayRejected
    BY SMT DEF TokenInit, AppliedMarked, ReplayRejected
  <2> QED
    BY <2>1, <2>2, <2>3 DEF OnceInv, Kept
<1>2. OnceInv /\ [TokenNext]_tokenVars => OnceInv'
  <2> SUFFICES ASSUME OnceInv, [TokenNext]_tokenVars PROVE OnceInv'
    OBVIOUS
  <2>1. Basic'
    BY BasicStep DEF OnceInv, Basic
  <2>2. ~flushed' => Kept'
    BY OnceStep, FlushStays DEF OnceInv, Basic
  <2> QED
    BY <2>1, <2>2 DEF OnceInv, Basic
<1>3. OnceInv => AppliedOnce
  BY DEF OnceInv, Kept, AppliedOnce
<1> QED
  BY <1>1, <1>2, <1>3, PTL DEF TokenSpec

-----------------------------------------------------------------------------
(* A token applied before is refused, flushed store or not *)

LEMMA BackstopStep ==
  ASSUME BackstopInv, [TokenNext]_tokenVars
  PROVE  BackstopInv'
<1> DEFINE Rest == AppliedRecorded /\ WillRecord /\ LateSees
<1> SUFFICES ASSUME Basic' PROVE Rest'
  BY BasicStep DEF BackstopInv, Basic
<1> USE DEF BackstopInv
<1>1. ASSUME NEW p \in Requests, NEW t \in Tokens, Begin(p, t) PROVE Rest'
  <2>1. \A q \in Requests \ {p} : req'[q] = req[q]
    BY <1>1 DEF Begin, TokenTypeOK
  <2>2. /\ req'[p].pc = "mark" /\ req'[p].tok = t /\ req'[p].seen = used
        /\ req'[p].late = (applied[t] > 0)
    BY <1>1 DEF Begin, TokenTypeOK
  <2>3. req'[p].late => t \in used
    BY <1>1, <2>2 DEF Begin, AppliedRecorded
  <2> QED
    BY <1>1, <2>1, <2>2, <2>3 DEF Begin, AppliedRecorded, WillRecord, LateSees
<1>2. ASSUME NEW p \in Requests, markTokenUsed(p) PROVE Rest'
  <2>1. \A q \in Requests \ {p} : req'[q] = req[q]
    BY <1>2 DEF markTokenUsed, TokenTypeOK
  <2>2. /\ req'[p].pc = "check" /\ req'[p].tok = req[p].tok
        /\ req'[p].seen = req[p].seen /\ req'[p].late = req[p].late
        /\ req'[p].inserted = req[p].inserted
    BY <1>2 DEF markTokenUsed, TokenTypeOK, Request
  <2> QED
    BY <1>2, <2>1, <2>2, SMT DEF markTokenUsed, AppliedRecorded, WillRecord, LateSees
<1>3. ASSUME NEW p \in Requests, markTokenLost(p) PROVE Rest'
  <2>1. \A q \in Requests \ {p} : req'[q] = req[q]
    BY <1>3 DEF markTokenLost, TokenTypeOK
  <2>2. req'[p].pc = "idle" /\ req'[p].late = FALSE
    BY <1>3 DEF markTokenLost, TokenTypeOK, NoRequest
  <2> QED
    BY <1>3, <2>1, <2>2 DEF markTokenLost, AppliedRecorded, WillRecord, LateSees
<1>4. ASSUME NEW p \in Requests, IsUsed(p) PROVE Rest'
  <2>1. \A q \in Requests \ {p} : req'[q] = req[q]
    BY <1>4 DEF IsUsed, TokenTypeOK
  <2>2. /\ req'[p].pc = "durable" /\ req'[p].tok = req[p].tok
        /\ req'[p].seen = req[p].seen /\ req'[p].late = req[p].late
        /\ req'[p].inserted = req[p].inserted
    BY <1>4 DEF IsUsed, TokenTypeOK, Request
  <2> QED
    BY <1>4, <2>1, <2>2 DEF IsUsed, AppliedRecorded, WillRecord, LateSees
<1>5. ASSUME NEW p \in Requests, markTokenDurable(p) PROVE Rest'
  <2>1. \A q \in Requests \ {p} : req'[q] = req[q]
    BY <1>5 DEF markTokenDurable, TokenTypeOK
  <2>2. /\ req'[p].pc = "apply" /\ req'[p].tok = req[p].tok
        /\ req'[p].seen = req[p].seen /\ req'[p].late = req[p].late
    BY <1>5 DEF markTokenDurable, TokenTypeOK, Request
  <2>3. req'[p].inserted \/ req[p].tok \in used
    BY <1>5 DEF markTokenDurable, TokenTypeOK, Request
  <2> req[p].pc = "durable" /\ UNCHANGED <<used, lapsed, applied>>
    BY <1>5 DEF markTokenDurable
  <2> QED
    BY <2>1, <2>2, <2>3 DEF AppliedRecorded, WillRecord, LateSees
<1>6. ASSUME NEW p \in Requests, Apply(p) PROVE Rest'
  <2>1. \A q \in Requests \ {p} : req'[q] = req[q]
    BY <1>6 DEF Apply, TokenTypeOK
  <2>2. /\ req'[p].pc = "commit" /\ req'[p].tok = req[p].tok
        /\ req'[p].seen = req[p].seen /\ req'[p].late = req[p].late
        /\ req'[p].inserted = req[p].inserted
    BY <1>6 DEF Apply, TokenTypeOK, Request
  <2> QED
    BY <1>6, <2>1, <2>2 DEF Apply, AppliedRecorded, WillRecord, LateSees
<1>7. ASSUME NEW p \in Requests, Commit(p) PROVE Rest'
  <2>1. \A q \in Requests \ {p} : req'[q] = req[q]
    BY <1>7 DEF Commit, TokenTypeOK
  <2>2. req'[p].pc = "idle" /\ req'[p].late = FALSE
    BY <1>7 DEF Commit, TokenTypeOK, NoRequest
  <2>3. req[p].tok \in Tokens /\ req[p].tok \in used' \cup lapsed' /\ used \subseteq used'
    BY <1>7 DEF Commit, WillRecord, Presents, TokenTypeOK
  <2>4. \A t \in Tokens \ {req[p].tok} : applied'[t] = applied[t]
    BY <1>7 DEF Commit, TokenTypeOK
  <2>5. AppliedRecorded'
    BY <1>7, <2>3, <2>4 DEF Commit, AppliedRecorded
  <2>6. WillRecord' /\ LateSees'
    BY <1>7, <2>1, <2>2, <2>3, SMT DEF Commit, WillRecord, LateSees
  <2> QED
    BY <2>5, <2>6
<1>8. ASSUME NEW p \in Requests, Abort(p) PROVE Rest'
  <2>1. \A q \in Requests \ {p} : req'[q] = req[q]
    BY <1>8 DEF Abort, TokenTypeOK
  <2>2. req'[p].pc = "idle" /\ req'[p].late = FALSE
    BY <1>8 DEF Abort, TokenTypeOK, NoRequest
  <2> QED
    BY <1>8, <2>1, <2>2 DEF Abort, AppliedRecorded, WillRecord, LateSees
<1>9. ASSUME NEW t \in Tokens, Issue(t) \/ Expire(t) \/ StoreExpire(t) PROVE Rest'
  BY <1>9 DEF Issue, Expire, StoreExpire, AppliedRecorded, WillRecord, LateSees
<1>10. ASSUME PurgeExpired \/ StoreLost \/ UNCHANGED tokenVars PROVE Rest'
  BY <1>10 DEF PurgeExpired, StoreLost, tokenVars, AppliedRecorded, WillRecord, LateSees
<1> QED
  BY <1>1, <1>2, <1>3, <1>4, <1>5, <1>6, <1>7, <1>8, <1>9, <1>10 DEF TokenNext, Step

\* Even with the store flushed at any time, consumeSingleUseToken never lets a
\* request apply a token whose effect was committed before it began.
THEOREM BackstopAlwaysHolds == TokenSpec => BackstopHolds
<1>1. TokenInit => BackstopInv
  <2> SUFFICES ASSUME TokenInit PROVE BackstopInv
    OBVIOUS
  <2>1. TokenTypeOK
    BY TypeInit
  <2>2. Presents /\ AppliedRecorded /\ WillRecord /\ LateSees
    BY SMT DEF TokenInit, Presents, AppliedRecorded, WillRecord, LateSees, NoRequest
  <2> QED
    BY <2>1, <2>2 DEF BackstopInv
<1>2. BackstopInv /\ [TokenNext]_tokenVars => BackstopInv'
  BY BackstopStep
<1>3. BackstopInv => LateStep
  BY DEF BackstopInv, LateSees, LateStep
<1> QED
  BY <1>1, <1>2, <1>3, PTL DEF TokenSpec, BackstopHolds
=============================================================================
