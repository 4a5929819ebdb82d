# FinnApiGo in TLA+

FinnApiGo is an authentication server: HTTP handlers call services, services call
repositories over MySQL, and a key-value store (Redis, or memory) holds counters, locks,
denylists, challenges and replay guards. This directory models the parts in which several
requests, jobs or replicas meet in shared state, checks them with TLC and proves the
central results with TLAPS. `PROJECT.json` lists components, runs, mutants, the map from
definitions to source lines, findings, hazards and theorems.

## 1. The system and its parts

| Part | Source (under `src/internal/`, unless it begins with `cmd/`) | Module |
|---|---|---|
| Audit outbox: admission inside the business transaction, capacity, leases, delivery, dead letters | `repositories/audit_outbox.go`, `database/transaction.go`, `services/audit_operations.go` | `AuditOutbox`, `AuditQueue`, `AuditRefinement` |
| Audit archive: export, purge, restore, chain verification | `repositories/audit_archive.go`, `audit/audit.go` | `AuditArchive` |
| Session families, refresh rotation, reuse containment, logout and the operations that end all sessions | `services/auth_service.go`, `services/admin_service.go`, session and refresh-token repositories | `Sessions` |
| Single-use tokens of password reset and e-mail verification | `services/auth_service.go`, `repositories/used_token_repository.go` | `SingleUse` |
| Password sign-in: throttling, CAPTCHA, lockout, administrators' locks | `services/auth_service.go`, `services/admin_service.go`, `repositories/user_repository.go` | `Lockout` |
| TOTP, rotation of the secret, recovery codes | `services/totp_service.go`, `repositories/totp_repository.go` | `SecondFactor` |
| Registration, verification and change of the address, sign-in with Google, first password, erasure | `services/auth_service.go`, `services/oauth_service.go` | `Accounts` |
| Passkey ceremonies and sign counts | `services/passkey_service.go`, `repositories/passkey_repository.go` | `Passkeys` |
| Leader election, clean-up jobs, start and shutdown of replicas | `jobs/leader.go`, `cmd/server/main.go`, `store/store.go` | `Lifecycle` |
| JWT: issuing, verifying, key rotation | `jwt/jwt.go`, `jwt/v1.go` | `Tokens` |
| Routes, middlewares, handlers' checks, identity state, rate and concurrency limits | `routes/`, `middleware/`, `handlers/`, `identity/` | `Gate` (over `Tokens`) |
| Trusted devices, webhooks, password-version cache, adapters, configuration, migrations, crypto, logging | several | not modelled, see section 5 |

How they meet: a request passes the gates of its route; its service then runs inside
`AuditOperation`, one SQL transaction that commits the business change together with its
audit evidence, or neither. Plain reads see the snapshot of the transaction's first read
(InnoDB, REPEATABLE READ); `UPDATE` and `FOR UPDATE` act on the newest committed row and
hold its lock until the end. The store takes no part in the transaction, and mail that was
sent stays sent. Most hazards come from these facts together.

## 2. The modules

The modules of services share one shape. A request is a record with a program counter; its
plain reads are one step (they see one snapshot), each operation on the store is a step,
each writing statement is a step that waits for the rows others hold, and `Commit` applies
the writes. `Abort` (or `Fail`) is any error, deadlock victim, deadline or crash before
that: the rows are rolled back, the store is not. Ghost variables (listed last in each
module) count what the properties speak of and influence nothing. Where the requests of one
behaviour must be bounded, a `scene`, chosen at the start, names the kinds of requests and
their number.

**AuditOutbox.** State: `head` (audit_heads), `lock` (its `FOR UPDATE`), `outbox`, `log`,
the operations and the dispatch workers. `Begin`, `Admit`, `AdmitFull`, `AdmitError`,
`Commit`, `Rollback` and `Abort` are `AuditOperation` and the `Admit` calls in it;
`AdmitAlone` is an admission outside an operation. `Claim`, `ClaimExhausted`,
`DeliverCheck`, `DeliverAck`, `DeliverError`, `FailClaim` and `Crash` are `Dispatch`;
`RequeueDead` is the operator. Leases and due times are compared with the clock of the
replica that claims or delivers: `Tick` moves the slowest one, and every reading of a clock
is ahead of it by some amount of `Skews`, up to `MaxSkew`. A commit or a delivery may
succeed while its caller is told that it failed. Hashes are taken to be injective.

**AuditQueue.** What the outbox promises: one append-only history per tenant, extended by
whole operations within a capacity, and a growing set of delivered events.
`AuditRefinement` maps the outbox to it (the committed rows in sequence order; the log).

**AuditArchive** extends the outbox with `boundary`, the exported archives and the
verifiers. `PurgeArchive` and `RestoreArchive` are atomic, as they run under the head's
lock; `VerifyChain` is its three reads. After a purge a delivered event is no longer in
the log, so `DeliveredIffLogged` is a property of the outbox alone; here `NothingLost`
takes its place.

**Sessions.** One account. A request is loaded with the statements its handler issues, in
order (`Program`), decided from its snapshot. `Ignored` names the statements whose error a
handler discards; a scene says what such an error may cost (`loses`). A lock wait that times
out costs the statement (`Skip`). A deadlock costs the transaction (`Deadlocked`): InnoDB
undoes all that the request has written, its locks are released, and the handler goes on with
a connection in autocommit, where each statement reads and writes what is committed
(`Autocommit`). `torn` remembers the families whose rotation went that way. The check of
`issueTokenPair` and its insert are one step there too, and the token rows of a family are
locked together. `ResetFailedAttempts` writes `updated_at`, so that it changes the row, and a
login sees it as committed from then on; that the time is the very millisecond in the row
already is left out. A sign-in by second factor or passkey writes no users row. In a `flush`
scene the store may lose its keys.

**SingleUse.** A request marks the jti in the store (`markTokenUsed`, or `markTokenLost`
when Redis executes SetNX and the answer is lost), asks the durable table (`IsUsed`, from
its snapshot), inserts there (`markTokenDurable`), applies the effect and commits. Tokens,
store keys and rows expire; the purge job deletes rows; `StoreLost` empties the store and
`flushed` remembers it. `StoreExpire` assumes that a request ends within the hour by which
`jtiStoreTTL` outlives the token. The specification is `TokenSpec`, and its other names are
distinct from those of `Lifecycle`, so that one module can extend both.

**Lockout.** One account and one client address. `Throttle`, `Captcha`, `FindByEmail`,
`Escalate`, `Update`, `Count` and `Commit` are the stages of `loginAudited` with
`recordFailedLogin`; `UpdateFails` is the increment whose error is only logged. `FindByID`
and the same `Update` are `LockUser`, `UnlockUser` and a credential change. The store is
available here (an `IncrBy` that fails in Redis returns 0, which throttles nobody), and the
24 hours of the lockout counter are not over within a behaviour.

**SecondFactor.** One user, time in periods of 30 seconds; the code `<<s, w>>` is what
secret `s` shows in period `w`. The actions follow the six operations of `TOTPService`
through `guardBruteForce`, the rotation lock, the snapshot, the comparison, `replayGuard`
or `MarkRecoveryCodeUsed`, the upsert and the replacement of recovery codes. The rotation
lock is released when the service returns, before its transaction commits, and expires.
`Tick` assumes that a request is not suspended between the comparison and the replay key
for more than a period. A batch of recovery codes has one code. When the replacement of the
codes fails in `VerifyEnable`, the handler writes the row back: within the transaction this is
rolled back with the rest (`Fail`), after a deadlock it is a transaction of its own
(`LoseTransaction`, `Undo`). `Disable` leaves the row with the empty secret, `None`, which a
code can be compared with like any other (`openActiveSecret`).

**Accounts.** Several accounts, addresses and Google accounts. `Count...` are the rate
limits, `Find...` the snapshot reads, `CreateUser`, `CreateGoogleUser`, `LinkIdentity`,
`UpdateEmail`, `SetFirstPassword` and `WriteRow` the writes with the unique keys they wait
for, `SendMail` the notifier, `SendAlert` the second mail of a requested change, to the
account's present address. The alerts that confirmation, erasure and links send afterwards
are under no counter and are left out. A behaviour is within one window of the rate limits and the
store answers: an `IncrBy` that fails in Redis returns 0, which limits nothing. A mailed
token can be presented at any later time. Erasure discards the errors of its clean-up, so
links may stay.

**Passkeys.** One account. `BeginRegistration` and `BeginAuthentication` stage a challenge,
`Sign` is an authenticator (or its copy) answering it, the finishing requests `Take` the
challenge, look at the rows and write. The library's clone warning is `CloneWarning`
(external). `WriteLost` is a write whose error is dropped.

**Lifecycle.** Replicas start, elect, run the job, drain, stop and exit, or crash. `SetNX`,
`RenewIfOwner` and `DeleteIfOwner` are the store's operations on the leader lock; the in-memory
store reads the clock before it takes its mutex, and `stall` is the time in between. The audit
worker flushes while the replica serves, and once more when it is told to stop (`LastFlush`),
after which it is done. `claim` is what a replica may believe of its lock. Time is counted in
job intervals. A deployment says how `RUN_JOBS` is set and which replica is busy.

**Tokens** has no state: claims, audiences, lifetimes, leeway and the drain of a previous key,
as operators over a keyset and a clock. **Gate** drives them. A route is the sequence of its
middlewares and its handler's checks, taken from `routes/routes.go`; each gate is an action, so
that tokens can be ended, grants changed, keys rotated, the store lost and the clock moved
between two gates of a request. A service is reduced to what it does to tokens. Those that end
tokens do it by different writes: a revoked jti (`denied`), closed sessions (`closed`), a
password version (`ver`), the account's state (`active`), some of which may be dropped with
their error. `over` is what the service was asked to end, `Dead` speaks of that, and `Inactive`,
which is `Authority.Check`, of the writes; `RevocationSeen` relates the two. `issueTokenPair`
mints a token with a fresh jti and checks it as the gate does. Suspension, the tenant's flag and
the expiry of the session are left out of `Inactive`: no service changes the first two, and all
three can only refuse more. `verify-email` stands for all purpose tokens that are mailed,
`chat:read` also for `chat:write`. `Rotate` follows `docs/identity-v1.md`: issuers are stopped
and the last issuance of the old key is the true one. The store's denylist is left out of
`CheckState` but for its availability: it can only refuse more. Time of the
rate limiter is counted in refills; the window of the shared counter is `Window` of them, a
second or the burst, whichever is longer (`rate_limit.go`). A visitor may be evicted before its
bucket is full, if entries live for a shorter time than that takes; it then comes back to a full
one, and `granted` is what it was given that way in the present window.

## 3. Runs

| Run | Shows | Bounds |
|---|---|---|
| `outbox_delivery` | each event logged once, exact counter, stale workers fenced, evidence delivered or a dead letter in the end | 2 workers with clocks 1 tick apart, a lease of 1, 2 events, capacity 1, 2 attempts, 1 requeue |
| `outbox_admission` | no hole or fork in the chain, honest replies; `AuditOutbox` implements `AuditQueue` | 2 operations, 3 events, capacity 2 |
| `audit_retention` | purge and restore lose and duplicate nothing; exactly when `VerifyChain` reports a broken chain | 2 events, 3 archives, 1 verifier |
| `sessions` | at most one live token per family (but in `torn` ones), ended families stay ended, also when the store is flushed or a dropped error costs a statement or a transaction | 1 or 2 families, 2 or 3 pairs, 2 requests, seven scenes |
| `single_use` | a token takes effect once while the store keeps its keys, and the durable row protects after a flush | 2 tokens, 3 requests |
| `lockout` | no answered failure is lost; limits overshot by the requests in flight at most; a lock outlasts later sign-ins; locks grow | 2 requests at once, 3 wrong passwords, thresholds of 1 and 2 |
| `second_factor` | codes count once, the active secret was confirmed, one batch of recovery codes, bounded guesses | 2 requests at once, 3 or 4 in all, 5 periods |
| `accounts` | addresses verified by their mailbox, links to proven accounts only, one account per Google account, exact limits on mails and on the alerts sent with them, one first password | 2 requests at once, 5 in all, 2 addresses, 2 accounts, 1 Google account |
| `passkeys` | a challenge completes one ceremony, a copy is noticed and contained, revoked credentials are refused | 2 requests at once, 4 in all, 4 challenges, sign counts to 3 |
| `lifecycle` | claims never overlap, the pool outlives its users, jobs go on, a shutdown ends | 2 replicas, 3 starts, 1 store failure, lock of 2 intervals |
| `gate` | no dead token, foreign tenant, stale grant or unproven elevation reaches a service; rotations end no access token; limiters are exact, early evictions counted | 46 endpoints once; 2 requests, 2 users in 2 tenants, 2 replicas in eight further scenes |
| `sessions_password` | violated: see below | 1 family, 2 pairs |

The bounds let each race happen: two parties at every contended row, key or counter, a
threshold of one or two that two requests can pass together, a chain of three with a
capacity of two, overlapping archives of a chain of two, a rotation of a rotated token, a
lease or lock that expires under its holder and is taken over, a last attempt, a replay key
that expires while its code still verifies (were it shorter), two rotations of the signing
key with a token of each. One tenant is enough for the outbox runs, since no row or lock is
shared between tenants; the proofs cover any number. `SYMMETRY` is used on interchangeable
identities, and not in the two runs with liveness. Deadlock is not checked where behaviours
stop because their bounded requests, ids or starts are used up.

In `sessions`, scenes with dropped errors keep the store and flushing scenes drop none: a
logout whose revocations both failed, or were undone, relies on the denylist alone. The scenes
that lose transactions have no deactivation (`SessionsDeactivate` below).

**Fairness.** `outbox_delivery`: weak fairness of the clock, of each worker's claim, delivery
and failure steps (`durableWorker` loops on every replica, and a statement returns or times
out) and of the end of an operation (its context expires). `lifecycle`: weak fairness of the
clock, of the stages of the shutdown (each has a timeout) and of the runner's loop, and
strong fairness of its seeing the stop, since Go's `select` picks at random among ready
cases. Nothing keeps a worker or a replica from crashing, and nothing is assumed of requests
or of the audit worker during a shutdown.

Every property of a passing run has a mutant, a plausible slip in one mapped definition
under which TLC violates it. Each module has a type invariant; those of the modules other
than `AuditOutbox` were checked with the same configurations (add `INVARIANT TypeOK`,
`ArchiveTypeOK` or `TokenTypeOK`) and are not among the runs.

### Where documents and code differ

`sessions_password` ends in a violation: a sign-in completed by a second factor or a passkey
checks the password version in a snapshot from before a password change and commits its
session after it (quotation under `findings`). A login by password is not affected: its
`ResetFailedAttempts` shows it the new row. The other configurations below are
run by hand, `tlc -config X.cfg MODULE`; each is violated too, and each property carries the
quotation in its comment. `README.md` and `ARCHITECTURE.md` are those of `src/`.

| Configuration (module) | Property | What the code does |
|---|---|---|
| `SessionsTheft` (`MCSessions`) | `TheftEndsAll` | reuse of a refresh token ends its family; `ARCHITECTURE.md:118` and `README.md:14` say all sessions |
| `SessionsEmail` (`MCSessions`) | `EndedStaysEnded` | `confirmChangeEmailAudited` drops the errors of its revocations and mails "All existing sessions were revoked." |
| `SessionsDeadlock` (`MCSessions`) | `OneWins` | a rotation that is a deadlock victim at `Touch` goes on: its `Revoke` is undone and the new token stands beside the old one; `refresh_token_repository.go` says "of two concurrent refreshes of the same token exactly one wins" |
| `SessionsDeactivate` (`MCSessions`) | `EndedStaysEnded` | a deactivation that is a deadlock victim at a revocation whose error it drops loses the account's new state, and ends as a success all the same |
| `SingleUseReplay` (`MCSingleUse`) | `ReplayRejected` | the duplicate-key answer of `MarkUsed` is dropped; it takes a store flush and two overlapping requests |
| `SecondFactorReenrol` (`MCSecondFactor`) | `ReenrolNeverDisables` | an enrolment that read the row before another was confirmed writes it back disabled; `models/totp.go:16` says "re-enrollment never disables MFA" |
| `AccountsErased` (`MCAccounts`) | `ErasedStaysErased` | a change of address, a first password or a link in flight while the account is erased is written on it afterwards; the mail at `auth_service.go:1534` says "permanently erased" |
| `PasskeysCount` (`MCPasskeys`) | `CountOnceAlways` | overlapping logins pass with one sign count; `README.md:454` says "enforces monotonic sign-count clone detection" |
| `LifecycleRunner` (`MCLifecycle`) | `OneRunner` | a tick that outlasts the lock's TTL overlaps with the next leader's; `jobs/leader.go:2` says "exactly ONE replica" |
| `GateRotation` (`MCGate`) | `PreviousVerifies` | the drain covers access tokens; a mailed token that lives longer stops verifying, `README.md:513` says tokens of the previous secret "continue to verify cleanly" |

One more has no run: the comment at `auth_service.go:392` calls the user's row "already
committed" while its transaction is open.

## 4. Proofs

The theorems hold for all values of the constants that satisfy the assumptions of their
modules. These are: finitely many events and requests, positive attempts, leases, caps and
thresholds, a lock TTL longer than a stall, `None` different from what it is the absence of,
and in `SecondFactor` a
replay key that lasts one period longer than the window in which its code verifies
(`ReplayAssumption`; the code's 120 seconds are just that). Each theorem states a property
that a run checks. Where an inductive invariant is needed, its conjuncts were checked with
TLC as well, on the run's instance.

| Module | Theorem | Property |
|---|---|---|
| `AuditOutboxProofs` | `TypeCorrect` | `TypeOK` |
| | `LoggedExactlyOnce` | `DeliveredIffLogged` |
| | `LeasesFence` | `Fenced`, for any `MaxSkew` |
| | `PendingAlwaysCounted` | `PendingCounted` |
| | `ChainAlwaysIntact` | `ChainIntact` |
| | `RepliesHonest` | `HonestReply` |
| | `OutboxImplementsQueue` | `ImplementsQueue` |
| | `RetentionLosesNothing` | `NothingLost` |
| | `VerdictsExplained` | `VerdictExplained` |
| `SessionsProofs` | `OneTokenPerFamily` | `OneLiveToken` |
| | `EndedForGood` | `EndedStaysEnded`, under `Sound` |
| `LockoutProofs` | `NoFailureForgotten` | `AnsweredCounted` |
| | `LocksOutlastSignIns` | `LockHeld` |
| | `LocksEscalate` | `LocksGrow` |
| | `LimitsPassedByLessThanN` | `LimitsHold` |
| `SecondFactorProofs` | `ActiveSecretConfirmed` | `SecretConfirmed` |
| | `CodesOfOneBatch` | `OneBatch` |
| | `FactorsUsedOnce` | `FactorOnce` |
| | `WrongCodesBounded` | `TriesBound` |
| `AccountsProofs` | `VerifiedAddressesProven` | `VerifiedProven` |
| | `LinksProven` | `LinkProven` |
| | `GoogleSameAccount` | `SameAccount` |
| | `FirstPasswordGivenOnce` | `FirstPasswordOnce` |
| | `MailsBounded` | `MailBound` |
| `PasskeysProofs` | `ChallengesCompleteOnce` | `ChallengeOnce` |
| | `CopiesNoticed` | `CopyNoticed` |
| | `RevokedNeverLogsIn` | `RevokedRefused` |
| `GateProofs` | `RevocationsSeen` | `RevocationSeen` |
| | `GrantsHeld` | `GrantHeld` |
| | `TenantsBound` | `TenantBound` |
| | `AccessTokensSurvive` | `AccessSurvives` |
| | `SudoIsProven` | `SudoProven` |
| | `LimitersAreExact` | `LimitersExact` |
| `StoreProofs` (of `SingleUse` and `Lifecycle`) | `NeverAppliedTwice` | `AppliedOnce` |
| | `BackstopAlwaysHolds` | `BackstopHolds` |
| | `LeadsAlone` | `OneLeader` |
| | `PoolClosedLast` | `PoolOutlivesUsers` |

The arguments:

- **Outbox.** `Bound` ties running operations to tenants and workers to events; `Locked` says
  that staged rows belong to the holder of the head's lock; `Leased` that no token is newer
  than the last one minted, that two workers never share one, and that a worker past the check
  of `Deliver` still has the row's. None of it compares clocks: what fences a stale worker is
  the token. Without `Leased` a stale worker's update could not be
  excluded. `Counted` and `Chained` state the counter and the chain twice, for the head that is
  committed and for the `View` of the lock holder, that is, the head it has advanced and the
  rows it has staged; a commit publishes that view and a rollback drops it. `HonestReply` needs
  `Witnessed`: an operation that has staged evidence of a success knows it.
- **Outbox implements queue.** Under the mapping of `AuditRefinement`, a `Commit` that
  has staged rows and an `AdmitAlone` are `Record` steps, `DeliverAck` is a `Deliver` step, and
  all other steps change neither history nor log. A chain lists its rows at their sequences
  (`ListedChain`), so a chain that keeps its rows and grows lists the old history and a
  suffix. `Balanced` says that sequence and counter of a `View` moved alike, which puts
  the suffix within the capacity.
- **Archives.** Boundaries, archives and what a verifier has read are checkpoints on the chain,
  and an archive holds all rows between its two (`Retained`). Rows that `verifyEvents` accepts
  between two such checkpoints are exactly the committed rows between them (`Verifies`), and no
  step of the outbox puts a row there later (`Moves`). The invariant of the outbox is reused:
  retention changes no row, only the log.
- **Sessions.** The program of a request is kept as what is left of it, with the locks it holds
  by then: a rotation past `Revoke` holds the rows of its family and its token is the live one,
  a login mints into a family nobody else can see. A rotation in autocommit holds nothing of the
  kind, which is why `OneLiveToken` is about the families outside `torn`. For `EndedStaysEnded`,
  what each handler has written, or committed on the way, by each point of its program. `Sound` is
  the condition of the scenes with dropped errors (section 3): the store keeps its keys; the
  address is not changed, since that handler has no other statement (`SessionsEmail`); and where a
  transaction can be lost the account is not deactivated, since its new state is lost as well
  (`SessionsDeactivate`).
- **Single-use tokens.** `OnceInv`: until a flush, at most one request is past `markTokenUsed`
  for a token, and an applied token stays marked while a request can present it.
  `BackstopInv`, with flushes: an applied token has its row as long as it is valid, and a request
  that began later sees it.
- **Lockout.** `LockoutInv`: an `UPDATE` in flight is the one its kind of request issues, no
  request goes on after it has read a lock in force, and no level in a row, a snapshot or a
  request is ahead of the store's count of lockouts. `Limited`: a count and the requests that
  were let through and are not counted yet stay within the limit together. `TriesBound` of
  `SecondFactor` has the same argument (`Counted` there).
- **Second factor.** An unused recovery code is not spent and is of the one batch (`Unspent`);
  an accepted code has its replay key, or is too old to be compared (`Remembered`), which is
  where `ReplayAssumption` is used.
- **Accounts.** Whoever may still verify an account (a mail, the request of one who follows
  it, a resend about to mail, an account being inserted whose mail has left) was given the
  address the account had then, and the address has changed only to a proven one since
  (`Addressed`). It rests on `AUTO_INCREMENT`, which uses no ID twice. For the mails, `Budget`:
  in each layer of the limits, the mails sent and the requests that have passed the limits and
  may still send one are together no more than what the layer has counted, nor than its limit.
  A request is counted before it may wait, and leaves the waiting when it mails or ends.
- **Passkeys.** A challenge is in one place: staged, with one request that has taken it, or done;
  a row is written by one request at a time, and a login that overlaps no other one has read the
  count it overwrites.
- **Gate.** `RoutesOrdered`: in the chain of each of the 46 routes the service comes last, the
  account is read only for a bearer that verified, permissions are asked for after that, a
  service that issues sudo tokens knows its caller, and one permit is taken at most. It follows
  from the lists of middlewares the routes are put together from, not from a case for each
  route. `Lawful` then says what every gate behind a request has established, and `Sane` what
  holds of a token from its issuance on: its tenant is its user's, grants only shrink within an
  epoch, and it was signed by a key that verifies it or has expired with its leeway (`Signed`).
  That last part needs the drain of a rotation to cover the lifetime and the skew of access
  tokens. `Void`: each token in `over` is inactive by one of the writes, and stays so.
  `Buckets`: what has passed with what is left is a burst, its refills and what was `granted` at
  most, and a visitor that was idle for as many refills as its bucket holds has it full, so that
  where entries live that long an eviction grants nothing. `Permits`: the free permits and the
  requests that hold one are the capacity.
- **Lifecycle.** `LeaderInv`: a claim that runs is backed by a lock that names its holder and
  lasts at least as long, and a replica that is down has neither claim nor loop. `ShutdownInv`
  says what each stage of the shutdown has waited for.

Only model-checked:

- liveness (`EventuallySettled`, `JobsGoOn`, `ShutdownEnds`), which is beyond the prover;
- the type invariants of the modules other than `AuditOutbox`, beyond what the inductive
  invariants say of types.

## 5. What is left out

- **Trusted devices**: `Issue` and `Validate` have no caller in the server, so no row can
  exist; the two routes are in `Gate`. **Webhooks**: nothing outside the tests enqueues or
  delivers; the route that creates an endpoint is in `Gate`.
- **Password-version cache** (`CurrentPwdVersion`): read only by a branch of
  `AuthMiddleware` that is skipped when an identity authority is wired, as it always is.
- **Buffered audit writer**: taken only without a durable repository, which the server
  always wires.
- **Outbound adapters** (SMTP, CAPTCHA, breached passwords, Google's keys), configuration,
  migrations, crypto, logging, metrics and generated documentation: I/O, start-up or
  formatting without shared state. That an adapter fails is part of its caller's model.
- Row contents, messages, metrics, IP addresses and user agents, except where a counter is
  kept by them.
- Deadlocks in handlers that discard the error and go on are followed into autocommit in
  `Sessions` and in `VerifyEnable`. Elsewhere a dropped error costs its statement alone: the
  clean-up of an erasure (`Accounts`), `WriteLost` (`Passkeys`), `UpdateFails` (`Lockout`), the
  new password version of a removed second factor, and the services of `Gate`, which are one
  step. What `Admit` does on a connection that has lost its transaction is in no module.
- `Sessions`: gap and shared locks, other accounts, legacy tokens without a session,
  `Suspend` (no caller). `SecondFactor`: re-sealing a secret under a newer key.
  `Accounts`: user names, and what erasure does to sessions, factors and audit rows (the
  first two are in `Sessions` and `Passkeys`). `Gate`: bodies, status codes, health and
  documentation endpoints.
- Unlinking Google counts a passkey that another request may be revoking; `Accounts` leaves
  the passkey open and `Passkeys` has no links, so this race is not in any module.
- Signatures are never forged, and audit keys never change.
