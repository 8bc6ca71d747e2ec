# Verification of PUTZPLAN

TLA+ specifications of PUTZPLAN (FastAPI, PostgreSQL, Redis, React), checked
with TLC and, where the table of theorems says so, proved with TLAPS. They are
translated from the Python, the SQL functions and triggers, and the
migrations, at the granularity at which PostgreSQL lets transactions
interleave. Every definition names its source lines in `PROJECT.json`.

Abbreviations: *schema* is `infrastructure/db/migrations/01_schema.sql`,
*0003* and *0004* are the Alembic revisions that replaced the session
functions.

## 1. The system

| Component | State | Operations | Talks to |
|---|---|---|---|
| Sessions and refresh rotation (`services/auth_service.py`, `repositories/auth_repo.py`, 0003, 0004) | table `sessions`: token hash, family, parent, successor, revocation time and reason, expiry | `login`, `refresh` (`auth_rotate_session`), `auth_verify_request`, `logout`, `logout_all`, revocation by an administrator | users (status), audit log, tenant context |
| Audit log (schema, `repositories/audit_repo.py`, `services/audit_service.py`) | `audit_logs` (partitioned by month), `audit_chain_state` per company | append through trigger `audit_hash_chain`, `audit_verify_chain`, `audit_chain_status`, detaching of expired months | written by every service in a transaction of its own, on a pool of its own |
| Users (`services/user_service.py`, `repositories/user_repo.py`) | `users`: role, status | `create_user`, `update_user`, `deactivate_user`, `revoke_session` | sessions (a second transaction), roles, audit log |
| Roles (`services/role_service.py`, `repositories/role_repo.py`) | `roles`, `role_permissions`, `user_permissions` | `create_role`, `set_permissions`, `update_role` | authorization of every request (`api/deps.py`) |
| Login guard (`auth_service.login`, `security/rate_limit.py`) | hits per address and login (process memory or Redis), `users.failed_attempts`, `locked_until`, `login_attempts` | `check_and_count`, `register_failure`, `register_success`, `record_attempt` | Redis; shares the transaction of the login |
| Database sessions (`db/session.py`) | two connection pools, the transaction-local `app.company_id` | `tenant_session`, `system_session`, `audit_session` | row level security of every table |
| Partitions (schema 1048-1168) | the partitions of four tables, `partitioned_tables` | `ensure_partitions`, `create_month_partition`, `detach_expired_partitions`, the DEFAULT partition | audit log |
| Browser client (`frontend/src/api/client.ts`, `shared/auth.tsx`) | per tab the access token, the user and the spinner; the cookies all tabs share | request, retry after 401, bootstrap, login, logout | HTTP interface, cookies |
| HTTP interface (`api/v1`, `main.py`) | none but cookies | one handler per endpoint | services |
| Tokens, passwords, CSRF (`security/`) | none | JWT, Argon2, double submit | libraries |
| Logging, metrics, health | counters | - | - |
| Pages, business tables without code, migrations and grants, build and CI | - | - | - |

### How they interact

A request is authorized first: `get_actor` (`api/deps.py`) verifies the
session and loads the permissions in one transaction. The service then opens
another transaction for the work, and a third, on another pool, for the audit
entry. The three commit separately. A login is different: its audit entry is written
before its transaction ends when it is refused, so that it holds a connection of
each pool, and the refusal rolls back what the transaction had counted. The
browser talks to `login`, `refresh` and `logout` through two cookies and to all
else with the access token of the tab. Everything runs at READ COMMITTED; what
orders two requests is the row locks of `UPDATE` and `SELECT ... FOR UPDATE`,
the advisory lock of the audit trigger, and unique keys.

### What is hard about it

- **Interleaving.** Several tabs refresh with one token at the same time; a
  revocation meets a rotation; two administrators act on the same rows. Each
  statement has a snapshot of its own, and rows inserted behind it are not
  seen even when the statement waits for a lock afterwards.
- **Atomicity and failure.** A transaction can be rolled back at any point
  (`statement_timeout`, deadlock detector, lost connection, crash). The work,
  the revocation of sessions and the audit entry are different transactions.
- **Stale reads.** The actor's role and permissions, the row a service has
  read, and the count of owners are all older than the write that relies on
  them.
- **Time.** The grace window of a rotation is measured between the *starts* of
  two transactions, one of which waited for the other; the partition of an
  audit row is fixed by the start of its transaction, its number by the lock.
- **The network.** Answers come late, in another order, or never; each request of
  a tab that is answered 401 refreshes on its own; the CSRF token is read before
  the browser attaches the cookies it must match.
- **Limits.** Attempts are counted per address and per login, in memory or with
  an `INCR` and an `EXPIRE` that are two calls; two pools bound who can go on.
- **Progress.** Bulk revocations lock several rows in no fixed order; every
  writer of the audit log of a company queues on one lock.

### What makes each component correct

- *Sessions:* of parallel refreshes one wins; a family of tokens never has two
  usable sessions; ended sessions are never written again; a client that
  merely lost a race is not treated as a thief; rows of a rotation name each
  other; each request ends.
- *Audit log:* per company one chain without fork, gap or double, whatever
  happens to the writers; verification reports what is wrong and nothing else.
- *Users:* the last active owner stays; a deactivated user stays deactivated;
  only an owner appoints an owner.
- *Roles:* a `PUT` replaces the set of permissions, leaves nothing of what the
  role had before, and gives only what its actor may give.
- *Login guard:* of the attempts counted in a window no more have their passwords
  compared than the limiter promises, whatever overlaps or fails; five failures lock the account; logins
  never all wait for one another.
- *Browser client:* the cookie is the usable token of its family; a browser that
  gets its answers is not taken for a thief; a login stays; a logout ends the
  session; the spinner goes away; a refresh that lost a race costs nothing.
- *Pools and tenant context:* no circular wait between the pools; a
  connection never carries the company of the request before.
- *Partitions:* every row is in exactly one partition.

## 2. Modules

| Module | What it is |
|---|---|
| `TokenFamily` | the contract of a refresh-token family, with no database in it |
| `SessionStore` | the table `sessions` and every request that writes it; implements `TokenFamily` |
| `SessionStoreProofs` | its theorems |
| `AuditLedger` | the contract of the audit log: entries per company that only become more, a transaction at a time |
| `AuditChain` | the log, its trigger, its transactions, retention, verification; implements `AuditLedger` |
| `AuditChainProofs` | its theorems |
| `UserAdmin` | the users of a company and the three requests that change them |
| `UserAdminProofs` | its theorems |
| `RoleAdmin` | roles and their permissions |
| `RoleAdminProofs` | its theorems |
| `RateLimit` | the limiter of login attempts over its two stores |
| `LoginGuard` | a login from the limiter to the answer, with the two pools; extends `RateLimit` |
| `LoginGuardProofs` | theorems about both |
| `Browser` | tabs, cookies and calls against the cookie endpoints; the tokens of the server are a `TokenFamily` |
| `BrowserProofs` | its theorems |
| `MC...` | instances for TLC: symmetry sets, the values of function constants |

`Browser` and `SessionStore` meet in `TokenFamily`: the table implements it, and the
browser runs against it. What is shown of the browser therefore holds with the
table behind it as far as the tokens go; the verdict on a token that is not
usable (race or reuse) is stated in `Browser` by the set `recent`, which is the
grace of `SessionStore` without a clock.

A definition `XMutated` (marked "Mutant:") that stands beside a definition `X`
is never used by the specification. It is `X` with a plausible mistake;
`PROJECT.json` lists which property catches it.

### SessionStore

`sessions` holds committed rows only. `lock[s]` is the request whose
transaction holds the row, `tx[r]` where request `r` stands. The steps of a
request are the pieces between two points where PostgreSQL lets others act:

| Code | Actions |
|---|---|
| `login` after the password check | `LoginCheck` (status as read), `LoginCommit` |
| `auth_rotate_session` (0004:40-116) | `RefreshBegin` (start of the transaction, wait for the row), then one verdict: `RefreshRefuse` (race, expired, inactive_user), `RefreshReuse`, `RefreshAccept`; `RefreshCommit` |
| `UPDATE ... WHERE scope AND revoked_at IS NULL` of every revocation | `LogoutBegin`, `RevokeSessionBegin`, `LogoutAllBegin`, `DeactivateBegin`; then `RevokeSnapshot` (rows to visit), `RevokeLock` (one row at a time), `RevokeCommit` (re-checks each row) |
| rollback for any reason | `Abort` |

`deactivate_user` commits the status first, in `DeactivateBegin`; the
revocation of the sessions is a second transaction that may not come about.
A session stands for its token, too (the hash is unique). There is one clock:
`start` is SQL `now()`, and the expiry a login writes, which the application
computes from its own clock (auth_service.py:84), is taken from the same one. The
order of expiry in `RotationChain` rests on that.

### AuditChain

An `INSERT` draws the identity first (`Insert`), then the trigger takes the
advisory lock and reads the head (`FirstRow`, `FurtherRow` once the lock is
held). `written` and `head` are the uncommitted rows and state of a
transaction; `Commit` publishes both, `Abort` drops both but not the drawn
identity. `DetachExpired` moves expired months to `detached`, and waits for
transactions that have inserted. `Problems` and `Consistent` are
`audit_verify_chain` and `audit_chain_status`. SHA-256 is taken to be
injective: a digest is the tuple it was computed from. `Content` is what
`||` joins, not the columns: two rows whose columns join to one text have
one digest in the code and in the model.

`Entries` maps the log to the ledger: the committed rows of a company, those in
detached partitions included, because a detached partition is kept and never
changed. `Commit` is the one step of the ledger, with all rows of a transaction;
locking, inserting, rollback, the calendar and retention are stutters. The ledger
asks for fresh identities, too: `GENERATED ALWAYS AS IDENTITY` draws one per row, and
it is used by nobody else also when the row is rolled back.

### UserAdmin

`Authorize` is `get_actor` and `require` and fixes the role the service will
use; `GetUser` reads the target, `CountOwners` counts, `Write` updates and
commits. `Refused` gathers the refusals that depend on the row. The history
variable `overlapped` becomes true when two requests have been running at the
same time: two of the properties hold only while it is false, and
`last_owner` shows why. A role is its key, as the code compares it. The role `deputy` stands for a custom role to which an
owner has given everything he may give.

### RoleAdmin

`rows` are the committed rows of `role_permissions`; `deleted` and `inserted`
the uncommitted ones of each request. `DeleteSnapshot` and `DeleteRows` are the
two halves of the `DELETE`; `InsertRows` waits for keys others are writing and
needs them free afterwards (primary key). A row carries the transaction that
wrote it, because a deleted and re-inserted key is another row for a waiting
`DELETE`, and the user who gave it. Two histories are kept in the request:
`beside`, the roles replaced by requests that ran beside it, and `old`, the rows
its role had when it began.

`OwnerKeyed` are custom roles that carry the key of the owner's role: the keys of
system and of company roles are unique apart (schema 80-81), and the code
compares only the key. Who has one counts as an owner when he gives, but has only
the permissions of the role.

### RateLimit and LoginGuard

`hits[k]` are the attempts a store counts under key `k`: with their times in
memory, as the value of a counter with an expiry `until[k]` in Redis. `Count` is
`check_and_count` or `INCR`, `SetExpiry` is `EXPIRE`, a step of its own that may
not come about. A refused attempt counts, too.

| Code (`auth_service.login`) | Actions |
|---|---|
| the loop over `ip:` and `login:` (36-40) | `CountIp`, `CountLogin`, `ExpireKey` |
| `find_user_by_login`, unknown or locked (42-56) | `Refuse` |
| status, `verify_password` (58-69) | `Judge` |
| `auth_register_failure` (schema 1391) | `RegisterFailure`: the row stays locked and uncommitted |
| `create_session`, `register_success`, commit | `RegisterSuccess` |
| `audit_service.record` | `TakeAuditConnection`, `Answer`, with which a refused login is rolled back |
| an error anywhere, a crash | `Fail` |

`UsesRuntime` and `HoldsRow` say which attempt has which connection and row. Whether
the user exists, is active and knows the password is decided by nobody here: each
attempt may find either.

### Browser

A `Call` is one use of the API with all it takes: the request (`stage` "first"), a
refresh after a 401, and the request again; `pc` says whether the script has it
("script" is between reading `document.cookie` and the moment the browser attaches
the cookies), the network, or the answer. `jar` is the refresh cookie, and stands
for the CSRF cookie that is set and deleted with it. `head`, `used`, `family` and `recent`
are the server.

| Code | Actions |
|---|---|
| `AuthProvider`, `login`, `logout` (`auth.tsx`) | `OpenTab`, `Login`, `Logout`, and their part of `Succeed` and `Fail` |
| `request`, `tryRefresh` (`client.ts`) | `Page`, `Attach`, `Unauthorized`, `Refreshed`, `RefreshFailed`, `Succeed`, `Fail` |
| `api/v1/auth.py`, `csrf.py`, `deps.get_actor` | `ServeRefresh`, `ServeLogin`, `ServeLogout`, `ServeRest`, and any error of them |
| an answer that does not arrive | `Lose`; `LoseBody`, when its head has set the cookies and its body is lost (client.ts:77-81) |
| the grace, other devices, administrators, expiry | `GraceEnds`, `EndElsewhere` |

`GraceEnds` waits for what is under way with the token: the comment at
`refresh_grace_seconds` says the value is chosen by the delays of the network, and
that is taken as an assumption. `lost` and `overlapped` are histories that state when
a property is promised. Closing or reloading a tab is, for the server, a lost answer.

## 3. Runs

| Run | Instance | Shows |
|---|---|---|
| `sessions` | 1 user, 3 sessions, 2 requests, grace 1, lifetime 1, clock 0..1 | parallel refreshes and revocations leave the table consistent at every commit; a deactivated user stays out; tokens expire; where nothing moves there is a circle of locks (`StandstillIsACircle`); the inductive invariant, and the table implements `TokenFamily` |
| `session_progress` | 1 user, 2 sessions, 2 requests, no clock | requests end although two can lock two rows in opposite orders |
| `all_means_all` | 1 user, 3 sessions, 2 requests | *violation*: the answers "all sessions are revoked" to a reuse and to logout-all |
| `audit_chain` | 2 companies, 2 writers, 3 identities, 3 months, retention 1 | the chain, the verification, the queue on the lock (`HoldersNeverWait`), the inductive invariant, that the log implements `AuditLedger`, and that writers end |
| `audit_no_false_alarm` | 1 company, 2 writers, 3 identities | *violation*: verification after the first detached month |
| `role_puts` | 2 users, 2 roles, 3 permissions, 2 requests, 2 transactions | the permissions of a role under concurrent `PUT`s |
| `users` | 3 users, 2 requests | the owner and the deactivated user |
| `last_owner` | 2 users, 2 requests | *violation*: two requests dismiss two owners |
| `login` | 4 attempts, 1 address, 1 login, limit 2, window 2, clock 0..2, pools of 2 and 1 | the bound on guesses, no circular wait, the inductive invariant |
| `account_locks` | 3 attempts, limit 3, 2 failures lock | *violation*: wrong passwords never lock an account |
| `browser` | 1 tab, 4 calls, 3 tokens | the cookie, the reuse verdict, login, logout, the spinner and what it waits for (`SpinnerHasCause`), the inductive invariant |
| `race_loser` | 1 tab, 3 calls, 3 tokens | *violation*: a lost race logs out the tab whose other request won it |

### Bounds, and why they are enough

Two requests are what each of these hazards needs: one that has read, one that
commits in between. A third one adds nothing to the safety properties that the
theorems do not cover for any number of them. Three sessions are the shortest
history in which a rotation, a rotation of its successor, and a login beside
them occur; two are enough for opposite lock orders. The clock crosses the
grace window once (`Grace = 1`, `MaxTime = 1`), and tokens live one tick, so that
requests begin before and after they expire. Three audit identities give a company
a transaction of two rows and another one, and three months with a retention of one let the
first expire while a transaction of the second is open. Two users are the smallest
company with two owners to dismiss; a third is needed for somebody who is not an
owner to make an owner of another. Of the permissions one is reserved for
owners, one is denied to the manager individually, one is neither. No role
carries the owner's key in this run; the same properties were found to hold with a third
role that does and a user who has it, and are proved for any set of such roles.

Four attempts against a limit of two are what a counter of Redis needs to let three
through in one window, the most it may (2 * 2 - 1), and with a clock of two
ticks the key expires in between; a runtime pool of two and an audit pool of one
let two refused logins want the one audit connection. Four calls are a start that
finds an old cookie, a login or two page requests that race, and a logout. One tab
is enough for the race, because two calls of one tab share no more than the cookies and one
memory; the same invariants were found to hold for two tabs with four calls, and are
proved for any number.

`MaxTime`, `MaxId`, `MaxMonth`, `MaxTx` and the sets `Session`, `Request` (of
`LoginGuard`) and `Call` bound the clock, the identities, the calendar, the
transactions, the rows, the attempts and the calls; each appears as a
guard of the action that would exceed it. No property depends on a bound being
reached. Symmetry is used for sessions, requests, users, companies and writers in
runs without liveness properties; no definition distinguishes their elements.

Deadlock is checked except in `role_puts`, `login`, `account_locks`, `browser` and
`race_loser`, where the numbers of transactions, the attempts and the calls run out,
and `users`, where a company without an active user sends no more requests.

### Fairness

`FairSpec` of `SessionStore` has strong fairness for the step of each request:
PostgreSQL grants a row lock in the order of the queue, so a request that waits
for a row gets it although others keep taking it. It has weak fairness for
`DeadlockVictim`: the deadlock detector runs after `deadlock_timeout` and ends
one transaction of a circle of waiting ones. No request has to arrive, none has to
abort otherwise, and the clock need not advance.
`FairSpec` of `AuditChain` has strong fairness for `Write`: the advisory lock
is granted in turn, a statement of the audit role ends within its
`statement_timeout` of 10 s (00_platform_bootstrap.sql:61), and the body of
`async with` proceeds to its commit or its rollback. The last is what a live process
does: for this role no idle timeout is set that would end a transaction nobody
goes on with.
`FairSpec` of `Browser` has weak fairness for the step of each call: a request is
answered or `fetch` throws, and the script goes on. Nobody has to click, and nothing has to be lost.

### What the violations say

- **Reuse and rotation.** `auth_rotate_session` revokes the family with one
  `UPDATE`. A rotation of the live session that is uncommitted when the
  `UPDATE` takes its snapshot makes it wait, find the old row already rotated,
  and never see the successor. The answer and the audit entry say the family
  is revoked; the successor lives.
  The same in `auth_revoke_user_sessions`, for logout-all.
- **Verification and retention.** `audit_verify_chain` starts from number 1.
  Once a month is detached the first remaining row is reported every day.
- **Two owners.** Nothing locks what `count_active_owners` has counted.
- **The lock of an account.** `register_failure` counts in the transaction that
  `raise Unauthorized` rolls back. The next attempt finds 0 failures again; no
  account is ever locked. The limiter bounds the guesses counted in a window all
  the same (`GuessesLimited`).
- **The loser of a race.** The server spares the family so that "the winner keeps
  its access". In the browser winner and loser are two requests of one tab:
  the 409 makes `tryRefresh` return false and `onUnauthorized` clears the token the
  winner has just stored. With one refresh at a time the property holds.

### Other divergences, not given a run

- `logout` revokes the row of the presented token. If a refresh rotated it
  meanwhile, no row is live under that token, and the answer is still "logged
  out".
- A detached month is not always a contiguous piece of the chain: a
  transaction that began before midnight may take its number after one that
  began later. All rows together remain a chain (`ChainUnbroken`).
- Two overlapping `PUT`s for one role that share no key leave the union of
  both sets; `PutReplaces` is therefore stated for a `PUT` that no other of
  the same role overlapped.
- `rate_limit.py` calls the counter of Redis "an atomic INCR with TTL". `EXPIRE` is a
  call of its own; when it fails the key has no TTL, and once it has passed the
  limit the login is refused until somebody deletes it.
- A window may see up to `2 * login_rate_limit - 1` attempts let through with Redis,
  `login_rate_limit` with the memory of the process; a refused attempt prolongs
  the refusal in memory and not in Redis.
- The limiter counts before a login waits for a connection of the pool
  (auth_service.py:36-40), and the password is compared afterwards (:69). Attempts counted
  in two windows may therefore be compared together: `GuessesLimited` speaks of the
  window in which they are counted.
- `CHANGELOG.md:69` says that permissions are cached for 60 seconds. No such cache is in
  the code: `get_actor` loads them for every request.
- `login_attempts` keeps successes only: the rows of refused attempts are rolled
  back like the counter. The audit entry `ACCOUNT_LOCKED` is of another
  transaction and would stay, though the lock would not.
- A wrong password is sent twice when the browser holds a usable refresh cookie:
  `request` answers every 401 with a refresh and a second try, `/auth/login` included.
- A login over cookies of another session leaves that session's family open.
- An actor whose own role is changed while his request runs still gives what
  he had; `GiversHave` and `AppointedByOwner` exclude that overlap.

## 4. Theorems

All hold for arbitrary constants that satisfy the named assumptions
(`Distinct`: the "none" values are not elements; `Durations`, `Bounds`:
numbers are natural; `FiniteUsers`; `Limits`, `Keys`, `Pools`, `Locks`, `FiniteRequests`:
the limits and pools are not empty, the keys are the addresses and the logins;
`NoneIsNone`; `Catalogue`, `Users`, `Individual`:
the constants of `RoleAdmin` are of their kinds).

**SessionStore.** `Invariance` proves the inductive invariant `IInv`. The
property that carries the others is `OneEndPerFamily`: of the rows of a family all
but one are rotated. By itself it is not inductive: a rotation in progress
must still hold its row and the row must still be live
(`RotationsHoldTheirRow`), else the insert of the successor would open a second end;
a reuse verdict must rest on a row that is revoked; a family must be named by an
issued session, else a login could join one. `RotationChain` needs
`ExpiryBounded`, for a successor must not expire before its parent. The proof
treats rows first (`RowCases`: what a step can do to one row) and requests
second (`RequestCases`), and then each conjunct over those cases. Corollaries:
`TypeCorrectness`, `AtMostOneLiveSession`, `RevocationEndsTheFamily`,
`ChainsAreConsistent`, `RevocationIsFinal`, `RacesAreForgiven`
(`NoReuseVerdictWithinGrace`, from `ReuseHasEvidence`: the token the request presented
was revoked otherwise, or rotated a grace before the request began; neither
changes until the verdict is carried out), `DeactivationShutsOut`
(`DeactivatedStayOut`, whether or not the second transaction of a deactivation ever
runs), `StandstillsAreDetected` and `Refinement`: every behaviour of the table is one of `TokenFamily`.
`StandstillsAreDetected` (`StandstillIsACircle`) is the safety half of `RequestsEnd`: a
set of blocked requests that wait for nobody outside it fulfils the condition of
`DeadlockVictim`. It needs `LocksAreHeld`: a lock belongs to a request that is under way, and
no request wants a row it has locked itself.

**AuditChain.** `IInv` says, beside the committed chain being a chain that
ends at the head (`ChainUnbroken`), that the uncommitted rows of whoever holds the
lock continue it (`PendingChains`), and that holding the lock is having
written (`LocksAgree`). `ChainExtends` is the lemma on what the trigger does
to one chain. From it: `ChainsNeverBreak`, `LogOnlyGrowsAtItsEnd`, and
`VerificationFindsNothing`, which needs the number of rows of a chain
(`ChainCounts`, with the theorems on finite sets). `IdentitiesUnique`, the other part
of `IInv`, says that the identity drawn for a row that waits for the lock is neither in
the table nor drawn by another; `Refinement` (`ImplementsLedger`) needs it beside the
chain: `CommitExtends` shows that the rows a commit publishes have the numbers that follow
those of the company, and identities of their own. `QueuesMove` (`HoldersNeverWait`) is the safety
half of `WritersEnd`: the lock is held by a transaction that has written a row, and
a transaction writes for one company only.

`LastHashFixesLog` says what the hashes are for, and is not a property of a run,
since it quantifies over every set of rows: whatever is a chain that
ends in the hash of `audit_chain_state`, such as an archive compared by it, has the
joined texts of the log at the same numbers and nothing else. Its lemma
`HashFixesChain` goes down two chains of equal last hash, in the form of a
largest number at which they differ (`LargestMember`, from the well-foundedness of the naturals).
It is as strong as the digest is: the joined text is fixed, not the columns it was joined from.

**UserAdmin.** `Invariance` proves `IInv`; `LastOwnerIsSafe` and `OwnersAppointOwners` rest on
`Sequential`: while requests have not overlapped, what the running one has
read still holds (`ReadsAreFresh`), in particular that two owners are active
when one is about to be dismissed. `DeactivationIsFinal` holds without that
restriction.

**RoleAdmin.** `IInv` is about the uncommitted rows: two requests never delete
one row nor insert one key, and a key inserted is free once the request's own
deletions are made (`WritesApart`); without it the commit of one could double
a key of the other. From it follows `NoDuplicateRows` (`OneRowPerKey`).
`OldRowsAreGone` (`NothingOldRemains`) needs `OldAreDeleted`: an old row that is still
there is in the snapshot of the `DELETE` and, after it, among its deletions; the
other request that might have deleted it first was waited for. `NumbersApart`
keeps rows inserted meanwhile from being taken for old ones. `AloneDeletesAll` and `ActorsHave`
carry what a request knew when it began across its steps, as long as no other
request replaces the role concerned: `PutsReplace` (`PutReplaces`) and
`ActorsGiveWhatTheyHave` (`GiversHave`). `DelegationIsOwned` proves
`OnlyOwnersDelegate`.

**RateLimit and LoginGuard.** `LimiterPromise` proves of the limiter alone that in
every window at most `Bound` attempts of a key are let through. For the memory it
needs `RecentAreKept`: whoever was let through within the window is still
counted. For Redis it needs `Counters`: a counter lasts at least a window from its first
attempt, so that of the attempts an earlier counter let through the first is out of
every window the present one begins in, and at most `Limit - 1` of them share one with it. `Invariance` adds `PassedBefore`, how far an attempt gets
without having been let through, from which `GuessesAreLimited` follows; the
cardinalities are by the theorems on finite sets. `NoCircularWait` looks for
somebody who can move: the holder of the audit connection; else one that
waits for it, which is free; else one that holds a runtime connection; else anybody.

**Browser.** The invariant has two groups of parts. The first is about
tokens: tokens are where their family
says (`TokensKnown`); a token that is on its way is nowhere else (`Undelivered`); the
cookie is the usable token, or what replaces it is on its way (`CookieIsCurrent`); what
the browser holds or has presented was rotated within the grace (`RotatedLately`), without which
a second refresh with the same cookie could be judged a reuse. Four kinds of
step are treated, each by a lemma: calls that move on while families may be
closed (`MovesKeepTokens`), an answer that is used (`DeliveryKeepsTokens`), a token
that is issued (`IssueKeepsTokens`), a grace that ends (`GraceKeepsTokens`). From
`Invariance` follow `CookieStaysCurrent` and `NeverAThief`, for any number of tabs.

The second group is about the script. A call is of an open tab, and a login of one whose start
is over (`CallsOfTabs`); what an answer carries fits what was asked (`AnswersFit`).
`LoginHolds` strengthens `LoginSticks` to the calls that are still on their way: between
the answer to `/auth/login` and that to `/me` the tab has its token, and only the
start of the tab could take it away, which is over; `LoginsStick` follows.
`OneAtATime` says what a logout knows while calls do not overlap: the cookie it presents
is the one of the browser, and once it is confirmed the family of that cookie is
closed. With `CookieIsCurrent` this gives `LogoutsEnd` (`LogoutEnds`): a cookie whose
family went on would need another call on its way. `SpinnersHaveACause` (`SpinnerHasCause`), the safety
half of `SpinnerEnds`, is inductive with `CallsOfTabs`: a step that ends a call other
than a page's turns the spinner of its tab off (`EndsTurnItOff`).

Only model-checked: progress (`RequestsEnd`, `WritersEnd`, `SpinnerEnds`), as liveness
is out of the prover's reach; what must hold in each state for it is proved
(`StandstillIsACircle`, `HoldersNeverWait`, `SpinnerHasCause`). The
violations are counterexamples TLC finds.

## 5. What is not modelled, and why

- `update_role` (a name and a description), the catalogue of permissions and
  the five system roles: no step of another request depends on them, beyond what
  `Grants` and `OwnerOnly` say.
- Requests with tokens no row has, and `auth_revoke_family`, which has no caller.
- The tenant context of row level security: set with `set_config(..., true)` in every
  transaction, it ends with it by a rule of PostgreSQL, not by one of this code.
- `ensure_partitions` and the DEFAULT partition: maintenance that a scheduler outside
  the repository runs, on state no request reads.
- Logout-all and several users in one browser: no page calls the first, and the second
  would add identities to each token without another interleaving. The double mount
  of React's StrictMode exists in development only.
- Users are found and passwords compared by chance in `LoginGuard`, because what they
  are is decided in `UserAdmin`.
- Cryptography, formatting, logging, metrics, health checks, rendering: no state
  another component reads.
- The tables without code, migrations, seeds, grants, CI: their result is the
  initial state.

## 6. Plan

1. `Partitions`: `ensure_partitions` against a DEFAULT partition that has rows, and
   `detach_expired_partitions` beside inserts.
2. The abstract `recent` of `Browser` tied to the clock of `SessionStore` by a refinement
   of its own.
