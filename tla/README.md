# A verification of clinks

clinks is a multi-tenant administration server (Go, PostgreSQL, Connect-RPC)
with a mail worker and browser clients.  This directory holds TLA+ models of
its core, TLC configurations that check them on small instances, and TLAPS
proofs that hold for every instance.  Every definition is translated from the
code under `src/`; `PROJECT.json` maps it to the lines it stands for.

## 1. Inventory of the system

| Component | State | Operations | Hard because |
|---|---|---|---|
| Invitation outbox and worker (`server/worker.go`, `postgres/outbox.go`, `mail/smtp.go`) | `outbox_jobs` (status, attempts, lease, `available_at`, `locked_at`), the delivery columns of `invitations` | claim, send, complete, retry, dead-letter, anonymize | several workers, crashes, leases of ten minutes, lost SMTP replies, races with revocation and retention |
| Invitation lifecycle (`auth_invitation.go`, `auth_external.go`, `postgres/invitations.go`, `invitation_administration.go`) | `invitations` | create, find, accept (password or Google), revoke | the user is looked up before the transaction that accepts; acceptance, revocation, expiry and cleanup race |
| Tenant memberships (`postgres/memberships.go`, `tenant_access.go`) | `tenant_memberships` (status, role, revision) | update, join or come back by invitation | READ COMMITTED and row locks, opposite lock orders, optimistic revisions, the last administrator |
| Roles and permissions (`postgres/roles.go`) | `tenant_roles`, `tenant_role_permissions` | create, update, delete | a permission is checked in an earlier transaction than the change |
| Tenants (`postgres/tenants.go`, `tenant_provisioner.go`) | `tenants` | create, update, provision with owner | optimistic revision |
| Sessions (`auth.go`, `auth_credentials.go`, `postgres/users.go`, `auth/jwt.go`, `web/session_interceptor.go`) | `users.session_version`, signed tokens in cookies | login, authenticate, switch tenant, logout | tokens issued from values read earlier; invalidation of requests in flight |
| External identities, Google OIDC (`web/oidc.go`, `auth/google_oidc.go`, `postgres/external_identities.go`) | `external_identities`; in cookies, the sealed attempt and the fresh password verification | start, callback, link | tabs share the cookies; answers are late or lost; an attempt and a verification expire |
| Rate limiter (`web/rate_limit.go`) | attempts per key, in memory | allow, reset, cleanup | the clock is read before the mutex; window boundaries; overlapping logins |
| Keyset pagination (`pagination.go`, `postgres/cursor.go`, the `List...` queries) | the cursor in the client's hands | list pages | inserts between two pages, cursor validity |
| Localization (`postgres/localization.go`, `localization/`, `translations.go`) | `languages`, `translation_overrides`, the embedded catalog | save and delete, bundle, message | a text is found in two transactions, either may fail; revisions of rows that come and go |
| Migrations (`postgres/migrations.go`, `postgres/users.go`, `cmd/server/composition.go`) | `schema_migrations`, the advisory lock, the first account | migrate, bootstrap of the administrator | several commands of different builds at once, lost connections, a COMMIT that outlives its client |
| Connection pool (`postgres/pool.go`) | connections | tenant and system transactions | every transaction runs through it |
| Audit log, statistics (`postgres/audit.go`, `stats.go`) | `audit_events` | append, list | is written by the transactions above |
| Browser clients (`packages/`) | session store, list view models | load, switch, search | what the last answer said; gone with the page |
| HTTP boundary, mapping, configuration, generated code, UI | none | translate messages | stateless |

How they interact: browsers call the API server through Connect-RPC; every
call authenticates its cookie against `users.session_version` and reloads
memberships and permissions.  API servers and workers share nothing but
PostgreSQL: an invitation and its outbox job are inserted in one transaction,
a worker polls for the job, mails the link and records the outcome on both
rows; the invitee's acceptance turns the invitation into a membership and
raises the session version, as does every change of a membership.

What makes each component correct:

* Outbox: each mail is handed over at least once until it is settled, one way
  and for good; duplicates occur only where the protocol cannot avoid them;
  job, invitation and audit log agree; every mail is settled in the end.
* Memberships: a tenant keeps an active administrator; no update is lost;
  concurrent transactions act as if atomic; every request ends.
* Invitations: one acceptance, one membership; not both accepted and revoked.
* Sessions: no token outlives its invalidation; access needs an active membership.
* Rate limiter: never more than the limit in any window, and a refused client is
  told the truth about when to come back.
* Roles: none in use is deleted; a tenant never locks itself out; a change rests
  on a permission that was held.
* Pagination: a row that stays is listed exactly once; a cursor continues its list.
* Migrations: each is applied once, on top of what it was written against, by
  whoever comes first; success means a complete schema and an administrator.
* Localization: every text answered has its cause; no save is lost.
* Sign-in: an answer from Google does what its tab asked; a link is gone on
  with only soon after who asked for it entered the password.

`PROJECT.json` lists under "hazards" what is hard to test, line by line, and
which property covers it.

## 2. Modules

| Module | Models |
|---|---|
| `InvitationDelivery` | abstract: at-least-once delivery, settled for good |
| `Outbox` | the outbox, the workers, and the transactions of the API server on the same rows |
| `OutboxProofs` | theorems about `Outbox` |
| `MembershipRegistry` | abstract: atomic changes of memberships and roles that keep an administrator and every member's role |
| `Memberships` | membership updates, acceptances and deletions of roles, statement by statement |
| `MembershipsProofs` | theorems about `Memberships` |
| `ActiveSessions` | abstract: in which tenants the user has a session that is honoured |
| `Sessions` | session versions, tokens, and the requests that read one and issue the other |
| `SessionsProofs` | theorems about `Sessions` |
| `InvitationAcceptance` | acceptances of the invitations of one address, while its account comes into being |
| `AcceptanceProofs` | theorems about `InvitationAcceptance` |
| `Roles` | roles, and the permission check of the requests that change roles, memberships and invitations |
| `RolesProofs` | theorems about `Roles` |
| `ManagedLists` | keyset pagination of the eight managed lists, while rows come, go and move |
| `RateLimiter` | the limiter of password logins, with requests delayed between the clock and the mutex |
| `RateLimiterProofs` | theorems about `RateLimiter` |
| `Migrations` | the migrate command, run several times at once by different builds |
| `MigrationsProofs` | theorems about `Migrations` |
| `Localization` | how a text is found while overrides and languages are edited |
| `SignIn` | password and Google sign-in over the cookies that the tabs of one browser share |
| `ClientStateProofs` | theorems about `ManagedLists`, `SignIn` and `Localization` |
| `MC...` | the instance for TLC of the module named after `MC` |

How the modules fit together.  The rows of an invitation appear in three
modules, each with the columns its questions need: delivery in `Outbox`, use
and identity in `InvitationAcceptance`, the role in `Roles`.  A membership
update is cut into statements in `Memberships`, which is shown to implement an
atomic registry; that is why `Sessions`, `InvitationAcceptance` and `Roles`
may take it as one step.  `SignIn` issues tokens and links identities as
`Sessions` and `InvitationAcceptance` say; `Migrations` ends with the account
that `InvitationAcceptance` calls the super administrator.

In `ManagedLists`, `SignIn` and `Localization` a part of the state is in a
client's hands, and may be stale when it comes back: a cursor, cookies, an
editor's page.  One module has the theorems about the three, which it extends
together; hence `SignInInit`, `LocalizationNext` and the like, where other
modules have `Init` and `Next`.

Operators named as mutants in their comments (`CancelAnyJob`, `HoldsNoLease`,
`TenantIgnored`, ...) are plausible bugs.  Put in the place of the definition
that follows them, each makes TLC find a violation of the property it is
listed with under "mutants": each property can fail, and the run would show it.

### Outbox

An element of `Jobs` names an invitation and its one job (`CreateInvitation`
inserts both).  The variables are the columns that decide something.  Time is
abstracted to what the queries compare: `available` (`available_at <= now()`),
`stale` (`locked_at < now() - 10 min`) and `age` (valid, expired, or past the
retention period).  A lease token is a fresh UUID; as each claim also produces
a fresh value of `attempts`, that number stands for it.

Each transaction is one action: it decides on the first row it locks, and
takes the others in a fixed way.  The worker's `Run` is cut where it leaves
the database: starting, draining (claim), sending, completing or retrying,
waiting for a ticker.  `held` is what the worker carries from its claim to its
outcome, including whether the address was still there.  Sending has three
outcomes: accepted, accepted but the reply lost, failed.  A `Crash` is a kill,
a shutdown or any database error that makes `Run` return (also PostgreSQL's
abort of one of two deadlocked transactions: `Complete` locks the job before
the invitation, a revocation the other way round).

`InvitationDelivery` is implemented under the mapping `Outcome`: a job that is
pending or processing is an open delivery; "sent" is delivered; "failed" is
failed; a dead letter with another delivery status was cancelled.

### Memberships

One tenant.  A request is an `UpdateMembership`, an acceptance by a user who
has an account, or a `DeleteRole`, run statement by statement: a step is a
statement that may wait for a row lock or read what others write.  Locks are
read off the program counters (`HoldsTenant`, `HoldsMembership`, `HoldsUser`,
`GivesRole`, `DeletesRole`) and last to the end of the transaction;
uncommitted writes are invisible.  Foreign keys matter:

* The row of a new membership, and the audit event of an acceptance or of a
  deletion, take a key share of the tenant, which an update has locked FOR
  UPDATE.
* A membership that is given another role takes a key share of that role,
  which waits for a deletion of it, and the other way round.
* The deletion of a role looks for a membership that names it, and waits for
  one that is locked: the update that holds it may give it another role.

So an update and an acceptance that bring the same inactive membership back
wait for each other, and so do an update that gives a role and its deletion:
the update has the tenant and waits for the role, the deletion has the role
and waits for the tenant.  Longer circles occur too (a deletion waits for a
membership that an acceptance holds, which waits for the tenant).  PostgreSQL
aborts one transaction of a `Circle`.  `Custom` holds the roles that no
invitation names: a role that one names is never deleted (its row refuses,
whoever has it locked), which `Roles` is about.  The foreign key of an audit
event's actor is left out: it could only make a step wait longer, or abort,
which `Cancelled` allows at any time.

`MembershipRegistry` is implemented with the same four variables: an update
takes effect as one step with the administrators and roles that are there at
its commit, and a role is deleted when nobody has it or is being given it.

### Sessions

One user.  A token is a session version and a tenant; `op` records which
operation issued it and is no part of the token.  A request is cut at its
transactions: a login finds the user with its version, then reads the
memberships; a switch authenticates its token, finds the membership, raises
the version; an acceptance raises it in the transaction that joins.  A token
counts as issued when it is sent; between its transactions any request may
fail.  "Honoured" is what authentication compares (the version);
authentication also refuses a token whose membership is not active.

Two things the code does follow from this order.  A switch looks up the
membership first and raises the version last, so that its token may name a
membership just deactivated: authentication refuses that token, and by
`RefusedForGood` also after the membership is active again.  And a logout or a
switch raises whatever version it finds: a switch that is in flight when the
user logs out goes on to issue a token of a newer version, which is honoured.

`ActiveSessions` is implemented under `live` = the tenants of honoured tokens.

### InvitationAcceptance

One e-mail address: its account, its Google identity, its invitations.  A
request finds the invitation, then the account (`FindByEmail`), and then
accepts in one transaction, which is cut where it waits: for the invitation's
row, for the user's row or for the unique e-mail of another transaction's new
user.  Registration of a tenant owner, the bootstrap of the super
administrator, linking from the account, revocation, expiry and updates of
memberships come in between.

### Roles

One tenant.  A request begins when its session has been authenticated, with an
active member.  Each of its transactions is an action: the actor's active
membership, the permissions of its role, the role the request is about, the
change.  Foreign keys are guards: a role that a membership (active or not) or
an invitation (used or not) names is not deleted, and a role that is gone is
not given.  Only the two permissions that the modelled operations require are
kept.  Arguments that no step reads before the change are chosen there.
`invited` holds the roles that rows of invitations name; which of them can be
accepted is `InvitationAcceptance`'s matter, and here any may be, which can
only add behaviours.

### ManagedLists

One client pages through one list; the query is chosen at the start, among
all sorts and directions of the lists in `Kinds`.  A row is its ID and the
rank of its sort value (0 for the empty text); a list is described by how it
can be sorted, which sort values an update changes, and whether rows vanish.
A cursor is its fingerprint and the key of the last row.  The client may also
send the cursor with another query, which is refused.

### RateLimiter

One process.  A request reads the clock, then takes the mutex (`Admit` or
`Refuse`, with the cleanup of all keys when it is due), then checks the
password, then perhaps resets its key; between any two of these others run.
So entries may be out of order, a cleanup may have a later time than the
request that follows it, and a success forgets attempts that others are still
making.  `trimExpired` drops entries up to the first that is still fresh, as
the code does; a stale entry behind a fresh one stays.  `admitted` and
`promised` are histories.  `Second` gives the clock a step finer than the
header's, so that rounding shows.

### Migrations

A command is cut at its statements: the lock, the ledger's table, then for
each file the look at the ledger, the SQL, the entry, the commit; the unlock;
and, without the lock, the look-up and the insert of the administrator.  A
file's SQL and its entry are one transaction, so `ledger` stands for the
schema.  A command may lose its connection anywhere: its session then keeps
the lock for a while (`Orphan`), and a COMMIT on the wire may still succeed.
Builds may lack files, and may have a file with other content.  An unlock that
fails is only logged: the command goes on, and its session keeps the lock.

Two things follow that a reader may not expect.  A checksum is compared only
for files the build has, so a ledger that has files of a newer build, or has
them in another order, is accepted; `AppliedOnTop` says what does hold.  And
of two commands that bootstrap at once the later one fails, as it looks the
e-mail up before the other's insert and meets the unique key after it,
although `docs/security.md:9` calls the bootstrap idempotent; running it again
succeeds.

### Localization

A text is a number; those of the product are smaller than `FirstEdit`, and
each save has a new one.  A request reads the requested locale and then,
except for a message already found, the default one, in two transactions; a
bundle that fails is answered with the error's message, which is looked for in
the same way.  Editors work from a page that they opened earlier.  `had` notes
which texts a key had, in either locale, while a request ran.

The order of precedence is the code's: overrides come before the product
whatever their scope, and of two overrides, as of two texts of the product, the
scope's wins, because the query sorts the shared one first
(`postgres/localization.go:52`) and the map keeps the last.  `Effective` says so
step by step, as the code takes them; `InForce`, which the history is made of,
says it from the glossary (`CONTEXT.md:40`).  A bundle that fails turns into a
request for its error message, with a history and failed reads of its own.
A bundle, being read in two transactions, may combine texts that were never in
effect together.  And revisions restart at 1 when a row is deleted and made
anew, so that an edit meant for the old row is accepted: `NoLostText` has that
exception, by the history `replaced`.

### SignIn

One browser with several tabs, and one server.  The jar holds three cookies:
the session, the password verification (bound to the session's token), the
sealed attempt.  Requests of the application are served when sent; the
callback is cut at what may change meanwhile: the opening of the attempt, the
exchange with Google, the session, the link.  Any answer may come late or get
lost.  The super administrator's login sets no verification.  Logout, a switch
and the acceptance of an invitation raise the user's version (`Rotate`), so that
the sessions of the other tabs end and only the token of the answer, if it
arrives, is alive; version 0 stands for no account yet.

Tabs that sign in at once overwrite each other's attempt; the callback that
finds another attempt fails, and clears it, so that *both* tabs may fail.
That is safe, as `ActsAsAsked` says.

The sealed attempt names no user.  `LinkFollowsPassword` therefore speaks of the
user who asked for the link; the callback links to whoever the session is of
when Google answers, provided the e-mail of the identity is his.

## 3. Runs

| Run | Instance | States | Shows |
|---|---|---|---|
| `outbox` | 1 job, 2 workers, 2 attempts, 1 slow lease, 1 crash, fair | 108,932 | the history of one mail; refinement of `InvitationDelivery`; every mail settles; a worker back at its select forgets lapsed addresses |
| `memberships` | 2 users, 2 requests, 3 roles of which one can be deleted, fair | 127,279 | administrator, no lost update, refinement of `MembershipRegistry`; every request ends, deadlocks included |
| `sessions` | 2 tenants, 2 requests, 2 rises of the version | 349,899 | which tokens are honoured; refinement of `ActiveSessions` |
| `acceptance` | 2 tenants with 2 invitations each, 2 requests | 1,232,500 | each invitation is used once, by whom it may |
| `acceptance_resolves` | 2 tenants, 1 request | until found | violation: an account without password (finding 1) |
| `roles` | 2 users, 1 custom role, 2 requests, revisions 1 and 2 edited | 1,888,881 | roles in use, no lock-out, what the permission check establishes |
| `managed_lists` | 3 rows, 2 values, pages of 1, 5 kinds of list, 1 midnight | 384,910 | each row once |
| `lists_blank` | invitations, the same day | until found | violation: an empty sort value (finding 2) |
| `rate_limiter` | 2 keys, 2 requests, limit 2, window 2, time up to 4 | 973,554 | the window holds; `Retry-After` is honest |
| `migrations` | 2 commands of 5 builds, 3 files, 3 starts | 91,834 | each file once and on top of the earlier ones; success means ready |
| `localization` | 2 locales, 2 scopes, 2 keys, 2 editors, 1 request, 3 saves | 1,374,380 | every text has its cause; no save is lost |
| `sign_in` | 2 tabs, a user and a super administrator, 2 attempts, 2 tokens, time up to 2 | 5,429,854 | an answer does what its tab asked; a link follows a password |

The properties, each stated and commented in its module:

* `OneHolder` (with the schema's CHECK, `LeaseConstraint`, as its first part)
  and `LeaseGuardsOutcome`: the lease protocol.  A slow lease lets a second
  claim of one job overlap with the first; a crash orphans a lease.
* `DeliveryAgrees` and `AuditAgrees`: job, invitation and audit log tell the
  same story under every race, and a revoked invitation has no live job.
* `DuplicatesHaveCause`: what the protocol does not promise, made precise.
  `attempts` may exceed the maximum, and a mail may leave twice, but only
  after an outdated lease or a lost SMTP reply.
* `AdministratorRemains`, `NoLostUpdate`, `ImplementsRegistry`: the locks make
  READ COMMITTED transactions atomic, whatever they count or compare, and no
  member's role is deleted.  `EveryRequestEnds`: no wait lasts.
* `LiveTokensHaveMembership`, `RotationsDistinct`, `RefusedForGood`,
  `ImplementsActiveSessions`: whatever a token was issued from, it is not
  honoured beyond what it was issued for, and does not come back.
* `ActivatesOnce`, `NewcomersAreNew`, `SuperAdministratorIsGlobal`: the
  decision taken before the accepting transaction does not outlive its truth.
* `RolesInUse`, `NeverLockedOut`, `PermissionsSeen`; and `PermissionHasCause`,
  which makes precise what the permission check promises: its two reads are
  of different moments, so an actor who never held the permission passes only
  if both his membership and a role were changed while the request ran.
* `ListedOnce`, `NeverTwice`.
* `NeverMoreThanLimit`, `RetryAfterHonest`: against the clock, not against
  what the limiter has kept.
* `LedgerReadHolds`, `AppliedOnTop`, `DoneMeansReady`: though the ledger is
  read outside the transaction that adds to it, and the bootstrap has no lock.
* `TextHasCause`, `NoLostText`.
* `LinkFollowsPassword`, `ActsAsAsked`: although the server keeps nothing of
  an attempt, and cookies are those of all tabs.

`TypeOK` is an invariant of the runs of `Outbox`, `Memberships`, `Sessions`,
`InvitationAcceptance`, `Roles` and `ManagedLists`.  For the other four the
types are proved only (`TypeOK` of `RateLimiter` and `Migrations`,
`LocalizationTypeOK`, and `SignInTypeOK` in the module of its proof).

Findings: what the violation runs show.

1. `FindByEmail` scans the nullable `password_hash` into a string.  For a user
   who came by Google and has no password it fails, and every later acceptance
   of that user is refused with an internal error (`postgres/users.go:107`).
2. `decodeKeysetCursor` refuses an empty sort value, which the e-mail of an
   anonymized invitation is: sorted by e-mail, the list cannot be continued
   after a page that ends with one (`postgres/cursor.go:58`).

The same property, `CursorContinues`, fails in a second way, with `Kinds` =
{"audit"} and `MaxDay` = 1: the default end of the audit log's range is part of
the fingerprint and moves at midnight UTC, so that the cursors of the day
before are refused with the query unchanged (`postgres/audit.go:161`).

A remark without a run: an acceptance with a Google identity inserts its link
unconditionally (`postgres/invitations.go:234`), so that a user whose identity
is linked already cannot accept a further invitation with Google, only with
the password.

Bounds and why they are enough.  `MaxAttempts` 2 has a job both retried and
dead-lettered (the code's 5 adds repetitions of the retry).  `MaxSlow` and
`MaxCrashes` bound the environment; the theorems do without a particular value,
and hold for any number of jobs and workers, where the run has one job: no
transaction touches two.  In `memberships` all combinations of
statuses and roles with an administrator are initial states, so that two
requests are what a lock conflict takes and one change of each membership is
enough to make a revision stale; `MaxRevision` bounds submissions, not what a
submitted request does, and the idle API may then rest, hence
`CHECK_DEADLOCK FALSE`.  Circles of three need a third request: the safety
properties were checked with one too, with two roles.

Two tenants let a session of one outlive a change in the other; `MaxVersion` 3
has two rises overlap a third request's reads.  Two invitations per tenant let
two acceptances meet in one membership.  In `roles`, two slots that are used
again and again are enough for a third request's change to fall between two
parts of a check: the case in which `PermissionHasCause` holds by its second
alternative occurs (at depth 23).  Three rows on pages of one give a first, a
middle and a last page, and of three rows with two values two have the same.
The client of a list stops at its end, all versions, revisions and invitations
may be spent, and nothing is then left to do: hence `CHECK_DEADLOCK FALSE` in
these runs too, and in `migrations` and `sign_in`, whose starts, time and
tokens are used up.  None of them has a liveness property, so none has fairness.

`rate_limiter` goes through two windows with a limit of two: an attempt at the
very edge of a window, a cleanup between the clock and the mutex, a window that
is full, and an odd wait under a `Second` of two.  Three starts of
two commands let a third begin while a lost one's COMMIT is still under way;
the builds are a release, two branches of it, their merge, and an edited file.
Three saves let a text be saved, deleted and saved again under an open page.
Two attempts and two tokens let one tab replace what another needs, and a time
of two outlives both lifetimes.  One user beside the super administrator is
enough for what the tabs do to each other; more users are left to the proofs.

Fairness.  Workers are restarted (`restart: unless-stopped` in
`deploy/docker-compose.production.yml`) and run their loop: weak fairness of
`WorkerStep`.  Nothing makes drain end (`DrainEnds` is not fair): the run has one
job, but in the system mail of other invitations may keep coming, and
`worker.drain` goes on until nothing can be claimed.  `EveryMailSettles` does not
need it to end, as claims go by `available_at` and a due job is reached in spite
of later ones.  The cleanup does: it runs at the start and from the `select`
alone.  That `select` picks any ready case, and the ticker stays ready until
served, hence strong fairness of `CleanupTick`; and `LapsedAreAnonymized` is
conditional, *provided some worker gets back to its `select` again and again*.
Under mail without pause the code does not promise that addresses are forgotten.
Time passes: weak fairness of
`BecomeAvailable` and `BecomeStale`.  No fairness is assumed of sending
successes, callers, revocations or crashes.  In `Memberships`, PostgreSQL
serves the waiters of a row lock in turn (strong fairness of `TxStep`, whose
guards come and go with the locks of others) and breaks deadlocks (weak
fairness of `DeadlockVictim`).

## 4. Proofs

All theorems hold for every value of the constants that satisfies the modules'
ASSUMEs; nothing else is assumed.

`OutboxProofs`.  The invariant `IInv` is `TypeOK` with one part per job
(`JobInv`: lease and status, delivery and status, copies and attempts, the
causes of duplicates, the audit counts) and one per worker (`WorkerInv`: a
busy worker holds a claim of its job that is at most the current one; one that
is completing has sent; tokens of one job in different hands differ).
It is needed because the checked properties alone are not inductive:
`OneHolder` needs that no two workers hold the same attempt of a job, and
`DuplicatesHaveCause` that every earlier attempt is finished with, reclaimed
or lost.  There is a lemma per action, and `TypeCorrect`, `Leased`, `Settled`, `Audited`,
`Duplicates`, `Guarded` and the refinement `Implements` follow from
`Invariant`.

`MembershipsProofs`.  `IInv` adds to `AdministratorRemains` that every member's
role is there (`RolesOfMembers`), that the tenant and each membership are
locked by one transaction at a time and no role is given by one and deleted by
another, and that what a transaction has found stays true while it holds its
locks: the role, the inactive status, the revision, that others remain to
administrate, and, for a deletion, that no membership names the role.  An
acceptance can only add administrators to what an update has counted.
`KeepsAdministrator`, `KeepsRoles`, `UpdatesAreSeen` and `Implements` follow.

`SessionsProofs`.  `IInv` says that no token or request knows a version the
user has not reached, that a request about to send a token of the current
version, a switch apart, has an active membership (every change of one raises
the version), and that rotations under way hold versions of their own.

`AcceptanceProofs`.  `IInv` has that an invitation and the account's row are
each locked by one transaction; that what a request has found stays true while
it goes on (the account with a password, the open invitation; and no account,
for one who holds the new user's row); and that who has a membership or a
linked identity has an account that is not the super administrator's.

`RolesProofs`.  `IInv` adds to `RolesInUse` that the two protected roles stay
and that somebody administrates (`Standing`), that what a request saw is so
still or has another revision (`SeenInv`), and between the two parts of a check
what has not changed since the first (`CheckInv`).  Each action is shown to
move the rows `Forward`, and one lemma draws from that what all other requests
still know.

`ClientStateProofs`, three invariants that do not depend on one another:

* `ListsInv` divides the untouched rows by the cursor's key: those up to it
  have been listed once, those beyond it not yet; under a sort whose values do
  not move, no row beyond it has been listed at all.  It rests on the order of
  keys being total and strict in either direction, and on the cardinality of a
  page (which is not empty, so that it has a last row).  `ListsOnce` and
  `ListsNeverTwice` follow.  `ContinuesInv`, about where a cursor comes from,
  gives `RefusalsHaveCause`.
* `SignInInv`: no two attempts have the same number, whoever holds them
  (`AttemptsDiffer`: the jar, a callback's cookies, an answer on its way, the
  tab that started it); no verification and no attempt outlives the password
  login it rests on (`PasswordInv`); and a tab knows what it has started
  (`TabInv`).  `ActsAsAsked` alone is not inductive: the callback compares
  numbers, and it is `AttemptsDiffer` that makes equal numbers one attempt.
  `LinkFollowsPassword` needs that every copy of a cookie has the bound, as an
  answer that is late may put an old one into the jar.  `AsAsked` and
  `FollowsPassword` follow.
* `LocalizationInv`: what a request asks for keeps its form, the texts there
  are now are among those noted (`NotedInv`), what was found in the first
  transaction was noted then (`FirstInv`), and an editor's page is the row or
  one of a lower revision, unless the row was deleted since (`PageInv`).
  Without the last, an equal revision would not mean an equal row.  The texts
  noted are a history that every save extends for all requests at once, which
  is one lemma (`NotedKeeps`); that a step of one request leaves the others
  alone is another (`RequestKeeps`).  `TextsCaused` and `TextsNotLost` follow.

`RateLimiterProofs`.  Per key, `IInv` (`KeyInv`) says that the entries are a
suffix of the admitted attempts, and that those before it are a window old;
and that while the key is full, a refused client was told to wait for the
first entry to expire.  The entries need not be sorted for that: `Trims` shows
that trimming drops only a prefix whose entries are all expired, and the
arithmetic of rounding is a lemma of its own.  `Limits` and `Honest` follow.

`MigrationsProofs`.  `IInv` says that who works under the lock holds it, a
session without its client included, so that what was read from the ledger
holds until the commit; and that a command carries `AppliedBefore` (all its
files up to the one it is at) from file to file, which no step takes away.
`ReadHolds`, `OnTop` and `Ready` follow.

The types of every module are a theorem too (`TypeCorrect`, or `ListsTyped`,
`SignInTyped` and `TextsTyped`).

Two findings are made precise by theorems, which say that their cause is the
only one and how far it reaches.  `InternalErrors` and `ExternalStuck`: an
acceptance fails internally for an account without a password only, and such
an account never accepts an invitation again, because by `AccountKept` no step
gives it another way to log in and who did not find it cannot insert it.
`RefusalsHaveCause`: a cursor is refused with its own query in the two cases
described under the findings, and in no other.

Only model-checked: liveness (`EveryMailSettles`, `LapsedAreAnonymized`,
`EveryRequestEnds`), which is out of the prover's reach.  All other properties
of the passing runs are theorems.

## 5. What is left out, and what could follow

Not modelled, and why.

* Tenants: single-row updates compared by revision, as languages are in
  `Localization`; provisioning is the initial state of `Memberships`.
* The browser's stores: they hold what the last answer said, and are discarded
  with the page.  What their requests do to the server, in whatever order, is
  what the modules let happen; the cookies they share are in `SignIn`.
* Mapping, CORS, configuration, generated code and the user interface keep no
  state.  Statistics and the audit log's queries only read; its inserts belong
  to the transactions modelled.
* The connection pool's own limit: no code holds two of its connections at
  once, so that waiting for one cannot close a circle.
* Password hashing, signatures and sealing are taken to do what they promise;
  row-level security is a filter on every query that the modelled queries also
  state themselves.

What could follow: the permission check of `Roles` composed with the locks of
`Memberships`, where now the registry's atomicity is the bridge; several
processes of the API server, whose rate limiters each count for themselves; the
graceful shutdown of the server and the worker.
