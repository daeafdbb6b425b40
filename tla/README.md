# Verification of the content-intelligence backend

TLA+ models of the state that this multi-tenant NestJS/PostgreSQL backend keeps, checked with TLC on
small instances; every safety property that TLC checks, and the refinement of the ledger's promise, is
proved with TLAPS for every value of the constants as well. Everything here is translated from the
source; the documents under `docs/` are quoted only where the code is held against them.

The hard part of this program is not in any single handler. It is in what PostgreSQL at READ
COMMITTED lets two handlers do to each other: rows read before a lock or an `await` and used after
it, work split over several transactions, caches keyed by a version, retries under one idempotency
key, and background passes that overlap. The models keep those seams — a handler is one action
exactly where a lock, a conditional write or a constraint makes it one — and abstract the data.

## 1. The system

| Part | State it keeps | Operations | Talks to |
|---|---|---|---|
| Quota ledger (`quota.service`) | `usage_counters`, `usage_reservations`, `quota_threshold_events` | reserve, commit, release, under an advisory lock per (organization, metric) | resolver for limits; called by users and the API interceptor |
| Quota scheduler | `usage_snapshots` | hourly: expire holds, snapshot ended periods; no lock | ledger rows |
| Event metering (`consumeEvent`) | `usage_events` | reserve, record, commit: three transactions, one key | ledger |
| Seats and reconciliation | users counted by ACTIVE_USERS | create, activate, deactivate, synchronize, reconcile | ledger, users |
| Quota resolution, platform quota | plan quotas, overrides | resolve the limit in force; administrators' writes | subscriptions |
| Organizations | status, onboarding status | create, provision, activate, suspend, resume, archive (SERIALIZABLE) | memberships, roles |
| Users and memberships | account, status, default, owner, role, teams | create, (de)activate, assign and revoke roles, sign-on | roles, seats, sessions |
| Guards | – (each reads the database for itself) | admit a request at the doors of a tenant or of the platform | users, memberships, roles, authorities |
| Roles and permissions | roles, grants, permissions, `authorizationVersion` | define, grant, replace, delete | memberships |
| Tenant resolution | permission cache per process | resolve the context of a request | all the above, on every request |
| Password login | failed-login counter, lock | login, refresh, switch of the tenant, change of the password | tenant resolution, sessions |
| Sessions | refresh tokens (hash, generation, end reason) | login, rotate, logout, revoke, password change and reset | users |
| Plans and subscriptions | plans, features, subscriptions, overrides, `entitlementVersion`, cache | administration, transitions, resolve | feature guard, quota resolution |
| Single sign-on | providers, transactions, tickets, replay records | OIDC, SAML, exchange | memberships, sessions |
| Passkeys | credentials, challenges | register, authenticate | sessions |
| Workspaces and catalogue | workspaces, links; languages, domains, topics | create, update, archive; (de)activate | – |
| Teams | teams, managers, members | create, update, (de)activate, members | memberships |
| Organization configuration | settings, branding, domains | update, verify over DNS, backfill | login, sign-on |
| Audit log | append-only records with a scope | record, read, classify, archive | called by all |
| Platform authority | grants to platform administrators | grant, revoke, by a command | guards |
| Maintenance commands | – | backfills of memberships, roles, settings and providers, quota bootstrap | the rows of all the above, while the application runs |
| Profile media, backup | picture of a user: row and stored object; a copy of both | store, replace, remove; back up, test | object store, users |

What makes each part correct, and where it is hard:

* **Ledger**: a limit is never overbooked and a commit counts once, although sweeps and releases
  take no lock, clients die holding a share, and `now` is older than the lock.
* **Metering**: what is counted is on record and what is served is counted, with concurrent calls of
  one key and stops between transactions.
* **Tenancy**: nothing goes live without an owner; roles stay in their organization; defaults stay
  sound — under concurrent platform requests whose snapshots are old.
* **Authorization and entitlement**: a cached answer is the present answer, although it is computed
  from several statements while the rows change.
* **Sessions**: one login has one live token and an ended one stays ended, with tabs that refresh at
  the same time; a former password opens nothing for long.
* **Getting in** (password, passkey, single sign-on, guards): a failure is counted, a challenge, a
  state and a ticket open once, nobody enters a context he did not hold, and no sign-on gives back
  what was taken away — while the rows each call has read change under it.
* **Configuration of a tenant** (workspaces, teams, domains, settings, providers): what a call has
  validated still holds when it writes, and a decision that was taken meanwhile is not undone.
* **Commands and the audit log**: they run beside the application, in batches, and stop half way;
  they add and never take, and the log accounts for the authorities there are.
* **Pictures**: a row never names an object that is gone, with two stores and no common transaction.

`PROJECT.json` lists every component with its status, and every hazard with the line where it bites.

## 2. Modules

| Module | Models | Main correspondence |
|---|---|---|
| `QuotaSums` | the aggregate of the amounts of a set of rows, as the cardinality of the set of their units | – |
| `QuotaPromise` | the abstract ledger: shares are admitted, used, given back | specification only |
| `QuotaLedger` | one (organization, metric): rows, lock, scheduler, clock | `Reserve`, `CommitRead`/`CommitWrite`, `Release`: `quota.service.ts`; `SweepExpired` … `WriteSnapshot`: `quota-scheduler.service.ts` |
| `EventMetering` | `consumeEvent` by several calls; extends `QuotaLedger`, and is a refinement of it | `quota.service.ts` 254–318, the API interceptor |
| `SeatMetering` | users against ACTIVE_USERS; extends `QuotaLedger` | `users.service.ts`, `usage-reconciliation.service.ts` |
| `Tenancy` | organizations, users, memberships, roles | `organizations.service.ts`, `organization-memberships/*`, `admin/*`, sign-on |
| `Authorization` | roles, grants, permissions and the permission cache of one organization | `tenant-rbac`, `tenant-roles`, `rbac-management`, `admin-permissions`, `tenant-resolver` services |
| `Subscriptions` | plans, subscriptions, overrides and the entitlement cache, for one feature | `platform-entitlements.service.ts`, `entitlement.service.ts` |
| `Sessions` | the sessions of one user | `refresh-token`, `auth`, `account-security`, `users` services |
| `EffectiveQuota` | how plan quota, override and subscription give the limit in force | `quota-resolver.service.ts`, `platform-quota.service.ts`, the quota maintenance command |
| `LoginContext` | which tenant or platform a login, a refresh or a switch of the tenant enters, row by row | `tenant-resolver.service.ts`; `resolveLoginContext`, `refresh`, `switchTenant` of `auth.service.ts` |
| `PasswordLogin` | the password, the counter of failures and the lock | `auth.service.ts`, `account-security.service.ts` |
| `Passkeys` | registration and login with challenges and counters | `passkeys.service.ts` |
| `SignOn` | OIDC and SAML logins, tickets, deletion of a provider | `oidc.service.ts`, `saml.service.ts`, `sso-ticket.service.ts` |
| `SsoProviders` | administration of providers, adoption of those without a tenant | `sso-provider.service.ts`, `sso-tenant-maintenance.ts` |
| `RequestGuards` | a request through its guards | JWT strategies, `permissions.guard.ts`, `platform-admin.guard.ts`, the tenant context |
| `Workspaces` | a workspace and the catalogue it selects from | `workspaces`, `languages`, `intelligence-domains`, `topics` services |
| `OrganizationConfiguration` | settings and domains of an organization | `organization-configuration.service.ts` and its maintenance command |
| `Teams` | teams, managers, members, replacement with a new role | `teams.service.ts`, `users.service.ts` |
| `AuditTrail` | records, their scopes and archive; grants of authority | `audit-log.service.ts`, `audit-log-maintenance.ts`, `platform-authority-maintenance.ts` |
| `MembershipMaintenance` | backfill of memberships and of their roles | `membership-maintenance.ts`, `tenant-rbac-maintenance.ts` |
| `ProfileMedia` | pictures of users, and the backup of rows and objects | `users.service.ts`, `profile-media`, the attachment storage, `tools/migration-safety` |
| `QuotaLedgerProofs`, `EventMeteringProofs`, `SeatMeteringProofs`, `AuthorizationProofs`, `SessionsProofs`, `SubscriptionsProofs`, `OrganizationProofs`, `AccessProofs` | theorems | – |
| `MCQuotaLedger`, `MCEventMetering`, `MCSeatMetering`, `MCTenancy`, `MCAuthorization`, `MCSubscriptions`, `MCSessions` | instances of one module for TLC | – |
| `MCAccess` | instances of `PasswordLogin`, `LoginContext`, `Passkeys`, `SignOn`, `ProfileMedia` | – |
| `MCOrganization` | instances of `Tenancy`, `Workspaces`, `OrganizationConfiguration`, `Teams`, `SsoProviders`, `AuditTrail`, `MembershipMaintenance`, `RequestGuards` | – |
| `MCEntitlements` | instances of `Subscriptions` and `EffectiveQuota` | – |

The last three take several modules together. These modules do not share variables: what two of them
have in common (that a user is active, that a membership is there) each abstracts for itself, as far
as its own properties depend on it. So an interleaving of two of them shows nothing that the two
alone do not, and a behaviour follows one module, its `focus`, while the others stand still. Their
properties are conjunctions of properties of the modules, named for the question; the comments of
the modules state the parts:

| Property of the run | Parts |
|---|---|
| `LoginsAreKept` | types; `PasswordLogin`: `FailuresAreCounted`; `LoginContext`: `RefreshStays` |
| `LoginsAreGuarded` | `PasswordLogin`: `LockHolds`; `LoginContext`: `EntersHeldContext`; `Passkeys`: `CounterRises` |
| `EachOpensOnce` | `Passkeys`: types, `ChallengeOpensOnce`; `SignOn`: types, `StateGivesOneTicket`, `TicketOpensOnce` |
| `SignOnRespectsAccess` | `SignOn`: `SignOnNeverReadmits`, `DeletionKeepsIdentities` |
| `MediaIsKept` | `ProfileMedia`: types, `NamedIsStored`, `OnlyLeaks`, `RestoredIsComplete` |
| `MembershipsAreSound` | `Tenancy`: types, `DefaultsAreSound`, `RolesStayInTenant`, `ActiveKeepsRole` |
| `ConfigurationIsConsistent` | types; `Workspaces`: `SelectionsFit`; `OrganizationConfiguration`: `ZonesAgree`; `Teams`: `TeamsAreReplaced` |
| `DecisionsStand` | `Workspaces`: `ArchivedStays`; `OrganizationConfiguration`: `SettledUnlessRaced`; `SsoProviders`: `UnnamedStays`, `TenantUnlessRaced` |
| `CommandsReportTruly` | types; `AuditTrail`: `TrailMatchesAuthority`; `MembershipMaintenance`: `AppliedIsComplete` |
| `CommandsOnlyComplete` | `AuditTrail`: `RecordsStay`; `MembershipMaintenance`: `CommandsOnlyAdd` |
| `GuardsAdmitOnGrounds` | `RequestGuards`: types, `AdmittedOnGrounds` |
| `QuotaWasInForce`, `ChangesAreInOrder` | `EffectiveQuota`: `ResolvedWasInForce`, `LimitMovesWithVersion`; `Subscriptions`: `ClosedUnlessRaced` |

A definition named `X_Y` with a comment “MUTANT of X” is a plausible bug of `X`; it is used by no
specification and shows that a property can tell the difference. `PROJECT.json` maps every other
definition to its lines.

### Choices worth knowing

* **QuotaLedger.** `reserve()` holds the advisory lock from its first read to its end. What can run
  inside it — a release, a sweep, both conditional on RESERVED — commutes with it, so it is one
  action. A commit is two, because a release or a sweep between its read and its unconditional write
  does not commute. Periods are named by their start; DAILY and MONTHLY are windows of a fixed
  length, aligned; SUBSCRIPTION_TERM is such a window as well; NONE is the epoch. The limit in force
  is an input that may change at any moment. Metrics without a caller in `src/` (FILES,
  STORAGE_BYTES) are covered by the general client: any key may be reserved, committed or released
  at any time.
* **EventMetering.** An event carries the period of the quota that its own call's `reserve()` returned;
  the unit is counted in the period of the row, which an earlier call of the key may have reserved. The
  two differ when a retry falls into a later period, or the reset of the metric has changed.
* **Tenancy.** A SERIALIZABLE transaction sees the snapshot of its first statement, the one that
  waits for the lock: `Begin…` records what that snapshot allows, and a write to its organization
  by anyone else makes it fail.
* **Authorization** and **Subscriptions** keep only the cache entry under the present version: an
  entry under an older version can only be asked for by a call that read that version before. One
  process is modelled; each process has a cache of its own and they share nothing but the rows.
  Prisma reads an `include` with statements of its own, so a row and its relations may be of
  different instants. In Subscriptions the organization is ACTIVE, one feature is followed, and what
  an administrator asks for is chosen when the request writes, since nothing depends on it earlier.
* **Sessions.** An `UPDATE … WHERE` that ends several sessions selects in its snapshot and then
  writes: two actions. Reasons other than ROTATED are one, REVOKED. Requests of an inactive user
  are refused before they change anything and do not appear.
* **EffectiveQuota**, **LoginContext**, **RequestGuards.** Each row a call reads is an action of its own,
  in the order of the code, and other requests change the rows in between: five for a limit
  (organization, subscription, plan, the plan's quota, override, judged by a `now` taken before the
  first of them), four for a context (account, membership, organization, role) or two of the platform,
  and for a guarded request also what the role is granted, and the account again. None of the reads
  locks, so what a call has put together may never have been true at one moment. The call keeps three
  histories which no guard reads: what the rows were since it began to read (`seen`, `known`); `stale`, a
  row it had read has changed; and `mixed`, after that a row it had still to read changed as well. A row
  counts only where it concerns the call: a change of another organization, role or plan than those it
  has found does not. `EffectiveQuota` also keeps a change of a plan apart in its select of the
  subscribers and its commit, between which an organization may subscribe and be overlooked.
* **PasswordLogin** ends where the password is found right, **LoginContext** begins there: what one login
  does to the counter does not depend on the tenant it enters, and the reverse. `LoginContext`, **Passkeys**
  and **SignOn** end where a refresh session is opened; what becomes of it is in `Sessions`. Flags for a
  value that was outdated while it was awaited (`stale`, `raced`, `shared`, `overlapped`) are there for
  the properties; no guard reads them.
* **SignOn.** OIDC keeps the provider it read with the state and writes in one SERIALIZABLE
  transaction; SAML reads the provider again and writes statement by statement. Both refuse a state that
  has expired when they read it; of the two conditional updates that consume it only that of OIDC looks
  at the expiry once more. Which assertion
  arrives is any that the libraries let through.
* **SsoProviders.** An update writes the provider and replaces its routes and role mappings in one nested
  write, at READ COMMITTED. It is one action because of the order in which Prisma executes a nested write:
  the UPDATE of the provider, which always writes `updatedAt`, comes before the deletes and creates of what
  belongs to it, so that its row lock keeps two updates of one provider apart until the commit. That
  order is not in the source.
* **Workspaces.** From its `updateMany` on an update of an active workspace holds the row, so its
  writes are one action. An update of an archived row has nothing to hold; its writes are one action
  as well, since what it leaves behind is the same.
* **Teams.** Two replacements for one user exclude one another only through the membership row each
  writes first; the model keeps that lock and the snapshot of each statement.
* **OrganizationConfiguration.** The time zone stands for the two fields that are kept in two rows.
* **ProfileMedia.** An operation on the object store or the database may be done and reported as
  failed; `lost` and `leaked` are histories of those.
* **MembershipMaintenance** leaves out the owners, which an operator names by hand, and the
  increment of `authorizationVersion`, whose readers are in `Authorization`.

## 3. Checks

| Run | Question | Bounds, and why they suffice |
|---|---|---|
| `ledger` | Do limits, counts and alerts hold, and does the ledger implement its promise? | two keys with amounts to 5, limits 0–5 and none, one scheduler pass: overbooking needs two holds, and 80 %/90 % of 5 differ |
| `passes` | Do overlapping and interrupted passes finish every period once, and free every overdue hold? | one key, daily windows, two passes, a batch of 1 so that the batch limit matters |
| `metering` | Three calls, two sharing a key: is what is counted recorded and what is served counted? Is every call answered? | a limit of 1, so that a share is contended; windows of three instants and a clock that reaches the next one, so that a retry may fall into another period than the row it finds. No scheduler pass: holds lapse in `reserve()`, and the theorems have any number of passes |
| `seats` | Do counter and holds cover all active users, within the limit? | five requests over four users and a limit of two, a reconciliation among them |
| `seats_reactivate` | *(violated)* Does an activation respect the limit? | a user is activated twice |
| `tenancy` | Lifecycle, owners, roles and defaults under two platform requests; configuration of a tenant, commands, guards | two organizations, two users, a role: a race needs two requests. Two calls in every other module too; two team codes, so that a team can be replaced; one or two routes, roles and tenants; three log rows, of which a batch takes two; at most one to three changes by others, after which every kind of staleness has occurred: two around the reads of a guarded request, which is what mixes them at the doors of a tenant |
| `last_owner` | *(violated)* Can an organization lose its last active owner? | two owners |
| `authorization` | Is the cached answer the present one, but for three named races, and do these pass? | a membership, a system and a tenant role, one permission, three versions, two requests and a resolution |
| `access` | Password logins, passkeys, sign-ons and pictures, two calls at a time | one user; a lock after two failures and at most three of them, so that a count can be lost before and after the lock; two challenges, states, tickets and objects, so that one can be mistaken for another; one provider of each kind; one change of the account or of a provider's rows meanwhile. A context is entered by one call at a time (calls share nothing but the sessions), with two organizations and roles, two sessions and two changes, as a mixture needs two |
| `sessions` | One live session per login; former passwords end; ended is final | three sessions, two calls, a change and a reset of the password |
| `subscriptions` | One current subscription; is the cached answer the present one, term and grace included? Is a resolved limit one that was in force? | two subscriptions of one organization, a clock of four instants that separates start, end and grace; one limit or none, one plan with its quota, one change of it under way, a term that begins on the second of two days, one resolution, two changes, as a mixture needs two and overlooking a subscriber is a subscription and a commit |
| `reopened` | *(violated)* Does a closed subscription stay closed? | as above |

Deadlock checking is off where the model may really stop: requests run out (`seats`), every
session has ended (`sessions`), versions and time are used up (`subscriptions`), challenges, states
and changes are used up (`access`, `tenancy`). No request waits there for another: a lock is always
held by a call that can go on, which `metering` and `passes` check as liveness.
`MaxClock`, `MaxTime`, `MaxVersion`, `MaxUnderWay`, `MaxChecked`, `MaxPasswords`, `MaxLimit`,
`MaxAmount`, `MaxFailures`, `MaxUses`, `MaxChanges` (in the instances also `MaxMoves`, `MaxTurns`),
`MaxToggles` and `MaxRows` are the bounds; each is a constant marked BOUND where it is declared. In
`LoginContext` no call begins without an id for the session it may open. `LockAfter` (5 in the code) and `BatchSize` (100)
are parameters of the code, made small.

**Fairness.** Safety runs assume none. `passes` assumes that cron starts each pass (weak) and that a
pass is not killed for ever at the same statement (strong). `metering` assumes that a call goes on
until it is answered (strong, because the lock it waits for is taken by others in between; a queue
at PostgreSQL is fairer than that). `authorization` assumes only that node-cache drops an entry of age
(`stdTTL: 600`), which it does whatever else happens.

### What the violated runs show

* `seats_reactivate` — the key of an activation, `user:activate:<id>`, is the same every time: the
  second activation of a user is answered from the first one's row and checks nothing.
* `last_owner` — `deactivate()` writes `isActive: false` before its guard looks for *active* owners.
* `reopened` — `transition()` reads the status before it waits for the lock.

Each is quoted against the document it disagrees with in `PROJECT.json`.

### What is stated inside the properties

Where the code lets a race through, the property names it, so that it holds for everything else; a
property without its exception fails. A reader of the code will want to know these:

* `ActiveKeepsRole` names the memberships that lose their role to a race, `FormerPasswordEnds` the
  sessions a revocation does not see, `ServedIsGranted` and `CachedIsCurrent` the races after which a
  cache entry is outdated until the next version.
* `CountedIsRecorded`: a retry in a later period appends an event of that period, and its unit is counted
  in the period of the row, so the two reports differ by it (`Straddled`). Every other key is counted
  where it is recorded, and no period reports a unit of which there is no event at all.
* `ResolvedWasInForce`, `EntersHeldContext`, `AdmittedOnGrounds`: a row changes after it was read, and then
  another before it is read (`mixed`). The limit, the context or the admission may then rest on rows
  that were never good together. What is left of the three is stated even so: the limit is one that
  some row had meanwhile, and every row a context or an admission rests on was good at some moment since
  the call began, membership and permissions for one role. With one change, or changes of rows on the same
  side of what was read, there is no exception. At the doors of the platform a mixture that lets
  someone in takes four changes, more than the run makes; the theorem has any number.
* `LimitMovesWithVersion`: an administrator's change of a plan moves the limit of an organization which
  subscribed after the change had selected the subscribers, without a new version (`Overlooks`).
* `FailuresAreCounted`: `recordFailedLogin` writes the count its login had read, so that of two
  failures at the same time one is not counted, and a late one clears a lock that was set meanwhile.
* `ChallengeOpensOnce`, `TicketOpensOnce`: a challenge is deleted, and a ticket consumed, by an
  update that is not conditional; two calls that overlap both pass. A state is consumed by a
  conditional one, and `StateGivesOneTicket` needs no exception.
* `ArchivedStays`: an update that finds the workspace archived rewrites its links nevertheless.
* `SettledUnlessRaced`: a verification that waited for the DNS writes by id, also to a domain that was
  disabled meanwhile.
* `DeletionKeepsIdentities`: a login may link an identity after the deletion counted them.
* `ZonesAgree`: updates of the organization by the platform leave the settings as they are, and a
  settings row created without a zone takes the default.
* `RestoredIsComplete`: rows and objects are copied one after the other.

`PROJECT.json` lists some of these races as hazards without a property: where the code lets a race
happen and a property excepts exactly that race, the property says what holds otherwise, and nothing
here would find the race itself going wrong. They are the lost count of a failure, the double use of a
ticket and of a challenge, and the identity linked during a deletion.

Three more things were met on the way and are in no property: a hold of an ended period may still be
committed after its snapshot was taken (`SnapshotsSound` is what holds of a snapshot); the quota
bootstrap writes MONTHLY where a plan had no reset; and `setOverride` with `enabled` left out keeps
it while it clears the limits.

## 4. Proofs

`QuotaLedgerProofs` proves, for any finite set of keys, any configurations, limits, clock and number
of passes (from `KeysAssumption`, `BoundsAssumption`, `QuotasAssumption` of `QuotaLedger`):

* `TypeCorrect`: `Spec => []TypeOK`.
* `CountedOnce`: `Spec => []CounterMatchesCommitted`. It is not inductive alone: a commit that was
  read must not be of a COMMITTED row, or it would be counted twice, and a row must have a counter,
  or a baseline could be written under it. `LedgerInv` adds both (`CommittingIsPending`,
  `RowsHaveCounter`).
* `NeverOverLimit`: `Spec => LimitRespected`. Only `Reserve` can make the claims of a period grow;
  `AdmittedSum` splits the claims after it into the committed rows, which by `CountedOnce` are the
  counter, the live holds, and the new share — the very sum that `reserve()` compared.
* `NeverOverbooked`: `Spec => []NoOverbooking`, from both.

Its first part proves what they need about sums: empty, singleton, disjoint union, congruence,
monotony. A sum is the cardinality of the set of the single units its rows stand for, so that the
library's theorems on finite sets apply and no induction is needed.

* `LedgerKeepsPromise`: `Spec => KeepsPromise`, the refinement.

For the refinement, a key holds a
share while its row is RESERVED, or while a commit that read it so has not written; it has used it once
the row is COMMITTED. Four lemmas say what is enough for a step of `QuotaPromise` over the ledger's own
variables, and each action is brought to one of them: `Reserve` to an admission together with the holds
that lapse in the same statement, `CommitWrite` to the use of a share, releases, sweeps and aborted
commits to shares given back, and the rest to a change of configuration at most. `CountedOnce` is
needed again: the limit is promised over shares, and compared by the code with a counter.

* `AlertsAreSound`: `Spec => []AlertsSound`, and `SnapshotsAreSound`: `Spec => []SnapshotsSound`, both
  from `UsageOnlyGrows`: no step lowers a counter. For a snapshot, the usage that a pass has loaded and
  not yet written must have been reached (`ReadIsReached`).

`EventMeteringProofs` proves, for any number of requests on any keys (from `CallsAssumption` as well):

* `MeteringUsesLedger`: `MeterSpec => UsesLedger`, so all of the above holds of metered requests. A step
  of a call is a step of the ledger because its `now` is never ahead of the clock (`ArrivedBefore`).
* `CountsWhatIsRecorded`: `MeterSpec => []CountedIsRecorded`, over any number of periods and changes of the
  reset. `Recorded` adds that a call that commits, and the row under the lock, are of an event on record,
  that a hold is of one unit, and that the period of a row, like that of an event, is that of some call
  `reserve()` admitted: if the two differ, those two calls straddle. The counter of a period is then the
  number of its committed rows, each of which has an event there or straddles.
* `AloneIsCounted`: `MeterSpec => []ServedIsCounted`. `ServedAt` follows a call alone on its key from before
  its hold to its answer: as long as the hold has not lapsed, the row is as the call left it. `OneWriter`
  says that the commit under way is that of the one call which writes.

`SeatMeteringProofs` proves, for any finite sets of users and requests (from `RequestsAssumption` and
`SeatLimitAssumption`: keys are those of the requests and users, a user is created once and had no seat,
the limit is in force and the organization starts within it):

* `CountersCoverSeats`: `SeatSpec => []SeatsAreCovered`.
* `SeatsStayWithinLimit`: `SeatSpec => []SeatsWithinLimit`.

Neither is inductive. Under both is `SeatInv`, which speaks of two sets of users instead of the sum: the
users with a seat for which no hold stands (`Bare`) are at most as many as the counter says
(`BareIsCounted`), and the users with a seat or a hold (`Claimants`) at most as many as the limit
(`ClaimsWithinLimit`). `HoldsAreOwn` says that a call which has a hold has it alone, and that its user
has no seat before it saved. A commit then takes one user's hold and adds one to the counter; a
`synchronize` writes the number of users with a seat, never less than the bare ones. All of it is as
long as `leaks` is empty: each way of taking a seat without a check is recorded there by the action of
the code that does it.

`AuthorizationProofs` proves, for any sets of members, roles, permissions, requests and resolutions
(from `AuthorizationAssumption` and `NoneIsNoRequest` of `Authorization`):

* `TypeCorrect`: `Spec => []TypeOK`, whose last part says that a grant has its role and permission.
* `ServesWhatIsGranted`: `Spec => []ServedIsGranted`. It says nothing of resolutions under way, nor
  of a membership that cannot be resolved at the moment, so it is not inductive. `EntriesAreCurrent`
  extends it to every membership with a role; `ReadersAreCurrent` adds that a resolution has read no
  version from the future, and, if it read the current one, the role still held or since deleted.
  Actions that write a version need one lemma, `BumpClears`: no entry is left, and whoever is still
  reading has read an older version. The work is in those that do not: a created permission is
  granted to nobody, and a deleted role is held by nobody afterwards.
* `ReplacesExactly`: `Spec => ReplacedExactly`. As long as nobody has granted to the role since a
  replacement selected what to delete, it has selected all there is (`SelectedUnlessRaced`); every
  grant to a role marks the replacements of that role under way (`GrantMarks`).

`SessionsProofs` proves, for any sets of sessions and calls and any number of passwords (from
`SessionsAssumption` and `NoneIsNoRow` of `Sessions`; the second says that the value for “no row”
is no row):

* `TypeCorrect`: `Spec => []TypeOK`.
* `OneLive`: `Spec => []OneLivePerLogin`. A rotation may still succeed with a session that expires
  meanwhile, so the invariant (`ChainInv`) is about rows that are open, not only live:
  `OneOpenPerLogin`. `ChainStep` says what any step may do to a row, and that a row it opens succeeds
  one it ends, or begins a login; it is proved once per action.
* `EndsOnce`: `Spec => EndedIsFinal`, from the same steps: a row that has ended stays as it is.
* `FormerEnds`: `Spec => []FormerPasswordEnds`. The property follows a session only as far as it is
  on record; what calls under way will end or open makes it inductive: `NoneEscapes` (a session that
  is live while a change ends the old ones was seen by it, or is late), `OldLoginsAreLate` and
  `OldRotationsAreLate` (a login or refresh that still carries a former password ran across the
  revocation, or the change has not finished).

`SubscriptionsProofs` proves, for any organizations, plans, subscriptions and terms and any numbers
of administrators and of calls of `resolve()` (from `SubscriptionsAssumption` and `NoneIsNoRow`):

* `TypeCorrect`: `Spec => []TypeOK`, which includes that the dates of every subscription are in order.
* `OneIsCurrent`: `Spec => []OneCurrent`, from `UniqueCurrent`, the same row by row.
* `ServesWhatIsEntitled`: `Spec => []CachedIsCurrent`. `EntriesAreCurrent` says that an entry is the
  answer of the present rows at some instant before, and `ReadersAreCurrent` that a call whose version
  is still the present one has collected what the rows still say. `AnswersStep` is proved of every
  step of an administrator: an organization gets a new version, or is missed, or keeps all that its
  answer depends on. That the answer does not change by itself before `validUntil` is the lemma
  `Lasting`.
* `ClosedStays`: `Spec => ClosedUnlessRaced`.

and about the limits in force, for any limits and any number of resolutions (from `LimitsAssumption`):

* `EntitlementTypes`: `MCSpec => []MCTypeOK`.
* `AnswersWereInForce`: `MCSpec => []QuotaWasInForce`. A resolution reads five times, so what it will
  answer is not yet determined; `Completed` is what it would answer if the rows it has still to read stayed
  as they are. `Answerable` says that, unless it is mixed, this is a limit that was in force, and, unless it
  is stale, that what it has read is what the rows are (`AgreesNow`). A change of a row it has read leaves
  `Completed` alone; one of a row it has still to read makes it the limit in force now, if nothing it had
  read has changed before.
* `ChangesStayInOrder`: `MCSpec => ChangesAreInOrder`. `Selecting` says that the select of a change of a plan
  found the organization if it was a subscriber then; a commit that moves its limit either gives it a
  version, or it has subscribed since.

`OrganizationProofs` proves the properties of `Tenancy` and of the other modules about an organization,
for any users, organizations, roles, languages, domains, topics, zones, teams, providers and rows, and
any number of requests and calls under way (from `TenancyAssumption`, and the assumption of each module,
which `OrganizationAssumption` collects: bounds are numbers, rows refer to each other as in the first
state, `None` is no row). The numbers that `MCOrganization` itself writes down (changes by the
administrators, and the two users of the maintenance) are kept.

* `MembershipsStaySound`: `MCSpec => []MembershipsAreSound`. `MembershipInv` adds that a
  default is in the user's home organization, which is what makes it the only one, and that what a
  revocation is going to write over was a suspended membership when it was read.
* `LiveStaysProvisioned`: `Spec => []LiveIsProvisioned`, and `LifecycleIsRespected`:
  `Spec => LifecycleRespected`. `LifecycleInv` adds that a transition under way may do only
  what the lifecycle allows now, and activate only what is provisioned now (a write by anyone else to
  its organization makes its transaction fail), and that the account of an owner exists.
* `ConfigurationStaysConsistent`: `MCSpec => []ConfigurationIsConsistent`. For workspaces, `StillFits`: as
  long as no transaction wrote after another had written what it validated, what a call will write
  fits the rows as they are. For settings and domains, `Expects`: what a call under way may rely on about
  the row it read. For teams, `Accounts`: of the user's links, what a replacement under way has not
  deleted is what others have added since; and two replacements of one user exclude one another.
* `DecisionsAreKept`: `MCSpec => DecisionsStand`. `StillRead` and `StillPending` say what an update or
  adoption of a provider still has right of the row it read: the kinds of routes nobody has written
  since, and that a provider to adopt was without an organization unless two adoptions overlap.
* `CommandsStayTrue`: `MCSpec => []CommandsReportTruly`. The audit trail balances (`Balance`: a row added
  to the trail moves the numbers of grants and revocations together with the authorities), and a
  backfill has created all of its plan that is not left (`Filled`).
* `CommandsComplete`: `MCSpec => CommandsOnlyComplete`. An assignment that is not committed is of a
  membership still without a role (`Unassigned`), and no two commands have written the same one: the
  lock of the row is held until the commit.
* `AdmissionsHaveGrounds`: `MCSpec => []GuardsAdmitOnGrounds`, for any number of changes. `Standing` says of
  a request under way: unless it is mixed, if the rows it has still to read would let it in as they are,
  then rows that were good together are in the history (`Admissible`, `Together`); unless it is stale, what
  it has read is what the rows are (`AsRead`); and in any case each row it has passed was good at one moment
  of the history (`Passed`), from which the weaker half follows.

The proof of `DecisionsAreKept` found the history `fresh` of `SsoProviders` incomplete: an adoption writes
routes as well, and an update under way has to know. With the three changes of the run TLC could not
reach it; with a fourth, `UnnamedStays` would have been violated where the code does what it is expected
to. An adoption marks those updates now.

`AccessProofs` proves the properties of `PasswordLogin`, `LoginContext`, `Passkeys`, `SignOn` and
`ProfileMedia`, for any organizations, roles, sessions, keys, challenges, providers, users, states, tickets and objects, and any number
of calls under way (from `ContextAssumption` and the assumption of each module, which `AccessAssumption`
collects: bounds are numbers, an account is locked after at least one failure, `None` is no row and no
call).

* `LoginsStayKept`: `MCSpec => []LoginsAreKept`. `LoggingIn` says what a login may rely on: until it writes,
  and as long as nobody has written the counter since it read it (`stale`), the counter is what it read
  and the account is not locked. `Presented` says that the session a call was given is still on record,
  and that a refresh asks for the context of that session, which is what its successor gets.
* `LoginsStayGuarded`: `MCSpec => LoginsAreGuarded`. `Standing` is the argument of the guards above for a call
  that enters a context: what it would find in the rows still to be read, if it is not mixed, the user held
  at one moment of `seen`; what it has read is what the rows are, if it is not stale; and every row it has
  passed was good at one of those moments. From the last read to the new session, `Enters` stays as it
  is. A verification whose passkey nobody has written since (`stale`) has read its counter as it is.
* `OpeningsAreSingle`: `MCSpec => []EachOpensOnce`. For passkeys, `Verifying`: the challenge of a call that has
  read it has opened nothing yet, or only the passkey of that registration, and two calls with one
  challenge overlap. For sign-on, `SigningOn` and `Apart`: from the consumption of its state on, a login
  is the only one with it and no ticket is of it yet, so that no exception is needed; an exchange that is
  not shared is of a ticket that has opened nothing, and two exchanges of one ticket are known.
* `SignOnStaysWithin`: `MCSpec => SignOnRespectsAccess`. A SAML login writes a membership on what it read in an
  earlier statement: what `SigningOn` keeps of it is that a membership it has seen is still a row, which
  is enough because no write of a login touches its status. A deletion under way has been told of every
  identity its provider has (`since`).
* `MediaStaysKept`: `MCSpec => []MediaIsKept`. `UploadsInv` says of each object who is to delete it: the row
  that names it, a call, or nobody, and then it is in `leaked`; a call deletes no object that a row
  names but one of a write reported as failed. `BackupInv` follows the copy: what a dump names has been listed, or
  stored since, or is of a lost write, and what was stored and has gone since is `transient`.

Only model-checked: liveness (`EndedIsSnapshotted`, `OverdueIsFreed`, `CallIsAnswered`, `OutdatedLapses`), since
fairness and ENABLED are beyond the proof system. The theorems are about
the specification of a module; in a run that follows several modules, they are about the behaviours whose
focus it is. The bounds written in `MCOrganization` hold in its theorems too.

## 5. Not modelled

Left out because no property here depends on them: names, descriptions, profile fields, listings,
searches and filters; branding (one row, overwritten as a whole); redaction and export of audit
records; the team scope of listings; `lastAccessAt`; the account page and the preferences. Left out
because they change nothing: `FeatureGuard` (it passes on what the resolution in `Subscriptions`
answers), health probes, the OpenAPI document, exports, interceptors and filters, and the entitlement
and onboarding reports. Left out for lack of state: the migration scanner, manifests and checksums of
the backup tooling.

External, and modelled by what the code relies on: the cryptography of passwords, tokens, WebAuthn
and SAML, discovery documents and metadata, the parsing of assertions, what a DNS server answers.
Row-level security, isolation levels, unique and partial indexes and foreign keys are part of the
models as behaviour of PostgreSQL.

The entitlement maintenance and onboarding commands that write are not modelled yet; `PROJECT.json`
gives the status of each part.

## 6. Plan

Every part that keeps state of its own has a module. What would add most from here:

1. The onboarding and entitlement commands, beside `Tenancy` and `Subscriptions`, with their proofs.
2. An abstract specification of `Sessions`, and one of the two caches, as `QuotaPromise` is for the ledger,
   with the refinements.
