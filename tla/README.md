# config-hub: a TLA+ model

config-hub (Go, Echo, GORM on SQLite, robfig/cron) keeps subscription sources,
fetches the proxy nodes they list, and builds mihomo configurations from
profiles. This directory holds TLA+ modules of the parts where its correctness
is decided, TLC configurations that check them on small instances, and proofs
that TLAPS checks for every value of the constants.

    tlc -workers 2 -config MCSubscriptions_edits_alone.cfg MCSubscriptions
    tlapm SubscriptionsProofs.tla

## 1. Inventory

| Component | State | Operations | Talks to |
|---|---|---|---|
| Subscription handlers (`server/handler/subscription.go`) | tables `subscriptions`, `nodes` | create, update, delete, refresh | scheduler (direct call), fetcher, database |
| Cron scheduler (`service/cron.go`) | `cronJobs` under `cronMu`, the entries of robfig/cron | InitCron, ScheduleSubscription, UnscheduleSubscription, refreshSubByID in a goroutine per tick | fetcher, database |
| Fetcher (`service/sub_fetcher.go`, `ssrf_guard.go`) | none | FetchSubscription: up to three attempts, then parse | network |
| Profile handlers (`server/handler/profile.go`) | `profiles` and what belongs to one: groups, rules, tokens, links | create and delete (a transaction each), update, attach, detach | database |
| Subscription groups (`server/handler/subscription_group.go`) | `subscription_groups` and members | CRUD, add and remove members | database |
| Tokens (`server/handler/token.go`, `middleware/jwt.go`) | `tokens` | issue, revoke, look up | database |
| Subscription endpoint (`server/handler/sub_endpoint.go`) | a copy of the token row | look up, BuildConfig, render, save last use | builder, database |
| Configuration builder (`service/profile_builder.go`, `node_matcher.go`) | none; reads six tables | BuildConfig | database |
| Default data (`seed/*.go`) | constants | stored with each profile | |
| Validator, rule tester (`service/config_validator.go`, `rule_tester.go`) | none | ValidateConfig, TestRule | builder, database |
| Accounts (`server/handler/auth.go`, `auth_jwt.go`) | `users` | log in, register, change password, rename | database |
| Start-up (`main.go`, `seed/seed.go`, `seed/testdata.go`, `db/db.go`) | | open, migrate, seed, InitCron, serve | all |
| Node listing, routing, front end | none | read-only | |

What is hard here:

- **No handler locks or opens a transaction** (except CreateProfile and
  DeleteProfile). Each statement is a step and steps of different goroutines
  interleave. `cronMu` protects the map and the scheduler's entries only.
- **Read, work, save the whole row.** Every handler that changes a row reads it,
  works (a refresh fetches for seconds, the endpoint builds a configuration), and
  writes every column of its copy with `db.Save`. GORM's Save inserts the row when
  it is gone; inserting takes a false value of a `default:true` column for unset.
- **Ignored errors.** Deleting nodes, inserting a node and the last save of a
  refresh ignore what the database answers. `PRAGMA foreign_keys=ON` runs on one
  pooled connection (`db/db.go:32`), so a foreign key is enforced or not.
- **Crashes.** Jobs live in memory, rows on disk; a refresh has three or more
  statements and may be cut between any two; a start-up may fail or die half-way.
- **Timers.** robfig/cron starts a goroutine at every tick whether or not the last
  one is done, and a fetch may take three timeouts and two pauses.
- **Two reads of one thing.** BuildConfig preloads with a statement per table, and
  the validator judges one read and builds from another.
- **Names.** The configuration is a graph of names that several functions put
  together; a name that leads nowhere, or a loop, makes the client refuse it all.

The properties that make each component correct are those of section 3;
PROJECT.json lists the hazards line by line with the property that covers each.

## 2. Modules

| Module | Models |
|---|---|
| `Subscriptions` | subscription handlers and scheduler, together, as they share the rows and the jobs |
| `Registry`, `Schedule`, `SubscriptionsRefinement` | what these two promise together, in single steps, and how `Subscriptions` is seen as that |
| `Refreshes` | when the refreshes of a subscription run and how long they take: intervals, timers, attempts, pauses |
| `Profiles` | profile rows, tokens, and the endpoint that serves a profile |
| `Grants`, `ProfilesRefinement` | what the profile and token endpoints promise, in single steps, and how `Profiles` is seen as that |
| `Sources` | subscriptions, groups and profiles as rows, the links between them, and BuildConfig's reads of both |
| `Configs` | BuildConfig on one profile while other requests change it; the group and rule lists as operators |
| `Validations` | extends `Configs` with ValidateConfig, which uses the same BuildConfig |
| `Accounts` | the users table, sessions, and the start-up that seeds it |
| `MC...` | the values for TLC |
| `...Proofs` | theorems |

**Subscriptions.** `row` and `nodes` are tables, `cronJobs` the keys of the map,
`entries[s]` how many scheduler entries there are for `s`, `scheduler` which
`cronScheduler` was started last (`InitCron` makes another at each start-up; none if
it could not read the rows, and then nothing is `ticking`), `proc` the requests (`Clients`) and cron
goroutines (`Workers`) in flight with the copy of the row each holds, its fetched
batch and how many nodes it has stored. `life` and `acked` are history: whether an
id was handed out or deleted, and the settings last acknowledged. A handler is a
chain of actions, one per statement: `UpdateRead`, `UpdateSave`, `Reschedule`;
`DeleteNodes`, `DeleteRow`, `Unschedule`; `Fetch`, `ClearNodes`, `StoreNode` (one
per node), `SaveMeta`, shared by `RefreshSubscription` and `refreshSubByID`, which
send the same statements. `ScheduleSubscription` and `UnscheduleSubscription` are
atomic because `cronMu` makes them so. Settings other than `enabled` are one
value, of which some have a cron expression robfig/cron accepts (`ValidCron`).

**Registry.** Settings and job change in one step, `Replace` exchanges the nodes
at one blow, `Record` is allowed only while the nodes are there, a crash takes
nothing but nodes. `SubscriptionsRefinement` maps to it: a request that has
changed the row and not the job yet (`Rescheduling`) is seen with the job it
owes, a refresh that is storing (`Storing`) with all its nodes. A crash in the
middle of either is then a step of the registry: the restart schedules what the
rows ask for, and the nodes not yet stored are what `Crash` takes.

**Schedule.** What is left of the registry when refreshes overlap and statements
fail: settings and timers, without the nodes. `running` is `ticking`, `due` the
timers that run: those the client is owed while the scheduler was started, none
before (`StartUp`). Refreshes are invisible, however they end.

**Refreshes.** `formatDuration` translates the printing of hours, minutes and
seconds, with Go's rounding and an int64 of `2 * Half` values and `Nanos` units a
second; `Every` is what robfig/cron does with the text. `Second` is the clock: it
waits for what is due. An attempt is `FetchOnce`, `Retry` or `GiveUp`, and `left`
what remains of a timeout, a pause (`Backoff`) or the statements.

**Profiles.** `profile` is a row (`landing` stands for the flags with default
false, `fake_ip` for the one with default true), `seeded` its stored groups and
rules, `token` the tokens, `proc` the requests in flight, `wanted` what the
answered changes add up to. `SubTokenAuth`, `SubLookup`, `SubBuild`, `SubSave` are
the four steps of serving a configuration.

**Grants.** Each change is one step: a profile comes and goes with its defaults and
its tokens, an update changes the fields it names, and a token opens the profile
it was issued for until it is revoked or the profile is deleted. Being served,
failing and restarting change nothing. `ProfilesRefinement` maps `Profiles` to it
as far as the profiles in `AloneOn` go: `ListedSeen` and `OpensSeen` are read off
the token rows of these, and `IssueElsewhere` stands for the ids the others take.

**Sources.** `rows` holds the ids in the three tables, `links` the three join
tables. Save and Append insert a row that is gone (`RowSave`, `Append`), deleting
a group clears its members first and ignores the error, and a foreign key may or
may not be enforced (`MayFail`). A build reads links before the rows they name,
groups before members before direct subscriptions, as GORM preloads. `kept` and
`ever` are history, reset when a build begins: the links that held, both ends in
their tables, ever since, and the links that were there at some time.

**Configs.** The pure part translates `buildSelectorLists`, `buildProxyGroups`,
`buildCountryGroups`, `buildProxyGroupsFromDB` and the seeds into sets of groups,
each with the names it lists, whether it has include-all and which node names its
filter lets in (`CountryNames`, the names a country's pattern matches, is a constant
of its own: a name may match the patterns of two countries and is counted for one).
The state machine reads the profile in the order GORM preloads (`First`, `LoadProxyGroups`,
`LoadRules`, `LoadSubscriptionGroups`, `LoadSubscriptions`, `LoadNodes`), any of
which may fail (`ReadFails`), while the profile is updated, deleted, revived by a late save and attached to. `late` says
that a request that had read the profile before it was deleted wrote after that.

**Validations.** `phase` says what the read of `Configs` stands for: a client's
build, the validator's own read, which ends in `Judge`, or the build it asks for,
which ends in an answer, also where a statement of the build (`BuildFails`) or the
rendering (`BuiltForReport`) fails: the profile is then reported invalid. `steady` is
history: something was attached when the validation began, and since then nothing
was removed and nothing failed. Targets of rules are read as the
validator's `SplitN(text, ",", 3)` reads them.

**Accounts.** `user` is the table, `session` who holds a valid JWT, `up` how far
the process has come (`Boot`, `SeedRun` or `SeedSkips`, `InsertSampleData`), and
`seeds` how often the seeding transaction committed. `ChangePassword` and
`UpdateAccount` read the row, check, and save all of it. `wanted` is what the
answered changes add up to. A failed look-up of the sample subscription inserts
another one, as in the code (`seed/testdata.go:19`); that it is linked to the Default
profile, or is not when that look-up fails, is left out: the module has no profiles. `FixedSecret` says whether sessions survive a restart.

### How the modules fit together

`Subscriptions`, `Profiles`, `Sources` and `Configs` look at one database from
four sides, and each leaves to the others what its properties do not tell apart:
`Configs` takes any set of nodes where `Subscriptions` decides which there are and
any set of subscriptions where `Sources` decides which are found; `Refreshes` has
one subscription's time and no tables; `Sources` abstracts a row to being there.
`Validations` is composed with `Configs` by EXTENDS; the registry and the schedule
with `Subscriptions`, and the grants with `Profiles`, by INSTANCE ... WITH.

### The environment's assumptions

What may overlap is a constant, so that a run states under which conditions a
property holds rather than leaving it out:

- `OverlappingEdits`: the creates, updates or deletes that may overlap other
  requests on the same subscription (empty: an edit has it to itself).
- `RefreshesOverlap`: whether two refreshes of one subscription may overlap. They
  can, as robfig/cron does not wait for the run before; `NoPileUp` says when they
  do not: a period above `MaxDuration`, and nobody refreshing by hand.
- `AloneOn` (Profiles, Accounts): the profiles, or users, whose changes run one at
  a time. The others' overlap.
- `DbErrors`: whether any statement may fail. `Crashes`: whether the process may
  die at any point and start again; in `Profiles`, `Sources`, `Refreshes` and
  `Accounts` it always may.

Nothing in the code enforces the first three; the violation runs show what
happens without them. A create payload is taken not to name an id, and ids are
AUTOINCREMENT: one is used once.

## 3. Runs

All pass but the three marked, which find what section 5 describes.

| Run | Shows | Bounds |
|---|---|---|
| `edits_alone` | `TypeOK`, `CronAgreesWithRows`, `SettingsKept`, `KeepsSchedule` (the refinement), and `RefreshedForever` under fairness (unless timers are reset for ever) | 1 subscription, 2 requests and 1 cron run; refreshes overlap one another and a create, a valid and an invalid schedule, failing statements, start-ups that cannot read the rows, crashes |
| `all_overlap` | `NoLeakedEntry`, `DeletionIsFinal` | 2 requests and 1 cron run, all overlapping, failing statements, foreign keys, crashes |
| `no_loss` | `NoBatchTorn`, and `DeletedIsGone` with only deletions alone | 2 requests and 1 cron run; creates, updates and refreshes overlap, batches of two nodes |
| `serial` | `DeletedIsGone`, `RefreshReplacesNodes`, `KeepsPromise` (the refinement) | 2 subscriptions, one of them in a profile, two kinds of batches, crashes in mid-request and mid-refresh |
| `resurrected` (violation) | `DeletedIsGone` fails when a deletion overlaps a refresh | |
| `profiles` | `TypeOK`, `UpdatesAddUp`, `NoOrphans`, `RevocationIsFinal`, `ProfileDeletionIsFinal`, `ServedToHolders`, `KeepsGrants` (the refinement) | 2 profiles, changes of the first alone and of the second overlapping, 2 tokens, 2 requests, failing statements, restarts |
| `unrevoked` (violation) | `RevokedStaysRevoked` fails when a revocation overlaps a use | |
| `fake_ip` (violation) | `CreatedAsAsked` fails | |
| `build` | `TypeOK`, `NamesResolve`, `NoReferenceLoop`, `ServedWhole`, `DeadEndsForeseen`, `ValidIsServed`, `SteadyIsValid`, `OnlyOptionsWarned` | 2 subscriptions, 4 names, 4 countries, thresholds 0 and 2, all flags, every set of nodes, failing statements and a failing rendering |
| `sources` | `TypeOK`, `StayingSourcesServed`, `ServedSourcesAttached`, `SourceDeletionIsFinal` | 1 subscription, 1 group, 1 profile, 2 requests and a build, failing statements, restarts |
| `fetch` | `TypeOK`, `RunsAreBounded`, `NoPileUp`, `PeriodAsAsked`, and `RunsEnd` under fairness | 2 runs, timeout of 2 s and 1 s to store, eight intervals of 4 to 8200 s, 16-bit durations of 8 units a second |
| `accounts` | `TypeOK`, `AccountsAddUp`, `ServesSeeded`, `PasswordsRetire` | 2 users, changes of the first alone and of the second overlapping, 3 names, 2 passwords, 2 requests, failing statements, crashes |

Why the bounds are enough. Every race of section 1 needs two goroutines on one
row, three where a deletion, an update and a refresh meet; steps on different
subscriptions touch different rows and the map under its lock, and `serial` has
two of them. Ids of fetched batches are taken again when nothing remembers them,
so refreshes go on without a bound and no run has a limit on its length. In
`build` a node can be in a listed country, a landing node, a cheap node or none,
one name matches the patterns of two countries, each country of the conditional lists is there, and a threshold of 2 has countries
below and at it (one name in two subscriptions counts twice, as in the code).
`NoBatchTorn` is checked without crashes and failing statements: either of them
does tear a batch, until the next refresh, which is what `serial` is about.
In `sources` each kind of link and of row is there, and a subscription can be
attached both ways; what more of them do is left to the proofs, as are two
subscriptions with overlaps and longer batches. In `fetch` the intervals are
one that is ignored, one shorter and one longer than a run (10 s at most), one of
minutes, one of hours, the longest that fits and two that wrap, to a negative and
to a positive duration; `Nanos` and `Half` are small so that TLC's integers hold
them, and the proofs leave them open (10^9 and 2^63 in the code). In `accounts`
three names give a free one, the default one and one to collide with. There
`FixedSecret` is TRUE because `Expire` can end every session: a random secret adds
no behaviour. `sample`, `session` and `up` have every value.

Fairness. `Subscriptions!FairSpec`: a goroutine that can take a step takes it (the
Go scheduler and SQLite's busy handling), and the timer of an entry fires unless it
is reset again and again: each update and deletion takes the entry away or puts it
in anew (`cron.go:46-67`), and each start-up makes another scheduler, so the wait of
`@every` begins again (`TimerReset`). Edits or restarts that come faster than the
interval do starve a refresh, and `RefreshedForever` says so: a subscription that
stays enabled is refreshed again and again, or its timer is reset again and again.
What it excludes is that a refresh ends for good after finitely many edits, failed
fetches, failed statements and restarts. Where the timer is left alone it is strongly
fair, as a tick is disabled while an edit runs alone (`OverlappingEdits` empty) or the
only worker is busy: a tick every interval falls outside some of these. Clients owe
nothing. `Refreshes!FairSpec`: time goes
on, a timer that is due fires, and a run goes on, each weakly fair. The source
owes nothing: it is the client's timeout (`left`) that ends an attempt, and the
mutant of `RunsEnd` removes that end from the third one.

Each property has a mutant in PROJECT.json: a definition changed as a plausible
bug would change it (defined just before it, marked `Mutant`), which breaks it.

## 4. Theorems

For all values of the constants: any number of subscriptions, profiles, users,
requests, cron runs, nodes, countries, any timeouts and widths. Assumptions are
the named ASSUME of each module.

| Theorem | Under | Establishes |
|---|---|---|
| `SubscriptionsProofs!TypeCorrect`, `EntriesNeverLeak`, `DeletionsAreFinal` | nothing | `TypeOK`, `NoLeakedEntry`, `DeletionIsFinal` |
| `SubscriptionsEditsProofs!CronAgrees`, `SettingsAreKept` | `OverlappingEdits \subseteq {"create"}` | `CronAgreesWithRows`, `SettingsKept`, even when statements fail |
| `SubscriptionsEditsProofs!DueIsTimedOnce` | the same | one timer for each subscription that is to be refreshed, none for others |
| `SubscriptionsRefinementProofs!ImplementsSchedule` | the same | `KeepsSchedule` |
| `SubscriptionsEditsProofs!DeletedRowsStayGone` | `"delete" \notin OverlappingEdits` | the part of `DeletedIsGone` about row and job, even when statements fail |
| `SubscriptionsEditsProofs!DeletedStaysGone` | and `DbErrors = FALSE` | `DeletedIsGone` |
| `SubscriptionsEditsProofs!BatchesAreNeverTorn` | `Mixing`: and `Crashes = FALSE`, `Attached = {}`, each fetch names a node | `NoBatchTorn` |
| `SubscriptionsRefinementProofs!ImplementsRegistry`, `RefreshesReplaceNodes` | `Serial`: `OverlappingEdits = {}`, `RefreshesOverlap = FALSE`, `DbErrors = FALSE` | `KeepsPromise`, `RefreshReplacesNodes` |
| `ProfilesProofs!TypeCorrect`, `RevocationsAreFinal`, `ProfileDeletionsAreFinal` | nothing | `TypeOK`, `RevocationIsFinal`, `ProfileDeletionIsFinal` |
| `ProfilesProofs!PartialUpdatesAddUp`, `NothingIsOrphaned`, `OnlyHoldersAreServed` | for profiles in `AloneOn` | `UpdatesAddUp`, `NoOrphans`, `ServedToHolders` |
| `ProfilesProofs!ImplementsGrants`, `EndsStayFinal` | for profiles in `AloneOn` | `KeepsGrants`; from it `Grants!EndsAreFinal`: what is revoked or deleted stays so |
| `ConfigsProofs!TypeCorrect`, `EveryNameResolves`, `NoGroupLoops`, `DeadEndsAreForeseen`, `ServedWholeAlways` | nothing | `TypeOK`, `NamesResolve`, `NoReferenceLoop`, `DeadEndsForeseen`, `ServedWhole` |
| `ConfigsProofs!SteadyProfilesAreValid`, `ValidProfilesAreServed`, `OnlyOptionsAreWarnedOf`, `ValidationsDisturbNothing` | `ValSpec` | `SteadyIsValid`, `ValidIsServed`, `OnlyOptionsWarned`; the four above with validations running |
| `SourcesProofs!TypeCorrect`, `DeletionsAreFinal`, `StayingSourcesAreServed`, `ServedSourcesWereAttached` | nothing | `TypeOK`, `SourceDeletionIsFinal`, `StayingSourcesServed`, `ServedSourcesAttached` |
| `RefreshesProofs!TypeCorrect`, `RunsAreShort`, `RunsNeverPileUp`, `PeriodsAreAsAsked` | nothing | `TypeOK`, `RunsAreBounded`, `NoPileUp`, `PeriodAsAsked` |
| `AccountsProofs!TypeCorrect`, `ServedDataIsSeeded`, `RetiredPasswordsStayOut` | nothing | `TypeOK`, `ServesSeeded`, `PasswordsRetire` |
| `AccountsProofs!AnsweredChangesAddUp` | for users in `AloneOn` | `AccountsAddUp` |

The arguments:

- `SubscriptionsProofs!BaseInv`: types, what a request carries at each point of
  its handler, only used ids have a row or a job, and `NoLeakedEntry`, which type
  correctness needs: Remove takes one from `entries`, which must not be zero.
- `SubscriptionsEditsProofs!EditInv`: a subscription being updated or deleted has
  one request; the copy a handler goes on with has the settings of the row; between
  its change of the row and its change of the job a request owes the job, otherwise
  jobs and rows agree. Refreshes overlap one another and a create freely: their
  copies differ in what was fetched and not in the settings, which is why a stale
  save does no harm here. `ImplementsSchedule` needs no more than this: with what is
  owed the timers are at every point those the rows call for.
- `SubscriptionsEditsProofs!GoneInv`: a handler that goes on with a copy finds its
  row there, so no save inserts one, and a job without a row is owed to the
  deletion that is about to take it. That deletions run alone is enough: updates
  that overlap mix settings and never bring back what is gone.
- `SubscriptionsEditsProofs!BatchInv`: the refresh that cleared the table last
  has all it has stored so far in it, and when it ends these are all its nodes, so
  at each point either no refresh was recorded, or one is storing whose nodes are
  all there, or the whole batch of one that ended is there. Only a deletion breaks
  that, and it is alone and not refused: `Attached = {}` is needed, as are
  deletions and inserts that do not fail.
- `SubscriptionsRefinementProofs!SerialInv`: no two requests are on one
  subscription, the copy of each is the row, and a refresh that is storing has
  stored the first nodes of its batch and no others are left. From it, each action
  is mapped to a step of the registry or to none.
- `ProfilesProofs!BaseInv`: what a request carries; a token that is used was
  issued. `AloneInv`: what a handler read of a profile in `AloneOn` still holds
  when it writes. `TokenInv`: a request past its look-up of a token of such a
  profile holds the token row as it is, revoked or not, so the save of its last use
  changes only that; `ServedToHolders` and the refinement follow.
- `ConfigsProofs`: that each list names only groups that are built is a lemma per
  list, from what the flags and the filtered countries have in common, and one for
  the stored groups. `NoReferenceLoop` follows from ranks: the lowest
  groups (country, landing, low-cost, manual) list nodes and builtins only, the
  automatic ones and the front proxy these too, the selector all of them, and the
  rest the selector. For `DeadEndsForeseen` a lemma per group finds a
  choice that leads on, or what the nodes lack for it, and the ranks again bound how
  far away the node or builtin at the end is. `WholeInv`: as the groups are read before the rules
  and the links last, a build that saw no groups finds no links and fails.
  `SteadyInv`: whatever reads have been made since the validation began found what
  was attached then, as nothing was removed, and no answer says invalid but after
  a failure. `ReportInv`: there is no report while
  a read is under way, and a report that finds the profile valid came with the
  last read of the build, which returns a configuration. `OnlyOptionsWarned`: the
  stored rules name builtins and stored groups, so what is undefined was read
  together with an option.
- `SourcesProofs!BuildInv`: a link in `kept` has been found by the statement that
  was to find it, and a link that was found is in `ever`. That a preload reads the
  links first and the rows later does no harm, as `kept` asks for both.
- `RefreshesProofs!TimeInv`: what a run may still take and its age add up to at
  most `MaxDuration`, and while the period is longer than that, what it may still
  take is less than the time to the next tick. The period: what fits is not
  wrapped, and dividing what was multiplied gives it back.
- `AccountsProofs!SeedInv`: the seed went in once or there is no user, and user 1
  was its row; the transaction makes this inductive through every crash.
  `AloneInv`: the copy of a request in `AloneOn` is the row. `PasswordsRetire`:
  only a request that carries a password can write it.

Model-checked only: `RefreshedForever` and `RunsEnd`, as liveness is out of the
prover's reach; `DueIsTimedOnce` and `RunsAreShort` are what they rest on. Every
other property of a passing run is a theorem.

## 5. What the violation runs found

- `resurrected`: a refresh that overlaps a deletion inserts the row again
  (`service/cron.go:156`, against `docs/API.md:280`).
- `unrevoked`: the save of last_used_at takes a revocation back
  (`sub_endpoint.go:61`, against `docs/API.md:794`).
- `fake_ip`: a profile cannot be created with `fake_ip` false (against
  `docs/API.md:506`). The defaults that the same table promises for fields left out
  of the request differ as well and have no run, as one constant decides each:
  `group_type` (`API.md:501` says 1, `model/profile.go:9` 0), `keep_alive`
  (`API.md:505` true, `profile.go:14` false), `quic` (`API.md:507` true,
  `profile.go:16` false).

Two more have the cause of `resurrected` and no run of their own. With
`OverlappingEdits = {"create", "update"}` in `MCSubscriptions_edits_alone.cfg`,
`CronAgreesWithRows` fails: a refresh that overlaps an update writes the old
settings back while the job follows the update (against
`docs/ARCHITECTURE.md:94`). With `RefreshesOverlap = TRUE` and two requests in
`MCSubscriptions_serial.cfg`, `RefreshReplacesNodes` fails: two overlapping
refreshes leave nodes of both, or fewer than one reports (against
`docs/API.md:306`).

Modelled, and not as documented: 新浪微博 (`Weibo`) is stored with a list and with
include-all, and the list is dropped (`profile_builder.go:588`), so it does not offer
DIRECT first (`docs/SEED_DATA.md:106`), and without nodes it offers nothing.
`DeadEndsForeseen` names it among the groups that may lead nowhere: Manual, Select
and Weibo without any node; a country, the cheap and the landing nodes when no node
is let in by the filter; Auto and Fallback when the groups they list are such. Where
BuildConfig makes the groups itself, for a profile without stored ones, a country
whose nodes are all landing nodes is one in regex mode: the threshold counts them
and the exclude-filter leaves them out. The groups of the
services always lead to DIRECT.

Modelled and undocumented: an interval beyond 2^63 ns is refreshed at another
period, every second if it wraps to a negative one; the validator warns of the three stored rules with
`,no-resolve`; a password change does not end sessions; a group whose deletion is
refused has lost its members, and a subscription whose deletion is refused its
nodes; a scheduler whose start-up read failed never ticks.

## 6. Not modelled

- TestRule: one read of a profile's rules and a match of text against them. It
  changes nothing, and what it decides is about strings, which the model has none
  of.
- DNS, TUN, rule providers and YAML rendering (data that is copied); the order of
  lists and of groups; which name matches which pattern (`CountryOf`, `CountryNames`,
  `LandingNames`, `LowCostNames` are constants); parsing of what was fetched.
- Hashing of tokens and passwords; the address check of the fetcher.
- The link of the sample subscription to the Default profile (`testdata.go:60-70`).
- BackfillGroupIcons (icons only) and the migration of the schema.
- Node listing, routes, the front end: nothing that changes state.
- A node whose stored JSON does not parse is as one that is not there. Two nodes
  of one subscription with the same name are not told apart.

## 7. State of the plan

Done: the core (`Subscriptions`, `Profiles`, `Configs`), then `Sources`, the
refinements of the registry, the schedule and the grants, `Refreshes`,
`Validations` and `Accounts`, each with its runs and its theorems. Left, in order of worth:

1. A composition of `Sources` with `Subscriptions`: a subscription that Append
   revives has a row and no job, which `Subscriptions` knows only from refreshes.
2. `TestRule`, with rules as records of a kind, a set of inputs and a target.
