# A verification project for pico-engine

TLA+ models of the parts of pico-engine in which concurrency, time, failure and
order make the difference, TLC runs that check them on small instances, and
TLAPS proofs of what matters most for every instance. Definitions carry the
names of the functions, rules and variables they model; `PROJECT.json` maps
every definition to its lines.

## 1. Inventory

A pico is a persistent actor: entity variables per installed KRL ruleset,
channels (ECIs) that others address it by, children, and one queue of
transactions (events and queries). `pico-framework`, an npm dependency that is
not part of the repository, runs these queues; `pico-engine-core` adds KRL, and
`pico-engine` adds the process, HTTP, accounts, identities and system rulesets.
JavaScript runs one continuation at a time, so the unit of interleaving is the
code between two `await`s; a pico's transactions exclude each other, but timers,
HTTP calls, flushes and imports run outside them.

| component (sources) | state | operations | interacts with | what makes it hard, and what must hold |
|---|---|---|---|---|
| **Scheduler** (`core/modules/schedule.ts`) | futures, one timer, cron handles, two indexes; `_schedule` entity variable per pico | `at`, `repeat`, `remove`, `clear`, due handlers, start-up, pico deletion, reload after import | pico queues (raises events), database, subtree import | handlers run outside transactions and write back what they read; the timer is shared; the process dies between put and raise. *The timer is the earliest; a job runs at most once per life; indexes agree; what is dropped stops.* |
| **Ruleset registry** (`core/RulesetRegistry.ts`, `moduleDependencies.ts`, `RulesetRegistryLoaderFs.ts`) | cache by URL, database of sources | `load`, `flush`, `registerInline` | loader, every pico that has the ruleset | calls overlap; save and cache update are two steps. *The database is closed under module use; cache = database; no cycles.* |
| **Module use** (`core/CorePico.ts`, `ctx:install`, `ctx:uninstall`) | bindings per user, the shared `moduleInitStack` | `use`, `unUse`, `onRulesetLoaded`, install, uninstall, start-up | registry, framework | initialisations of one pico share a stack across `await`s. *The stack is balanced; no binding dangles; bindings are current.* |
| **Relationships** (`krl/io.picolabs.subscription.krl`, `event:send`) | `outbound`, `inbound`, `established`, Rx channels | request, approve, auto-accept, withdraw, reject, cancel, cancel all | the other pico, over queues or HTTP | every message is sent once; ends cross approvals; crashes and losses. *One bus per channel; both sides agree when nothing is under way; no relationship without approval, none after its end.* |
| **Subtree import** (`core/subtreeState.ts`, `eciRemap.ts`, `subtreeWrangler.ts`) | map of new identifiers, the new picos' variables | create child, hydrate, put variables, stabilise, sync display | wrangler, UI ruleset, scheduler | the new picos' own bootstrap runs at the same time and writes the same variables. *References are rewritten; parents know their children.* |
| **Engine core: schema notification** (`PicoEngineCore.ts`, `schemaNotify.ts`, `ctx:install`, `ctx:uninstall`, `ctx:flush`) | single slots `ctxFlushPicoId`, `flushSchemaSnapshots` | install, uninstall, flush, notifications a turn of the event loop later | registry, all picos | overlapping flushes overwrite the slots. *Every pico whose schema changed is told, unless the notice is lost.* |
| **Portable move** (`identity/portableMove.ts`, `portableExportPrepare.ts`, `skyRotation.ts`, ...) | lists and records of donor, copy and peer | export with upgrade to DIDs, import, relocation, notices | subtree import, identity, relationships | lists of running picos are read and written back around many awaits. *Nothing is lost; the copy is connected; peers follow.* |
| **Layer 2 relationships** (`identity/establishSubscription.ts`, `skyIntro.ts`, `crossPico.ts`, and the rules of the subscription ruleset for DIDs) | records with a pairwise DID beside the rules' lists | introduction, response, removal, as events that the sender waits for | relationships, queues of both picos | two picos wait for each other; a request fails after it was handled. *Both sides agree; a bus lacks its record only between the two writes; transactions end.* |
| **Accounts** (`auth/AuthService.ts`) | accounts, passkeys, sessions, invites, challenges | register, claim, log in, add and remove passkeys | database, provisioning | check and act on both sides of awaits; a crash between account and passkey. *One admission per ground; a passkey to log in with; deleted stays deleted.* |
| **OAuth** (`oauth/acg.ts`, `OAuthService.ts`) | apps, codes, tokens, channel secrets | authorise, exchange, refresh, revoke, rotate a secret | accounts | every record is read, deleted and stored by a call of its own. *One pair of tokens per consent; revoked means no tokens.* |
| **Families of picos** (`krl/io.picolabs.wrangler.krl`, `io.picolabs.pico-engine-ui.krl`) | `ent:parent_eci`, `ent:child_ui_ecis`, `ent:parent_ui_eci`, ... | create and delete children, `children()`, rules on `engine:started` | every pico's queue | a child is made in several transactions of two picos; asking up meets asking down; crashes. *Parent and child know each other; requests are served; no queue stops.* |
| **KRL parser and generator** (`krl-parser/src/krl.ts`, `tdop.ts`, `krl-generator/src/g`) | none | parse, generate | compiler | levels of operators; parentheses are not in the tree. *A program is read as written; formatting keeps its meaning.* |
| Identity service (`identity/*`) otherwise | keys, DID documents, DIDComm routes | rotate, route, resolve | all of the above | partly behind the two models that use it |
| Process (`index.ts`, `levelDb.ts`, `server.ts`) | database handle, HTTP server | start, shut down | all | I/O |
| Compiler, library, other rulesets, UI | none | translation, pure functions, browser | | |

`PROJECT.json` lists them with their status, and under `hazards` every place
found where the code can go wrong in a way a test would hardly reach, with the
property that covers it or the reason that none does.

## 2. Plan

Order: what every user depends on and what has the most interleavings first.

1. `Scheduler` - done, all its invariants proved.
2. `RulesetRegistry`, and on top of it `ModuleUse` (extends it) - done, all their
   invariants proved.
3. `Relationship` (abstract) and `Subscription`, which implements it - done, the
   invariants and the refinement proved.
4. `SubtreeImport` - done, its invariants proved.
5. `Accounts` and `OAuth` - done, all their invariants proved.
6. `SkyRelationship`, which implements `Relationship` - done, the invariants and the
   refinement proved.
7. `PortableMove`, `SchemaNotify`, `Family` - done, all their invariants proved;
   `KrlParser` with `KrlGenerator` - done.
8. Not begun: moves of two subtrees at once, imports whose jobs belong to other
   picos of the subtree (`Scheduler` composed with `SubtreeImport`), the slot of
   `eventWait`, the library's asynchronous sort and aggregation windows, and the
   tokenizer of KRL.

Modules that are proved about use no RECURSIVE operator; a constant's assumption
is named in the module that declares it.

## 3. The modules and what their runs show

Every run passes: where the code cannot keep what one would wish for in every
case, the property names the cases, and section 6 says what happens in them. The
operators marked
"mutant" in the modules are plausible mistakes in a definition that follows
them, used to see that each property can fail.

### Scheduler

State and actions are those of `schedule.ts`; see the comments in the module.
`update`, `remove`, `addScheduledEvents` are methods as relations on the memory
(`mem`), which the actions combine. `AddRead`, `AddPut`, `AddArm` and
`ClearRead`, `ClearWrite` are the parts of an action of a rule between its
`await`s, `AtRead`, `AtWrite`, `AtRaise` those of a due handler.

It is the parent's transaction that deletes a pico, so `DeletePico` waits for
nothing that the pico itself is doing: not for its suspended `schedule` call, its due
handlers or the reload after its import. A deleted pico stays in `outliving`
until the process stops, since the transaction that it was in may go on, and make
further calls. `unseen` is a history variable: the entries in memory whose ECI could
not be looked up when they were armed (`addFuture`, `addCron`), which are in no index.
`raised` counts the events of this life, and `Crash` sets it to zero.

Abstractions. One ruleset per pico schedules. An ECI stands for the pico that
owns it. A job's id determines its attributes (cuids are fresh). Ticks of one
cron do not overlap with that cron's own handler; the number of events a cron
raises is not counted. `Remove`'s put and its removal from memory are one step,
and so are all the writes of an import: no other handler of the same pico
tells them apart. An imported pico schedules nothing before its reload; only
schedules whose events go to the exporting pico itself are exported.

- `sched`: two `at` jobs and one `repeat` job of one pico, due one after the other
  (both may be due when the timer runs), two picos, every operation; either one
  crash, or one export that is imported beside the original or into the other
  pico. Two jobs due together are the least that lets handlers overwrite each
  other; one crash shows start-up with and without stored jobs; the same ids in
  two picos are what the indexes cannot tell apart. `Bounded` in `MCScheduler` keeps
  the two apart: nothing crashes before or after an export, which is of `at` jobs and
  taken between the pico's own `schedule` calls, and after it nothing is removed by a rule.
  Deletions happen with and without an export, and at every point of a suspended call.
  `IndexesAgree` and `EveryFutureRuns` are stated for unique ids (`IdsAreUnique`), and
  `EveryFutureRuns` excepts what `onTime` strands (section 6).

Fairness (`Fairness`): time passes, the event loop runs what is due and resumes
what waits, start-up goes on. No user operation is fair, nor is a crash.

`OnceInv` is the invariant behind `AtMostOncePerLife`: an `at` entry in memory
either waits or is being handled, and has not been raised in this life; a job that this
life has not armed yet is not in memory. It does not hold with imports, where the same
id is armed in two picos; there the weaker `AtMostOncePerLife` is checked. `futures` is
a set: two futures of one id in one pico, which needs an import of ruleset state and
then a restart, would count as one, and that combination is outside `Bounded`.

Seen in the model: after a restart, deleting a
pico leaves its loaded jobs in memory, since nothing that start-up loads is
indexed, and so does a deletion between the put of `addToSchedule` and its arming (the
two cases of `unseen` that `DeletedPicoHasNoJobs` excepts); two due
handlers that overwrite each other put a job that has run back into the stored
schedule, so it runs again after a restart; a crash between a handler's put and its raise loses the event, one before the put repeats it; a
job scheduled between a handler's read and its put is lost from the stored
schedule and raises nothing; a cron whose tick falls between its loading and the
framework's start drops itself; jobs of an imported copy and of the original
cancel each other by id.

### RulesetRegistry

A call (`job`) walks `attempting`, `fetching`, `compiling`, `saving`, `saved`,
`loaded`. `raced` is a history variable: calls that met another one past
validation. It is the precondition under which `CacheIsSaved` and
`AcyclicUnlessRaced` hold, and not a guard: outside it the code really leaves
cache and database with different versions, or closes a cycle with two modules
that were validated against the same cache.

Abstractions. A URL stands for the rid it serves. `pMemoize` is not relied on:
it only merges calls within 100 ms. The compile generation is constant within a
life. The comparison of hashes is made where the source arrives. The `.js` file
per hash is left out.

- `registry`: three rulesets whose second versions close a ring, two calls at
  once, one restart: the least for a cycle of more than two modules, and for one
  call to overtake another. `RegistryInv` is the inductive invariant
  of the proofs.

### ModuleUse

Extends the registry with one pico. A thread is an initialisation in progress,
a stack of frames; `initStack` is the pico's one `moduleInitStack`. `disturbed`
is a history variable like `raced`: a `use` was refused, or was in progress when
another one began, a ruleset was cached or one was uninstalled. `StackIsUses`
holds without it.

Abstractions. One alias per module. A new version that is cached starts the
framework's re-initialisation and the refresh of the users in either order.
`uninstall` is one step after its check. Starting the pico is external code,
modelled from how the engine depends on it. Schema notifications are left out.
Known and not checked: a failed installation leaves bindings that block an
uninstallation; re-initialisation and refresh can refuse each other's modules.

- `module_use`: a chain of three once the middle one is updated, three threads
  (interchangeable, hence the symmetry), one call of the registry at a time.

### Subscription and Relationship

`Relationship` is what two picos may rely on: a side is `none`, `asked`,
`offered`, `established` or `ended`, an end is final, and whoever asked counts
as established only after another pico approved. `Subscription` is the rules:
an action is one transaction of a pico, that is an event with all it raises.
Lists are counted per relationship, as the rules' searches by Id would find
them. A repeated answer is in the model: `autoAccept` and the approval raise
what sends the approval four times.

`net[p][i]` holds the events under way to p about i. Events within an engine
arrive in order; those between engines are unawaited HTTP requests that may be
lost (`Lose`) or overtake each other (`Arrives`). `Crash` drops an engine's
queues. `upset` remembers the relationships that met a loss, an overtaking, or
a withdrawal that crossed the approval; the agreement of both sides holds
outside it, and `KeepsPromise` (the refinement) and `OneBusPerChannel` hold
always. `PromiseInv` says why: at most one request about a relationship is on its
way, and then only its sender has a channel; at most one pico has an inbound bus,
and nobody has approved; every answer on its way comes from the approver and goes
to another pico.

- `subscription`: three picos on two engines, one relationship, one crash. One
  identifier is enough: no rule but `cancel_all_subscriptions` touches two, and
  that one only takes each of them in turn.

Fairness: the oldest event under way is received (or lost). Nothing obliges a
pico to ask, approve or end.

Left out: `send_event_on_subs`, and a crash in the middle of a transaction. The
rules for Layer 2 relationships are in `SkyRelationship`.

### SubtreeImport

One pico per exported node, depth first. `createImportChild` has the code's two
ways: a parent in the middle of an event gets its child bootstrapped at once,
and hears of it when its queue gets there; otherwise the wrangler makes it, and
the child's own `pico_created` is still to run. `ref` says for each reference
in a pico's variables whether it names the old or the new object; `eciMap` holds
what the import can translate at that moment. `stabilizeImportEntFromExport`
writes everything a second time. `Throw` ends the import where it is; nothing is
rolled back.

Abstractions. A pico's exported channels count as one. The wait for a child's
queue to drain, which gives up after a number of rounds, is the wait for the
rulesets that its bootstrap installs. Identities, display names, layout and the
import into an existing child are left out, and nobody else creates children
under the new picos meanwhile.

- `subtree_import`: five picos in two branches of two, with references from each to
  all: ancestors, descendants, picos in an earlier and in a later branch. That the walk
  comes to its end is no property of the run: it is a walk over a finite tree.

### Accounts

A ceremony is its challenge while it is open and the verify handler that took it
afterwards; a handler goes from one awaited database call to the next, and
`Crash` or a failed call ends it anywhere. `deleting` is a `deleteCredential`
between its list and its `del`. What `Accounts` calls the ground of an admission is
an engine without accounts, or an invite. `history` remembers verify calls that
overlapped on the same ground, registrations that stopped halfway, deletions
that overlapped, and passkeys that a login had read when they were deleted: the
three properties hold outside these, and each of them says which it means.

Abstractions. WebAuthn's verification is the choice of a passkey; names, counters
and the lifetime of a challenge are left out, that of an invite is `expired`.
Reads that commute with everything up to the next access are merged.

- `accounts`: four ceremonies, three passkeys, one invite, two deletions at once, no
  self-signup, with and without a root that is older than the accounts. Three
  passkeys let two deletions overlap beside a login; four ceremonies are two
  registrations, a login and an enrolment. Members of a kind are interchangeable.

### OAuth

A `Mint` is a call of the token endpoint (code, refresh or client credentials); at
most one access and one refresh token come out of it and bear its name. A
`Revocation` is `revokeApp`, `DELETE` of a channel's secret, or its replacement. Both
go from one database call to the next and a crash may end them at each.
`history` holds the consents whose calls overlapped, and the mints that a
revocation could not reach, because they had read before it or it was cut off.

Abstractions. Tokens' lifetimes, scopes, PKCE and redirect addresses are left out,
except that codes expire at any moment; hashes stand for what they hash.

- `oauth`: one app, one code, three mints, two revocations at once, two secrets: a
  refresh of a refresh, and a revocation that meets another.

### SkyRelationship

The same `Relationship` between picos that address each other by DID. A transaction is
`txn[p]` with the events still to be sent and the pico that waits for it; a pico that
runs one queues the rest. Unlike the ECI-based rules, `ask` and `cancel` wait for the
other pico, inside a mesh by a call, between meshes by a request that may fail before
or after it was handled (`Fail` meets only the event that is waited for: nobody waits
for the others, so nobody sees them fail). `record[p][i]` is the identity service's
record of a relationship, `half` until it names the other's pairwise DID, written
outside the transactions (`linkRemotePeer`). A rule that throws ends its transaction.

A pico's bus (the rules' list) and its record are written apart, with awaits between:
`Ask` puts the bus and `establishSubscriptionIdentity` makes the record
(subscription.krl:436, establishSubscription.ts:97); a removal tears the record down
(`teardownSubscription`, in the rule's prelude), waits for `wrangler:deleteChannel`, and then
takes the bus out of its list (`splice`; 728, 731, 733 and the same for the other two lists).
`Between` names the transactions that are at such a place. `Throw` and `Crash` can end them
there, which `cut` remembers: that pico then has a bus without a record.
`RecordsMatchBuses` says that there is no other way to it. What such a bus meets later
is in the model too: its owner can no longer cancel it, because `crossPicoEvent` throws
without a record (`Throws`), and a response that finds it in `outbound()` gives it a
new record (`establish_layer2_subscription_identity`), with a DID the other side does
not know (`anew`).

Abstraction: within a mesh, where the other pico has no record, `crossPicoEvent` asks for
its inbound bus to find a channel; the answer is taken at once, though the query waits
in that pico's queue (`Reaches`, `Throws`).

- `sky`: two picos in one mesh and in two, two relationships, responses repeated
  once, one failed request, failed write or crash. Two relationships are needed for two
  requests in opposite directions; the repetition stands for the four responses, since
  after the second one nothing is left to change. `Requests` says who asks for which: the
  first relationship is asked for by the first pico, the second by either, which
  loses nothing, since the picos differ in nothing else. The invariant of the proofs,
  whose parts are the invariants here, was also checked with two failures (3.9 million
  states).

Fairness: a transaction goes on (weak), and a pico whose queue is not empty serves
it (strong: it is interrupted by the pico's own transactions, and the framework's
queue is first in, first out). `upset` are relationships met by a failure or by a
withdrawal that found its request approved. `TransactionsEnd` excepts picos that ask
or tell each other at the same time: each runs its own transaction until the
other has served its event, so both wait (docs/design/engine-hang-postmortem-2026-10.md
has it among its open points, and the test `skyIntro.ts` covers the approval, which
never waits).

### PortableMove

Per relationship of the subtree three ends: the donor, its copy and the peer. The
export reads lists, makes records and writes the lists back whole
(`ReadDonor`/`UpgradeDonor`, `ReadPeer`/`UpgradePeer`), reads variables and identities, the
import writes them, relocates the DIDs and tells the root's peers. Meanwhile peers
and donors end relationships and approve requests. `history.own` is what the picos'
own events made of each list: `KeepsLists` compares it with what is stored.

Abstractions. Identifiers, keys and logs are left out; awaits within
`upgradeEstablishedList` are merged, because a change that falls there counts as
`raced` whichever of them it meets. Relationships within the subtree are left out.

- `portable_move`: a root with two relationships and a part with one; a peer on the
  exporting engine that both know, one on the importing engine; every
  relationship by ECI, by DID, asked for or asked. A failure may end the move at any
  step, and a notice may fail.

### Family

All picos hang below `FirstRoot`, the pico that the engine starts with. A pico runs
one transaction at a time (`tx`) from its queue. `CreateChild`, `Bootstrap` and
`RememberChild` are the parent's transaction, which waits for the child's `Setup`; the
child then runs `pico_created` and two `box` events. Asking another pico means a
message in its queue and `waits`. `Crash` empties all queues and sends
`engine:started` to the first root, as `index.ts` does; requests from outside are
creation, both ways of deletion, `children()`, `engine:started` at any pico whose UI
channel is known (the channel's policy allows it) and `ready_for_deletion`.

Abstractions. Names, colours, positions, discovery channels, ceilings and the two
rulesets that a child installs are left out; the assignments of one rule are one
step. A deleted pico's queue and transaction are dropped (`pico-framework`).

- `family`: a root and two picos below it or one below the other, each made by a
  request, with two further requests or with one and a crash. The system stops when
  the requests are used up, so deadlock is not checked: `EveryTransactionEnds` is.

Fairness: each pico's queue is worked off. `known` after a crash: only the first
root repairs what it lacks, and a child it finds then is placed at the next start;
the property says so. `WaitsForParent` is the one wait that goes up
(`backfill_parent_ui_eci`); without a crash it never happens, because a child's first
box event precedes whatever its published channel may bring.

### SchemaNotify

`cached` is the registry's content, `known[p]` the schema that pico p was last told of.
A flush goes through `fetching` to the cache and then leaves an entry in
`immediates`; the notification takes `slot` (`ctxFlushPicoId`) and `snapshots` when it runs,
not when it was caused. `pMemoize` is in the model: calls within 100 ms share a run.
`Tell` may fail for any pico: one without a channel that allows
`engine:ruleset_set_changed` is skipped with a warning, and an error of the delivery is
swallowed (`schemaNotify.ts:87` and `:104`). `missed` are the picos that were not told
so, and those that were in the slot at somebody else's notification while they
lacked its news, until they are told something. `own` says that the next notification
is of the flush that took the slot, the one that may leave out the pico in it.

- `schema_notify`: two picos, two rulesets with three versions of which two have
  the same schema, two flushes under way, three calls, one new version. Kinds are
  interchangeable.

### KrlParser and KrlGenerator

`KrlParser` is the parser over tokens. A rule of the parser is an operator from the
text and a place to what it has read: the tree and the place behind it, 0 after a
throw. `Then`, `Past` and `Add` read one part after another; `expression` and
`eventExpression` are the two loops over binding powers, `nud` and `led` the rules they
call; the recursive descent below statements, rules and rulesets is one operator for
each function of `krl.ts`, with a further one for each loop. `KrlGenerator` extends it by
the generator, an operator from trees to tokens, and by the author of a program,
who writes it as short as can be or with everything that may stand: parentheses,
semicolons, last commas, `return`, `is active`, empty blocks (`Written`, the reference,
made from the levels of the operators and not from the parser's loop). A state is a
program that somebody wrote; no actions interleave. `Survives` says which trees keep
their meaning when they are formatted, exactly.

- `krl`: all expressions of two levels over one name, those of three levels where
  operators meet, event expressions of two levels with and without a condition; every
  statement, action, rule, meta property and ruleset with each of its optional parts
  present and absent, and with parts that begin and end in each way an expression
  can. Levels add nothing beyond three: a rule of the parser sees one operator to its
  left and one to its right.

Names stand for all identifiers and never spell a keyword; the id of a ruleset is one
name; literals are single tokens. The tokenizer, the inside of strings, chevrons and
regular expressions, comments and doc comments are left out. A tree with an empty
`every` in a rule is not tried: the generator writes nothing for it, which means the
same.

## 4. What is proved

For every set of picos, jobs, rulesets, calls, passkeys and so on, any bounds
included. Every module's proofs begin with its types (`TypeCorrect`, `UseTypeCorrect`,
`NotifyTypeCorrect`, `FamilyTypeCorrect`).

- `SchedulerProofs`: `TimerCorrect`, because every operation that changes the futures
  either re-arms the timer for the earliest of them (`update`) or disarms it;
  `AtMostOncePerLifeCorrect` for instances without imports, from `OnceInv`, one lemma
  per group of actions. `AtMostOncePerLife` alone is not inductive: it needs that an
  entry still in memory has not been raised in this life, that a handler excludes its
  future, and that a job that start-up or a suspended `schedule` call will arm is not
  in memory yet, so that what one life leaves in the database counts from zero in
  the next. `IndexesCorrect`, by `IndexInv`: as long as ids are unique, no id has
  two targets in the database, in memory or in what a suspended call has read.
  `DeletionCorrect`, by `CoverInv`: in every life each entry in memory is indexed
  under its pico or was armed unseen; a deletion may come at any time, also while the
  pico's own call is suspended. It assumes `OwnJobs` (a rule schedules events for its
  own pico) and `OneHandlePerId` (no import brings the id of a cron into memory a second time); without them the
  model itself says otherwise, since a second handle under one id is out of reach of
  every later removal. At-jobs are covered whether imported or not.
- `EngineCoreProofs`, of three modules. The registry: `DiskClosedCorrect`, because a
  call past validation has its modules saved and the database never loses any;
  `CacheIsSavedCorrect` and `UnracedCorrect`. The invariant, `RegistryInv`, says of
  calls past validation that their modules are saved; as long as no two such calls
  overlapped there is at most one, what it wrote is what the database holds, and
  adding its ruleset to the cached graph closes no cycle. Module use: `StackCorrect`,
  by `StackInv`: the uses in progress are finitely many, and whatever begins, ends or
  drops one changes the height of the stack by as much. `UsedCorrect` and
  `CurrentCorrect`, by `BindInv`: while nothing disturbs a use, one thread at most is
  inside one, the modules of its frames stay installed and cached, and a binding in
  another than the cached version is about to be made again by the outermost use of
  that thread. Schema notification: `ToldCorrect`, by `NewsInv`: for a pico that lacks
  news (`Stale`) and has missed none, a notification under way or a callback in
  `immediates` will find it changed. That the next callback may leave out the pico in
  the slot needs `OwnInv`, and that this pico is told by its own flush needs
  `CallInv`: the schema its flush began with is its schema until something new is
  cached.
- `SubscriptionProofs`: `OneBusCorrect`, `PromiseCorrect` and
  `PromiseKept`, the refinement `Spec => KeepsPromise`. None is inductive alone: that
  a request finds no channel at its receiver needs `RequestInv`, which an approval
  preserves because `InboundInv` rules out a request beside an inbound bus; that an
  end removes the only bus needs `OneBusPerChannel`; that the pico that asked counts
  as established only after an approval needs `AnswerInv`. The frames (`PlainInv` and
  the lemmas before it) say what every step leaves alone; each action is then one
  lemma about one pico and one relationship. Under the mapping `side`, `createRxBus` is
  `Ask`, `addInboundPendingSubscription` is `Hear`, an approval is `Approve`, the first
  answer is `Confirm` and the others stutter, and a removal is `End` or stutters.
  `AgreeCorrect` takes a relationship that is not upset. Its events are received in
  order (an event that overtakes an equal one might as well be the first), so the
  two sides determine what is on its way, up to repeated answers (`Phase`): the
  request while it is under way, nothing while it is pending, the answers once it is
  approved, and after these the withdrawal of whoever ended it. With
  nothing on its way the sides can only be equal.
- `AccountsProofs`: `StaysDeletedCorrect`, `KeepsPasskeyCorrect`, `AdmittedOnceCorrect`. The
  invariants say what a call may rely on between its read and its write: a passkey
  about to be stored is nobody else's, one about to be deleted was stored, the last
  one of an account is deleted by nobody unless two deletions crossed, and a call
  past the check of its ground is the only one on that ground.
- `OAuthProofs`: `OnePairCorrect`, `RevokedCorrect`, `SecretsCorrect`. For a consent on
  which calls did not overlap, `OnePair` says which tokens there are by the step of
  the one call that works on it; of a revoked app and of an old secret, every token
  is one that a revocation in progress will still come to, or is in `history`.

- `FamilyProofs`, of two modules. Families: `KnowsItsFamilyCorrect` and
  `RequestsServedCorrect`, from one invariant with a conjunct for each thing that the
  rules rely on. `TreeInv`: nobody is below its own child, stated by closed sets, so
  that a deletion takes neither the pico that deletes nor its parent. `QuestionInv`:
  of each pico at most one question is in a queue, and then it waits. `MakingInv`:
  until its parent has done with a pico in the making, the making alone fills its
  queue. `UiInv`, `KnownInv`, `PlacedInv` and `LayoutInv`: whatever a map of UI
  channels or a child still lacks, a message on its way or a transaction will bring,
  for the picos that no crash met and for the first root after one. `BornInv` and
  `LeavingInv`: what is promised of a child is a message in its parent's queue. At
  rest nothing is on its way, so nothing is lacking. `WaitsGoDown`: but for
  `backfill_parent_ui_eci`, whoever waits does so for its own child, and no pico waits
  for itself through others. `SomebodyGoesOn`: whoever is at work depends on a pico
  that can go on, or on one that waits for its parent, so that no standstill comes
  about but through that one rule. It follows from `AwaitInv` (whoever waits has its
  question in the queue of a live pico) and `FreeInv` (no closed set of picos consists
  of picos that wait for a child); `FreeInv` is inductive without an induction over
  the tree, because the child a new wait goes to heads a subtree that the asker is not
  in, and a closed part of it has a pico that does not wait. The two theorems are the
  safety half of `EveryTransactionEnds`. Subtree import: `UiCorrect`, because a
  child's event can add it nowhere but to its parent's display, which is never more
  than what the synchronisation writes; `RemappedCorrect`, by `WalkInv`, the
  depth-first order: a pico that exists has its line reached and the branches before
  its line done, a written one has its children done, and what is reached is in
  `eciMap`. `Above` is stated by closed sets, so that the induction along a line of
  the tree is an instance of its definition.

- `SkyRelationshipProofs`: `AgreeCorrect`, `RecordsCorrect` and `PromiseKept`, the
  refinement `Spec => KeepsPromise`, from `IInv`. `TypeInv` says of each transaction
  what its kind and step allow. `PairInv`: a relationship is between two picos, and
  whatever mentions it mentions these. `WaitInv`: each wait is for one event at one
  place of one queue, or for the approval that has begun with it, of the pico that the
  relationship names; so an answer ends exactly the wait of whoever asked. `TxnInv`,
  `ListInv` and `EventInv` relate buses, events and transactions whatever fails: who
  has approved, who may still get a response, which removals can be under way; the
  refinement needs no more. `RecordsCorrect` rests on them too: whoever is to write a
  record or a bus at `Between` is the transaction that began it, or it ended there and is in
  `cut`. `CalmInv` holds until a failure meets the relationship or
  a withdrawal its approval: then records follow the lists and the two sides agree but
  for what is still on its way.

- `PortableMoveProofs`: `ListsCorrect`, `ConnectedCorrect`, `FollowCorrect`, from one
  invariant of each relationship and one of the mover (`MoveInv`). `ListInv`: the list in
  the mover's hands is the one that the pico still has. `LinkInv`: while the export is at
  work both ends are by ECI, or by DID and linked, or the peer of an upgraded donor is
  still to be upgraded; so what is read after it is fit for the copy (`CopyInv`), down to
  the peer's record, by which the notice finds its receiver (`NoticeInv`).

The proofs assume the named assumptions on the constants and, where it is said
above, the named hypotheses. Two assumptions were written for the proofs, and TLC
evaluates both: no ceremony is called `Legacy`, the name that `Accounts` gives to what
is older than every account; and the exported picos are one tree (`TreeAssumption` of
`SubtreeImport`: the root is nobody's child, nobody has two parents), as the export,
which walks the `children` of each pico, finds them.

## 5. What is only model-checked

Liveness (`EveryFutureRuns`, `StaleCronStops`, `EndReachesBoth`,
`ApprovalReachesBoth`, `TransactionsEnd`, `EveryTransactionEnds`): TLAPS has
no support for fairness here. `KrlParser` and `KrlGenerator` are recursive and stay with
TLC. `TypeOK` of a module, which the runs do not list, is there for the proofs.

Distinct states and seconds of the runs (two workers): `sched` 214 152, 115;
`registry` 1.34 million, 50; `module_use` 477 000, 35; `subscription` 9 880, 7;
`subtree_import` 1 825, 4; `accounts` 513 000, 76; `oauth` 831 000, 51; `sky` 612 000, 162;
`portable_move` 5.05 million, 112; `krl` 148 930, 131; `schema_notify` 4.85 million,
138; `family` 167 102, 53.

## 6. What the code does that one might not expect

Found while the models were written; the properties except these cases by name.

Scheduler. `schedule:remove` stores `_.omit` of a Promise that nobody awaited
(`schedule.ts:302`), so the stored schedule is emptied. `onTime` runs what is due and
arms no timer for the rest (`schedule.ts:152`; `Stranded`). A pico that is deleted while its
`schedule:at` or `schedule:repeat` is suspended (`schedule.ts:223`) still arms the job, under
no pico (`unseen`).

Modules. Of several rulesets of a pico that use a module, `onRulesetLoaded`
refreshes the first only (`CorePico.ts:48`; `disturbed`).

Relationships. A withdrawal that crosses the approval leaves an established bus on
one side (`io.picolabs.subscription.krl:827` and `:784`). Between meshes, a rejection of a
pending Layer 2 request does not reach the asker, whose DID the receiver does not
know as a sender yet (`crossPico.ts:155`). The Rx channel that `createRxBusLayer2` makes
is replaced by the record's own and never deleted. A removal that fails between
`dido:teardownSubscription` and the list (krl:728 and :733) leaves a bus that its owner
cannot cancel any more (`crossPico.ts:124`; `Throws`).

Subtree import. Channels of later siblings are not rewritten in variables
(`subtreeState.ts:731`), and `parent_eci` is overwritten with the old parent's channel
(`subtreeState.ts:715`).

Portable move. `subscriptionEntSync.ts:85` puts every pending request that has a
record among the established ones of the copy, unlike the rules
(`io.picolabs.subscription.krl:99` and `:341`). Peers of picos below the root are not told
of a move (`portableMove.ts:98`), unlike docs/design/pico-move.md.
`refreshLocalPeersOfMovedRoot` gives an ECI bus the new channel and leaves `Tx_host`.

Accounts and OAuth. Two overlapping deletions can remove both passkeys
(`AuthService.ts:577`). MEMORY.md:1187 wants tokens revoked when the OAuth ruleset is
uninstalled; no code does. `revokeApp` again after an interruption answers 404.

Families. After a crash only the first root gets `engine:started`; children of other
picos that were half-made stay so: without UI channel, or named "Pico" and without
`parent_eci`, so that they cannot ask for their own deletion. With `engine:started`
sent by hand, `backfill_parent_ui_eci` of such a child and its parent's own wait for
it can stop both queues (`io.picolabs.pico-engine-ui.krl:369`).

Schema. A pico in `ctxFlushPicoId` at another flush's notification is not told
(`PicoEngineCore.ts:266`), unlike the comment at `schemaNotify.ts:137`.

KRL. The generator leaves out parentheses that are needed: the same operator on the
right (`a - (b - c)`, `InfixOperator.js:3`), operands of prefixes, conditions, members
and calls, `between` and `not between`, discriminants of `choose` (`ActionBlock.js:23`);
`notfired` without `fired` (`RulePostlude.js:20`); the end of a top-level statement, so
that `a; -b` becomes `a - b` (`index.js:68`); an empty action block before a `return`; doc
comments. krl-generator/README.md:8 calls it a pretty printer, and its test compares
files only. A newline in a string is written as an
escape that the parser does not read back (`String.js`).

## 7. What is not modelled

The components with status `not_modelled` in `PROJECT.json`, with the reason
there: the compiler, the library's pure functions, I/O and wiring, the browser
application, settings of single picos, access control, and what the plan names.

## 8. Running

In this directory, `tlc -config X.cfg M` for the pairs listed under `runs`, and
`tlapm M.tla` for the modules of proofs, those that end in `Proofs`.
