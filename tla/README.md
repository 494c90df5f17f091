# Egress rules: a TLA+ model of the service

The egress service owns two Postgres tables (rules and their attachments to
agents and environments), keeps an OpenZiti service for every rule with a public
destination and an OpenZiti dial policy for every attachment, and tells the
gateway when something changed. Every request is a sequence of calls to other
processes with no transaction around them, and a reconciler goroutine repairs
what such sequences leave behind. The model is about those sequences: what two
of them running at once, one of them cut short, or a reconciler pass working
from an old snapshot can do to the tables and to OpenZiti.

## 1. Inventory

| component | state | operations | hard behaviour |
| --- | --- | --- | --- |
| Store (`internal/store`, `migrations`) | `egress_rules`, `egress_rule_attachments` | one SQL statement per method | foreign key and unique indexes decide races; an INSERT may commit and still report an error |
| Provisioning (`provisioning.go`) | none of its own; ids stored in the rows name services and policies held by the OpenZiti controller | create (returning an existing one of the same name), get, update, delete, replace | ids go stale; `ReturnExisting` hands one policy to two callers; replace is delete, then create |
| Handlers (`service.go`) | locals of each request: rows read, ids obtained | create, update, delete a rule; attach, detach | read-modify-write of a whole row, check-then-act, partial failure, clean-up under a cancelled context |
| Reconciler (`reconciler.go`) | locals of a pass: two snapshots, ids found | a pass at start and at every tick | everything it acts on is stale; any error ends the pass; its sweeps delete from a list they are paging through; a rolling update runs two of them |
| Rule content (`service.go`, `private_targets.go`) | matcher, effect and TLS block of a row | merge the parts of a request over the row, check secrets and resource, store; count rules per secret and resource | what a rule names can go between the check and the store; parts that are not sent are stored all the same |
| Validation (`validation.go`) | none | normalise and check a request | a stored row is validated again with a later request; reserved names and blocks |
| Intercept collisions (`collisions.go`, `private_targets.go`) | none | reject an ambiguous attach, report in a pass | a check that is over before the attachment is stored, and many ways past it |
| Authorization (`authz.go`) | none | questions to the Authorization service | asked one by one, before the effect; which ones depends on the filters |
| Mediation (`private_targets.go`, `ListMediatedPrivateResources`) | a switch per private resource, held by the Networks service | count rules, set switch; list for Networks | two calls, so two handlers can leave the switch wrong |
| Notifications (`notifications.go`), lookups by agent and environment | none here; a cache in the egress gateway | publish after a change, best effort; list the rules of a target | events are late, lost and out of order, and an answer may be older than the event that was to drop it |
| Paging (`service.go`, `store.go`, `types.go`) | none | Get, List, Count | pages under concurrent changes, page-size edges |
| Configuration, start-up, migrations runner, protocol, charts | none | | no graceful stop: a stop is a crash |

How they interact: gRPC callers run handlers, each in its own goroutine; handlers
and the reconciler share no memory, only the tables and the controller. Networks,
Secrets and the gateway call back through internal RPCs; Authorization and Agents
are only asked; Notifications is written to and never read.

What makes each part correct:

- *Store and handlers.* To its clients the service is a catalog whose rules and
  attachments come, change and go one at a time (`RuleCatalog`). The kind of a
  rule's destination never changes and its service id fits it; every committed
  change is announced unless its request was cut short.
- *Provisioning.* A policy never opens its target's way to another rule's
  service, also when two processes overlap; a rule that stays keeps its service; a private rule owns none.
- *Reconciler.* However much its snapshots are outdated, a pass never deletes
  the service of a rule it knows, and pass after pass the controller is brought
  in line with the tables, also beside the pass of another process.
- *Rule content and validation.* What is stored is accepted again and stays as it
  is; an update touches only what it brings; secrets and resources that a rule
  names are there unless they went while the rule was being written.
- *Collisions.* The report of a pass is exact once nothing changes; a check
  refuses what it can see.
- *Authorization.* A change or a listing was allowed at some time since its
  request came in; an attachment stays inside one organization.
- *Mediation.* The switch settles on whether a rule names the resource.
- *Notifications.* A stale cache entry has an event that is still to come or was
  lost behind it, or was overtaken by one.

The hazards that these properties answer are listed, each at its line, in
`PROJECT.json`.

## 2. Modules

| module | models | extends |
| --- | --- | --- |
| `EgressStore` | the tables and SQL statements | |
| `ZitiManagement` | the controller as the client's calls see it (external) | `EgressStore` |
| `EgressServer` | the five mutating handlers, failures and crashes; properties of the handlers | `ZitiManagement` |
| `Reconciler` | the pass beside the handlers; convergence | `EgressServer` |
| `RuleCatalog` | abstract: what clients are promised | |
| `CatalogRefinement` | handlers and reconciler implement `RuleCatalog` | `Reconciler`, instance of `RuleCatalog` |
| `ReconcilerPair` | the passes of two processes beside the handlers | `EgressServer`, two instances of `Reconciler` |
| `OrphanSweep` | the sweeps page by page | |
| `Mediation` | the Networks pass (external) beside the handlers | `EgressServer` |
| `GatewayCache` | the gateway's cache and the events (external) beside the handlers | `EgressServer` |
| `Pagination` | the paged list RPCs against rows that come and go | |
| `Interception` | which hosts and ports a matcher catches, as this code computes it | |
| `Validation` | `validateRuleInput` and the references a rule holds, as operators | `Interception` |
| `RequestValidation` | a request validated, and what its readers rely on | `Validation` |
| `RuleContent` | creates and updates of a rule's parts beside Secrets and Networks | `Validation` |
| `InterceptCollisions` | attach checks, grants, moves and the report | `Interception` |
| `Authorization` | the questions of each handler beside changing relations | |
| `EgressServerProofs` | theorems: types and kinds of what the handlers hold | `EgressServer` |
| `ReconcilerProofs` | theorems: the same with a pass; whose service an id is | `Reconciler`, `EgressServerProofs` |
| `LifecycleProofs` | theorems: how a rule comes, goes and is announced; what a sweep spares | `ReconcilerProofs` |
| `ClientProofs` | theorems: the catalog, the gateway's cache, the Networks pass, two processes | `LifecycleProofs`, `CatalogRefinement`, `GatewayCache`, `Mediation`, `ReconcilerPair`, two instances of `ReconcilerProofs` |
| `PaginationProofs` | theorems: listings and the sweep's pages | `Pagination`, `OrphanSweep` |
| `AuthorizationProofs`, `ContentProofs`, `CollisionProofs` | theorems about the module named | `Authorization`; `RuleContent`, `RequestValidation`; `InterceptCollisions` |
| `MCServer`, `MCReconciler`, `MCReconcilerPair`, `MCOrphanSweep`, `MCMediation`, `MCGatewayCache`, `MCPagination`, `MCContent`, `MCCollisions`, `MCAuthorization` | instances for TLC | |

The service is cut into these modules by what shares state. `EgressServer` has
the rows' destination and ids and the controller; what a rule says besides
(`RuleContent`), who is asked before (`Authorization`) and which dials become
ambiguous (`InterceptCollisions`) depend on other columns and other services and
change nothing that `EgressServer` models, so each is a module of its own with
the handlers cut at the requests that matter to it.

### State

`rules` and `attachments` are the tables by uuid, `None` where there is no row. A
row keeps the columns the service acts on: the matcher, which is a public domain
with its ports or a private resource, and the OpenZiti id (`NoId` for the empty
string). `services` and `policies` are the controller's tables, indexed by what
`egressServiceName` and `egressDialPolicyName` compute a name from, since both
are injective; ids come from counters, as the controller never issues one twice.
`call[p]` is a request in flight: the step it waits at and the locals that later
steps use. `pass` is the same for the reconciler. `mediated` is the Networks
switch.

`origin` and `minted` remember which uuids have been used. `origin` also
remembers what a rule was created for, and with `unannounced` and `abandoned` it
exists only to state properties. `calls` and `faults` count against the bounds.

### Steps

A handler is cut exactly where it calls another process, so a step is one SQL
statement, one controller request, one Networks request or one publication, with
all the local code up to the next call. `CreateEgressRule` receives the request
and reads what the first call needs, and `CreateEgressRule_Service`,
`CreateEgressRule_Insert` and so on are the calls in the code's order. Where a
statement can be refused (no such row, foreign key, unique index), the refusal
is a disjunct of the same action. `CallFails` ends a call at any step: an error
from a peer, a lost response, a cancelled context. A step followed by
`CallFails` at the next one is a call whose request took effect and whose
response was lost. The one place where the code goes on after an error
of unknown effect, the clean-up of a failed INSERT, is in the `_InsertError`
actions: the row may be there or not. `Crash` drops all calls and the pass,
nothing else, as there is no other memory. The process has no graceful stop.

Two requests that the code makes separately are one step here:

- `GetService` and, if it says NotFound, `CreateService`. An id that is missing
  stays missing, so nothing can happen in between that the second request would
  not also meet had it come later. The same holds for policies in
  `ProvisionPolicy`, but not in `replaceAttachmentPolicy`, whose delete and
  create are two steps.
- A list request and its pages: a page holds 100 entries.

The checks a handler makes before its first effect (authorization, secrets,
private resource, intercept collision) only read other services. A call they
reject changes nothing, so in `EgressServer` it is left out; what remains is any
subset of calls. The checks themselves are in the modules named above.
The order in which a pass takes rules, attachments and orphans is left open where
the code goes by uuid or by the controller's order. Two branches cannot be taken
and are not modelled: an update of a public rule whose service id is empty
(`ServiceIdIffPublic` is proved) and a service found under a stored id that
carries another name (a service's name and role attributes never change). A
delete of an id that is gone may answer NotFound or succeed, as the client's
contract does not say; both are modelled. So is a conflict on a policy name when
a create does not ask for an existing one.

### The catalog and its refinement

`RuleCatalog` knows no requests in progress, no controller and no failures: a
rule or a link (attachment) is added, changed or removed in one step. An id is
used once, a rule keeps its kind of destination, a link is to a rule that is
there, and no target is linked twice. `CatalogRefinement` maps the tables to it:
`Contents` and `Links` are what a client reads of the rows, and an id is gone
(`GoneRules`, `GoneLinks`) once it was given out, is not stored and no call is
about to store it. Every other step, of the controller, of a pass, of a clean-up,
has to be a stutter.

### Two processes

`ReconcilerPair` has two instances of `Reconciler` on one set of tables, each with
a pass of its own. The handlers may be those of either process. `OlderStops` ends
the older one amid its pass, or never happens (two replicas). The chart sets one
replica, but nothing elects a leader and a rolling update overlaps.

### The sweep's pages

In `Reconciler` a page holds the whole list. `OrphanSweep` takes the two sweeps
apart: a page, each entry on it (`SkipEntry`, `DeleteEntry`), the next token. What
a token stands for is the controller's affair, so both are tried: an offset, which
deletions shift, and a name to go on after. The handlers are reduced to what they
do to one name: provision, store a row, delete a row, deprovision. The initial
states are all mixtures of managed names, names with nothing behind them and
orphans.

### Rule content and validation

`Validation` keeps of a string what the code tells apart: a pattern or host is a
string cut at its dots, with nothing to say whether a piece is a label of a name or
an octet of an address, as `domainPatternMatchesHost` compares strings; a header is
its name, scheme and credential. Which strings are addresses and blocks, and of
which bits, is what `net.ParseIP` and `net.ParseCIDR` say (constants). Capitals,
`*`, ports, the empty TLS block and the reserved zones are there because the code
treats them. The forms (`PatternForm` to `RuleForm`) say what a
message can carry. `ValidateRuleInput` is one operator per Go
function. `RequestValidation` sends every request through it once.

`RuleContent` has the two handlers that write a rule's parts, from the row they
read to the row they store: validate, ask Secrets for each secret, ask Networks
for the resource if `AsksForTarget`, write. Beside them Secrets and Networks
count the rules that name something (`Count`) and then let it go (`LetGo`), and
Networks switches a resource between http and https without asking. `raced` and
`turned` remember what the properties speak of. Two updates of one rule may
overwrite each other's parts; the properties speak of an update nothing overtook.

### Intercept collisions

`InterceptCollisions` has one organization whose rules exist. `AttachCheck` and
`AttachInsert` are the two halves of an attach; the check looks at grants for a
public rule and at the target's attached public rules for a private one, a failed
lookup lets the attach through (`AttachCheckFails`). Networks grants after a check
of its own against `ListAttachedRuleDomains`; groups, a new environment and an
updated matcher are checked by nobody. A pass takes the two snapshots, the agents,
and then one agent at a time with the grants of that moment; a failed lookup
shrinks the report. `Ambiguous` defines by single dials what the code finds by
comparing patterns and ports.

### Authorization

A request reads its row and asks its questions in the code's order (`Receive`,
`Ask`), and then has its effect; between any two of these steps a relation is
granted or revoked (`Relate`). `held` collects what was held at some time since
the request came in. Relations that place an agent or environment in its
organization never change.

### The gateway

`GatewayCache` adds to the handlers a cache of one answer per target, answers on
their way, and events that are delivered in any order or lost. An event drops
the entries that hold its rule or belong to its attachment's target. An answer
that an event passes on its way is marked `overtaken`. What the gateway does with
its cache is external; what this service owes it is the event and its ids.

### Paging

`Pagination` stands by itself, as listing changes no table. It has the ids of
the rows that match a request's filters (all on columns that never change while
a row lives, see `TargetNeverChanges`) and one client that follows the page
tokens. A page is one step: the query and the cut to the limit are one
statement and local code. Both list RPCs work alike; the model's ids are those
of either. `FirstRows` is `ORDER BY id ASC LIMIT n` as a set, which needs no
recursion. `listed`, `twice` and `kept` only serve the properties. Authorization
and the parsing of filters come before the query and change nothing.

## 3. Properties and runs

| run | what it asks | bounds | states |
| --- | --- | --- | --- |
| `reconciler_safety` | `ReconcilerTypeOK`, `SnapshotAgrees`, `SweepSparesKnownRules`, `ImplementsCatalog` | 1 rule of either kind, 2 attachments of 1 target, 1 domain, 1 resource, 2 callers, 4 calls of any kind and 1 failure, any number of passes | 1,700,285 |
| `converges` | `Converges` | 1 rule of either kind, 2 attachments of 1 target, 1 domain, 1 resource, 2 callers, 4 calls of any kind or 3 and 1 failure, any number of passes | 901,489 |
| `mediation` | `MediationTypeOK`, `RowsAgree`, `ServiceIdIffPublic`, `PolicyScope`, `TargetImmutable`, `NoResurrection`, `MediationConverges` | 2 rules, 1 attachment, 1 domain, 2 resources, 2 callers, 4 calls, 1 failure | 1,719,750 |
| `gateway_cache` | `CacheTypeOK`, `StaleOnlyUntold`, `Announced`, `LiveRuleKeepsService` | 1 rule of either kind, 2 attachments of 1 target, 2 domains, 1 resource, 3 callers, 4 calls, 1 failure (a call, an event, a crash, a restart of the gateway) | 1,776,827 |
| `rolling_update` | `PairConverges` | 1 public rule, 1 attachment, 1 caller, a create and an attach, 1 failure, any number of passes of two processes | 510,330 |
| `orphan_sweep` | `QuietSweepClears`, `SweepTakesListedOrphans`, `OrphansGo` | 4 names, 1 of them no dial policy's, pages of 2, both kinds of token, any initial mixture, 2 steps of handlers, 1 failure | 589,142 |
| `rule_content` | `ValidationTypeOK`, `Stable`, `ReservedOnlyByWildcard`, `CheckedIsCounted`; `ContentTypeOK`, `DanglingIsRaced`, `TLSNeedsHttps`, `UpdateKeepsOtherParts` | all patterns of up to 3 labels out of 8, addresses of two octets of two bits, their blocks and the wildcards above them, ports 0, 1, 65535, 65536, up to 2 headers, every TLS block; 1 rule, 2 writers, 4 writes, 1 secret, 1 resource | 792,789 |
| `collisions` | `CalmPassIsExact`, `DetectionHolds`, `AttachAddsNoAmbiguity` | 1 public and 1 private rule, 1 resource, 1 agent, 1 environment, 1 caller, 4 writes, 1 failure | 345,237 |
| `authorization` | `AttachedAtHome`, `ListingsAreHeld`, `ChangesAreHeld` | 1 identity with any relations, 2 organizations, 1 agent in one, 1 environment in the other, 1 rule, 1 attachment, 2 calls at once, 1 change of relations | 1,637,082 |
| `listing` | `PaginationTypeOK`, `Complete`, `NoRowTwice`, `Terminates` | 5 ids, page sizes -1, 0, 1, 2, 9 with default 2 and maximum 3 | 130,970 |
| `intercept_diverges` | `InterceptConverges` is **violated** | 1 rule, 3 domains, 2 callers, 3 calls, no failure | |
| `duplicate_attach` | `AttachKeepsPolicies` is **violated** | 1 rule, 2 attachments of 1 target, 2 callers, 3 calls, no failure | |

Where one run asks about two modules, the second only adds readers to the first:
the handlers run the same beside the Networks pass or the gateway as without, so
their own properties are checked there. `rule_content` goes through requests and
through writes one at a time; neither specification takes a step while the other
has something in progress.

What the properties say in short:

- `RowsAgree`, `TargetImmutable`: an update checks the new matcher against the
  row *it read*. Rows in the hands of calls may be arbitrarily old, but all of
  them agree with what the rule was created for, so no interleaving of updates
  changes the kind of the stored destination.
- `NoResurrection`: updates and id write-backs from a row that is deleted
  meanwhile do not bring it back.
- `LiveRuleKeepsService`: a delete whose count is overtaken by an attach meets
  the foreign key before it touches the service.
- `Announced`: a change with no event yet has a call under way to send one, or
  one cut short after its commit. A create or an update that finds its row gone
  returns silently; then the call that deleted it is the one that announces.
- `PolicyScope`: a policy computed from a stale row, after the rule's service
  was deleted and made anew, names a dead id, never another rule's service.
- `SweepSparesKnownRules`: with no failure so far, neither handlers nor the
  sweep's own deletes take the service of a rule the pass has seen. (With an
  INSERT whose answer was lost, the handler's clean-up does.)
- `Converges`: orphans of cut-short calls go, services and policies deleted from
  under a row come back, stale stored ids are corrected, policies that name a
  dead service are replaced. This includes the orphan sweep deleting the service
  of a rule created after the pass's snapshot.
- `MediationConverges`: the count and the set of a sync are two calls, so the
  switch can be left wrong by two handlers; a Networks pass puts it right.
- `ImplementsCatalog`: of everything that interleaves, fails and is left behind,
  a client sees rules and attachments that come, change and go one at a time. The
  lookups before an INSERT, an UPDATE or a DELETE are all outdated when it runs;
  what keeps the promise is the statements and the constraints.
- `PairConverges`: two passes, one of which may hold a snapshot for as long as it
  likes and stop anywhere, do not undo each other's work for ever. A pass with an
  older snapshot may take the service of a rule the other one knows (so
  `SweepSparesKnownRules` is not asked here); the next pass makes it anew.
- `SweepTakesListedOrphans`: a sweep that takes its time never deletes what had a
  row at its snapshot, nor what was provisioned after it listed the page, though it
  comes from the same name: it deletes by id. `QuietSweepClears`: a sweep nothing
  disturbs deletes every orphan if tokens name where to go on, and some if they are
  offsets. `OrphansGo`: so all of them go in the end, either way.
- `Stable`: what was accepted is accepted again and stays the same, whichever form
  it was sent in, but for an empty TLS block: `insecure_skip_verify: false` with no
  server name is stored as `{}` and goes with the next update that validates.
- `ReservedOnlyByWildcard`: no accepted matcher catches a name below a reserved suffix,
  and no accepted block holds an address of the carrier-grade NAT range. A reserved
  suffix itself and a reserved address are caught by no pattern but a wildcard right
  above them; that such wildcards exist is among the gaps below.
- `CheckedIsCounted`: the secrets a write resolves are those that the count for the
  Secrets service finds in the stored columns.
- `DanglingIsRaced`: a rule names a missing secret or resource only if that very rule
  was being written while it went, though an update that brings neither checks
  neither.
- `TLSNeedsHttps`: a TLS block is on an http resource only if the resource was https
  before. `UpdateKeepsOtherParts`: parts that an update does not bring stay, unless
  another update came in between.
- `CalmPassIsExact`, `DetectionHolds`: a pass nothing disturbs reports precisely the
  ambiguities that single dials show, whichever of the paths on either side made
  them, and once writes and failures cease every report is that one.
- `AttachAddsNoAmbiguity`: an attach nothing overtakes since its check makes no dial
  ambiguous out of what is attached to the agent itself and what is granted to it,
  with one exception: a public rule is not checked against private rules that are
  attached already (see below).
- `ChangesAreHeld`, `ListingsAreHeld`, `AttachedAtHome`: no question is answered from
  an earlier request, none is left out for a combination of filters, and an
  attachment binds a rule to a target of its own organization.
- `StaleOnlyUntold`: where the gateway's cache knows something else of a rule than
  the tables, there is an untold change of that rule, or of its attachment to that
  target: not yet published, cut short, on its way or lost. An answer an event
  overtook may be wrong for good: nothing in the answer tells how old it is.
- `Complete`, `NoRowTwice`: a row that stays through a listing is on exactly one
  page, and no row is on two, though rows are created on both sides of the
  cursor, the cursor's own row may be deleted and the client may change its page
  size on the way. `Terminates`: the tokens lead to an end.

### Disagreements with the tests

- **A lost intercept** (`intercept_diverges`). `UpdateEgressRule` updates the
  service first and writes the row later, and `serviceMatchesRule` compares name
  and role attributes only. Two updates that overlap can leave the row with one
  matcher and the service with the other; both report success and no pass
  repairs it. `TestUpdateEgressRuleUpdatesZitiWhenMatcherInterceptChanges`
  expects the service to follow the matcher. This run lets every received call
  finish and has no failure, so nothing but the order of the calls is to blame.
- **A duplicate's clean-up** (`duplicate_attach`). Two attaches of one pair pass
  the lookup together and `ReturnExisting` gives both the same policy; the one
  the unique index refuses deletes it. The winner's attachment is without policy
  until a pass makes another. `TestDuplicateAttachmentReturnsAlreadyExistsWithoutPolicyCleanup`
  covers only the duplicate found by the lookup.

### Gaps the properties leave open

Three statements of the code's comments are stronger than what the modules can
show, and the properties above say how far the code goes instead:

- "the Networks service refuses to delete a private resource, or change its
  protocol to tcp, while rules name it" (`service.go`): a create looks at the
  resource and stores its rule later, so one that Networks counted as free in
  between can go. `DanglingIsRaced` is what holds.
- "Private https targets only; nil otherwise" (`types.go`, of the TLS block): the
  resource may turn to http afterwards, which nobody asks or tells this service.
  `TLSNeedsHttps` is what holds.
- The check "fast-fails an attachment that would make the target's dials ambiguous"
  (`private_targets.go`): for a public rule it asks what is granted to the target
  and does not look at private rules attached to it, though the report counts
  them. Attaching the private rule first and the public one second is let
  through; the opposite order is refused. This is the exception
  (`u = r`, no grant) in `AttachAddsNoAmbiguity`, which is false without it; the next
  pass reports the ambiguity.

What `rejectReservedDomainPattern` keeps off is less than its name says, as it looks at
the zone of a wildcard only for a reserved suffix and at a pattern only if it parses as
an address or block. `*.local` is accepted and `domainPatternMatchesHost` lets it match
`cluster.local`; `*.64.0.1` is neither an address nor a block, is accepted and matches
`100.64.0.1`. Both happen in `rule_content`, where `ReservedOnlyByWildcard` is false
without its exception for wildcards. Whether OpenZiti matches addresses against such a
pattern cannot be seen from this repository.

Besides, `ListEgressRuleAttachments` ignores the filters `environment_id` and
`agent_target_id` of its request, and an event about an environment names it in
the field `agent_id`. The models have what the code does.

### Bounds

`MaxCalls` bounds the requests that are ever received and `MaxFaults` the
failures; both are guards of the actions that count. Two callers are enough for
every pairwise race; three in `gateway_cache` let a delete race an attach and a
detach. Four calls build a rule and an attachment and still leave two to race on
them: a detach and a new attach of the same pair, of which the detach may delete the
policy that the attach was handed, take all four. `converges` counts calls and failures
together (`BudgetSpec`), so it has four calls or three and a failure, as a search for
cycles costs more than one for bad states. One failure reaches every cut; a failed INSERT followed
by a failed clean-up ends like a call cut at the INSERT. Passes are not bounded: they run as long as
they change something. Ids stay finite because a service or policy is only made
anew after one was deleted, and deletions come from calls or follow from
a snapshot they have outdated. Callers are interchangeable, so
safety is checked under symmetry. Liveness is not, but `converges` cuts down names by
hand: a request goes to one fixed caller if that is idle (`CallersInOrder`), and the
first attachment gets one fixed id (`AttachmentsInOrder`, also in `reconciler_safety`);
every behaviour is of that form up to names, which no property looks at.

`CHECK_DEADLOCK FALSE` is set in `duplicate_attach`, `gateway_cache`,
`authorization` and `rule_content`: when the calls are used up, all have returned
and all events are delivered, nothing is left to do. The same holds of `listing`
once all ids are used and deleted. With a reconciler or a Networks pass there is
always a next step, and deadlock is checked.

`rolling_update` has the two calls with which two passes can meet over a service and
a policy; what more calls leave behind is in `converges`, where the pass is one of
either process. With one rule there is no other rule's service to open a way to, so
`PolicyScope` is not asked there: it takes two rules, which `mediation` has, and for two
processes it is proved (`PairPolicyKeepsScope`). In `orphan_sweep` four names on pages of two make a sweep go on
after a page it has deleted from, and stop at a page that is exactly full. Four bits
let a block lie above, below, beside and inside the reserved one, and two octets leave
one for a wildcard to stand for. In `collisions` one
agent with one environment has all the paths there are to a rule and to a
resource; a second agent would be walked like the first. One identity is enough in
`authorization`, as no question compares two. A public rule
has one domain in `converges` and `mediation`, where an update writes back a stale
id or asks for a destination it may not have; domains change in `gateway_cache`. In `listing`
five ids make up to five pages, and the defaults 50 and 100 are scaled down to 2
and 3, so that a request below, at and above each bound still pages.

### Fairness

`FairSpec` assumes weak fairness of the pass's own steps: `Run` starts a pass at
every tick and a pass runs to its end or to its first error, provided the
database and the controller answer. The code sets no deadline on these requests,
so this is an assumption about its peers. Nothing is assumed of handlers, which
may hang for good at any step: `Converges` holds regardless, since a hanging
call changes nothing. `MediationFairSpec` does the same for the Networks pass, `CollisionsFairSpec` for
the pass that reports, `SweepSpec` for the sweep, and `PairSpec` for the newer
process only: the older one may stop, hang or go on.
`PaginationFairSpec` assumes a client that keeps asking for the next page, which
is what listing means.
Failures are finite, which is what "once failures cease" means. Only the
counterexample run `intercept_diverges` also lets calls complete
(`CompletingSpec`), as it would refute nothing if a call simply stopped between
its two writes.

## 4. Proofs

| theorem | states | in |
| --- | --- | --- |
| `ServerTypeCorrect` | `ServerSpec => []TypeOK` | `EgressServerProofs` |
| `RowsAlwaysAgree` | `ServerSpec => []RowsAgree` | |
| `PrivateOwnsNoService` | `ServerSpec => []ServiceIdIffPublic` | |
| `TypeCorrect` | `Spec => []ReconcilerTypeOK` | `ReconcilerProofs` |
| `SystemPrivateOwnsNoService` | `Spec => []ServiceIdIffPublic` | |
| `SnapshotAlwaysAgrees` | `Spec => []SnapshotAgrees` | |
| `TargetNeverChanges` | `Spec => TargetImmutable` | |
| `PolicyKeepsScope`, `SystemPolicyKeepsScope` | `ServerSpec => []PolicyScope`, `Spec => []PolicyScope` | |
| `DeletedStaysDeleted` | `Spec => NoResurrection` | `LifecycleProofs` |
| `StoredRuleKeepsService` | `ServerSpec => LiveRuleKeepsService` | |
| `EveryChangeAnnounced`, `SystemEveryChangeAnnounced` | `ServerSpec => []Announced`, `Spec => []Announced` | |
| `SweepSparesRules` | `Spec => []SweepSparesKnownRules` | |
| `ServiceImplementsCatalog` | `Spec => ImplementsCatalog` | `ClientProofs` |
| `LinksLeadToRules` | `Spec => []Catalog!CatalogOK` | |
| `CacheTypeCorrect` | `CacheSpec => []CacheTypeOK` | |
| `CacheStaleOnlyUntold` | `CacheSpec => []StaleOnlyUntold` | |
| `CacheEveryChangeAnnounced` | `CacheSpec => []Announced` | |
| `CacheStoredRuleKeepsService` | `CacheSpec => LiveRuleKeepsService` | |
| `MediationTypeCorrect` | `MediationSpec => []MediationTypeOK` | |
| `MediationRowsAgree` | `MediationSpec => []RowsAgree` | |
| `MediationServiceIdIffPublic` | `MediationSpec => []ServiceIdIffPublic` | |
| `MediationKeepsScope` | `MediationSpec => []PolicyScope` | |
| `MediationTargetNeverChanges` | `MediationSpec => TargetImmutable` | |
| `MediationDeletedStaysDeleted` | `MediationSpec => NoResurrection` | |
| `PairPolicyKeepsScope` | `PairSpec => []PolicyScope` | |
| `PaginationTypeCorrect` | `PaginationSpec => []PaginationTypeOK` | `PaginationProofs` |
| `ListingComplete` | `PaginationSpec => []Complete` | |
| `ListingRepeatsNothing` | `PaginationSpec => []NoRowTwice` | |
| `SweepTakesOnlyListed` | `SweepSpec => SweepTakesListedOrphans` | |
| `QuietSweepsClear` | `SweepSpec => []QuietSweepClears` | |
| `TargetsAreAtHome` | `AuthSpec => []AttachedAtHome` | `AuthorizationProofs` |
| `ListingsWereAllowed` | `AuthSpec => []ListingsAreHeld` | |
| `ChangesWereAllowed` | `AuthSpec => ChangesAreHeld` | |
| `ValidationTypeCorrect` | `ValidationSpec => []ValidationTypeOK` | `ContentProofs` |
| `AcceptedIsStable` | `ValidationSpec => []Stable` | |
| `CheckedSecretsAreCounted` | `ValidationSpec => []CheckedIsCounted` | |
| `ReservedIsOutOfReach` | `ValidationSpec => []ReservedOnlyByWildcard` | |
| `ContentTypeCorrect` | `ContentSpec => []ContentTypeOK` | |
| `DanglingRulesRaced` | `ContentSpec => []DanglingIsRaced` | |
| `TLSOnlyWhereHttps` | `ContentSpec => []TLSNeedsHttps` | |
| `UpdatesKeepOtherParts` | `ContentSpec => UpdateKeepsOtherParts` | |
| `CalmPassesAreExact` | `CollisionsSpec => []CalmPassIsExact` | `CollisionProofs` |
| `QuietAttachesAreChecked` | `CollisionsSpec => AttachAddsNoAmbiguity` | |

They hold for any sets of rules, attachments, targets, callers, patterns and so on,
and for any number of calls and failures. What they assume of the constants is
named where the constants are declared, and TLC evaluates each on the runs:

- `StoreAssumption`, `RowAssumption`, `ZitiAssumption`, `LinkAssumption`,
  `AuthorizationAssumption`, `ValidationAssumption`, `ContentAssumption`,
  `CollisionsAssumption`: sets that the code's types keep apart are disjoint (a
  domain is not a resource, an agent not an environment), and `None` is not a
  member of what it stands for the absence of.
- `ValidationAssumption` besides: `strings.ToLower` and `strings.ToUpper` change
  nothing the second time, the reserved block is a prefix of addresses, and no string is
  both an address and a block.
- `RequestAssumption` and `ContentAssumption`: what is sent has the form that the
  protocol's messages can carry (`RuleForm`).
- `SweepAssumption`: the controller holds finitely many names, and a page at least one.
- `ServerAssumption`, `PaginationAssumption`: the bounds are numbers, page sizes
  integers, the default and the maximum positive.

Some of the arguments follow, each with the invariant it needs.

*Types.* `TypeOK` is inductive because it says of each call which locals are set
at the step it waits at (`CallOK`): a call that is about to provision holds the
row of a public rule, one in the mediation sync that of a private rule.
`PassOK` does the same for a pass. Each action has a lemma for the tables and one
for its call.

*Kinds.* That a stored rule has a service id exactly when it is public does not
follow from the tables alone: an update writes back a row it read long ago, and
an attach or a pass writes an id it got from the controller. The inductive
invariant (`KindInv`, `SystemKindInv`) therefore speaks of all copies of a row:
stored ones, those in calls and, with the reconciler, those in the snapshot. Each
agrees with `origin`, which never changes once set, and each has an id exactly if
public; ids handed over by the controller are not `NoId`; and no private rule has a
service. `ServiceIdIffPublic`, `RowsAgree`, `SnapshotAgrees` and, as an action
property, `TargetImmutable` follow.

*Scope of policies.* A policy holds the id of the service it was made for and may be
made from a row of any age, so the invariant (`IdsOwned`, with a pass
`SystemIdsOwned`) follows ids to wherever they can be: rows, copies of rows, policies,
services. An id that is known for one rule is known for no other, and none is known
before the controller issued it. A step either hands on ids that the rule had
(`IdsKept`) or gives out one that nobody has seen (`IdIssued`). `PolicyRoles` adds
that a policy's role is its rule's resource or such an id.

With two processes (`PairInv`) an id may be in either snapshot. `ClientProofs` takes the
lemmas about a pass twice, by two instances of `ReconcilerProofs`; a step of one pass
hands on what it or a table held (`KnownFlow` of its instance) while the other rests, so
ids are owned across both (`PairOwned`).

*Life of a rule.* `CreationInv`: the id a create has minted is in no other call until it
is stored, and a call at the removal of a service has no stored rule. So nothing
brings a deleted rule back, and no delete touches the service of a stored one.

*Beside others.* The gateway and the Networks pass only count failures and set the switch
(`Onlooker`), so what is invariant under the handlers is so beside them
(`LifeBesideOthers`).

*Announcements.* A change with no event is covered by a call past its commit (`AnnInv`).
The case that takes work is a call that finds its row gone when it reads it
back and returns silently: then the row's deletion is itself a change of that rule,
and the call that made it covers both.

*The sweep's victims.* `SweepInv` says of a pass with no failure so far that every rule
it is done with has a service while the rule is stored (`ReconciledHaveServices`), and
that the ids it is to delete belong to no rule it has seen (`OrphansUnknown`); the
latter stays true because ids are owned and never issued twice.

*The catalog.* Rules and links change at different steps, so a step is mapped once for
each: `LinkInv` says that an attachment id is minted for one call that stores it at
most once, and the lemmas on `Contents`, `Links` and the ids that are gone show that a
handler's step is a step of the catalog or a stutter, and a pass's step a stutter.
`LinksLeadToRules` then carries the catalog's own invariant, proved from the abstract
specification's steps, over to the implementation.

*The cache.* An entry that no event overtook fits the tables up to what is `Unheard`:
unannounced, on its way or lost (`AnswersFit`). A change of a rule drops the entries
that hold it, while an entry that does not hold the rule waits for an event of the attachment, so
the two cases are kept apart in `Fits`. `PlacesKnown` has an attachment's place outlive
its row, as the event of a detach needs it.

*Authorization.* Of each question a request still has to ask it or what it asks has held
since the request came in (`Settled`); `Prepared` says which questions each
request has. The organization of a row cannot change, only the row can go.

*Validation and content.* `Checked` collects what every accepted rule is, and each
normalisation leaves a checked part as it is. `ReservedIsOutOfReach` compares a
pattern with a zone label by label and with a block bit by bit. A rule under way
(`WriterOK`) names only what is there, or what it is still to ask for, or what went
while it was written (`Vouched`, `TLSVouched`); `SeenSinceCount` is the other side: a
count that found no rule stays right but for rules stored since.

*Listings.* `CursorInv` says what a cursor means: rows behind it that were there
from the start have been listed, and nothing ahead of it has. A page is a prefix
of the rows ahead (`PageIsPrefix`), so moving the cursor to its last row keeps
both halves; a query that returns no extra row has returned everything
(`ShortIsAll`).

*The sweep's pages.* An id is under one name (`IdsUnique`) and what a page lists was issued
before, so a deletion hits what was listed. That an undisturbed sweep
clears the list needs counting: with a name for a token nothing skips ahead
(`NextGoesOn`), and with an offset all orphans are ahead as long as no deletion has
shifted the list (`OffsetGoesOn`, `Unshifted`), after which there are fewer of them.

*Collisions.* `OverlapIsIntercepted` is the comparison of patterns and ports against single
dials: two overlap exactly if some host and port is caught by both. A calm pass has in
hand what is stored and has found what is ambiguous for the agents it has walked
(`CalmOK`); an attach nothing overtook would still pass its check (`QuietOK`).

### What stays with TLC

Every safety invariant and action property of the passing runs is stated by a
theorem, for the specification the run checks. Only model-checked are the liveness
properties `Converges`, `PairConverges`, `MediationConverges`, `DetectionHolds`,
`OrphansGo` and `Terminates`, which no prover here can reach, and the two violations,
which are counterexamples.

That the theorems depend on what the code does is what the mutants are for: each property
fails in its run when one definition is changed as a plausible bug would change it.

## 5. Not modelled

- Configuration, connections and start-up (`cmd`, `config`, `db`): wiring and I/O.
  What follows from them is in the models: a reconciler beside the handlers, no
  graceful stop, two processes during a rollout. The migrations runner applies each
  file again at every start; all are `IF NOT EXISTS` statements in one implicit
  transaction.
- `privateResourceInfos`: host and protocol of a resource, copied from Networks into
  the gateway's answer. Whether Networks tells the gateway of a change cannot be seen
  from this repository.
- Protocol definitions, charts, names, descriptions, timestamps, wording of errors.
- Deadlines: the code sets none on its requests to the controller, so one that never
  answers stops reconciliation for good; the fairness above excludes it.

Of the Networks, Secrets, Authorization and Agents services, the gateway, the
controller and Postgres only what this code relies on is modelled.

## 6. Plan

Done: every component whose code changes or decides anything; the refinement of the
catalog, checked and proved; theorems for every safety invariant and action property of
the passing runs, and for `PolicyScope` beside two processes.

To prove next:

1. `Announced`, `NoResurrection` and the refinement of the catalog under `PairSpec`, through
   the same two instances of the proofs about one pass.
2. No pass repairs a service whose intercept differs from its row
   (`intercept_diverges`). Where updates of one rule do not overlap, the service should
   follow the row: an invariant to state and prove.
