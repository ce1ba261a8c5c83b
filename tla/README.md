# A TLA+ model of the injection controller

The controller injects OpenTelemetry SDKs into pods. Beyla writes *selector
ConfigMaps* that say which pods to instrument and which workloads may be
restarted for it; the controller keeps these rules in an in-memory registry, a
mutating webhook applies them to pods as they are created, and a sweep restarts
the workloads of pods that were created under other rules. This directory holds
the specifications of that loop, the TLC configurations that check them and
TLAPS proofs of the main safety properties.

## 1. Inventory

| component | state it keeps | operations | interacts with |
|---|---|---|---|
| ConfigMap reconciler (`internal/controller/configmap_controller.go`) | work queue, one worker (`MaxConcurrentReconciles: 1`), locals of a reconcile | `Reconcile`, `reconcileRollouts`, `refreshRegistry`, `stateNodeEligible`, `parseConfigMap`, `rolloutMatching`, `configMapsForNode` | reads the ConfigMap, Node, Pod and ReplicaSet caches; writes the registry; patches workloads |
| Rule registry (`internal/registry/registry.go`) | `instruments`: ConfigMap key to parsed rules, under a lock | `Set`, `Replace`, `Delete`; `Match`, `BPFGeneratesSpanMetrics` | written by the reconciler; read by sweep, webhook and gauge |
| Owner resolution (`internal/podinfo/podinfo.go`) | none | `Resolve`, `Workload` | looks ReplicaSets up; a failure truncates the chain |
| Pod webhook (`internal/webhook/v1/pod_webhook.go`) | none between requests | `Default` | called by the API server for every pod creation, `failurePolicy=ignore` |
| Pod mutator (`internal/webhook/v1/mutator.go`) | none | volume, env vars, init container; the predicates `IsInstrumented`, `IsInstrumentedWithWantedConfig`, `PreloadsSomethingElse` | called by the webhook; the predicates also by sweep and gauge |
| SDK configuration (`internal/config/config.go`) | read once at start | `WithConfigMapOverrides`, `PodConfigHash`, version parsing | everything that needs the wanted digest |
| State gauge (`internal/metrics/collector.go`) | none | `Collect`, `classify` | reads Pod cache and registry on each scrape |
| ConfigMap validator (`internal/webhook/v1/configmap_webhook.go`) | allowed users | `Handle` | guards writes of annotated ConfigMaps |
| Start-up (`cmd/main.go`, `internal/webhookcert`) | which gates apply, certificate readiness | wiring, cert rotation, readiness, injection mode | decides when webhook and sweeps may run |
| Counters, logging, build info | counters | `RecordRequest`, `RecordRestart` | nothing reads them back |

**What is hard.** ConfigMaps and nodes change between the steps of a reconcile;
the watch predicates filter some changes and a failing handler loses others; the
process restarts with an empty registry while its webhook already serves; a
cleanup must not restart pods other ConfigMaps still select; sweep, webhook and
gauge each decide on their own, at different times, on different views of the
same pod, and if two of them ever disagree about the wanted configuration the
controller restarts a workload forever; admissions in flight outlive the rules
they were decided on; only the work queue remembers that a cleanup is due. At
start-up certificate, late registration, readiness, leader election and a
fail-closed webhook wait for each other, across replicas. PROJECT.json lists these hazards line by line.

**What makes it correct.**

- reconciler and registry: no entry is silently out of date; in a quiet cluster
  the registry converges; a cleanup acts on the rules of the moment and is not
  forgotten; readers of the registry are kept the promise of `RuleCache`;
- validator: the registry never holds what an unauthorized user wrote;
- start-up: nothing waits in a circle, every replica comes to serve, writes of
  ConfigMaps are accepted in the end;
- rollout decision: a cleanup restarts only what nothing selects; no restart is
  in vain; restarts cease;
- webhook and sweep together: targeted pods settle on what the ConfigMaps ask;
- gauge: it counts each pod once, under its workload and what the webhook would
  do;
- mutator: references between env vars resolve, precedence is mutator, rule,
  author, writes are idempotent, and the payload is the one the digest names, on
  a volume the cluster can mount.

## 2. Modules

| module | models |
|---|---|
| `Selection` | the stateless decisions: owner chains, first-match over the registry, effective image and digest, parsing outcome, restart targets, the per-pod decision of the sweep, the webhook's outcome, the gauge |
| `Reconciler` | the controller as a state machine; extends `Selection` |
| `RuleCache` | abstract: what the registry promises its readers; `Reconciler` implements it |
| `Validator` | the validating webhook in front of the ConfigMaps; extends `Reconciler` |
| `Injector` | the composition: `Reconciler`, admissions, and the workload controllers that replace pods |
| `PodMutator` | what a mutation writes into a pod (volume, mounts, init container, env vars in their order) and how the controller settles on an injection mode; stands alone |
| `Startup` | the replicas from the start of their containers until they serve; stands alone |
| `MCData`, `MCReconciler`, `MCValidator`, `MCInjector`, `MCPodMutator`, `MCStartup` | small values and instances for TLC |
| `SelectionProofs`, `ReconcilerProofs`, `CacheProofs`, `ValidatorProofs`, `InjectorProofs`, `GaugeProofs`, `StartupProofs`, `MutatorProofs` | lemmas and theorems about the module each is named after (`GaugeProofs`: the gauge, in `Reconciler` and `Injector`) |

### Data

A ConfigMap key is a natural number, ordered as the strings are, because `Match` walks
keys in sorted order. A glob list is the set of names it matches. A rule's env
list is one value. The FNV digest is the tuple of what is digested, so equal
digests mean equal inputs; collisions are out of scope. Pod annotations, which a
selector may also test, are treated like labels. A ConfigMap's two data keys are
`Absent`, `Malformed` or the decoded value; a nil restart entry is `Absent`.

### Reconciler

`cms`, `nodes` and `pods` are the informer caches: the controller reads nothing
else. A ConfigMap event is queued in the step that changes the cache, through the
predicate of `SetupWithManager` (`WriteCM`): it is evaluated on the new object, so
an update that removes the annotation is filtered. A Node event waits in
`nodeEvents` until `configMapsForNode` has run (`HandleNodeEvent`), whose List may
fail and lose it. `queue` is the set of keys ready, `waiting` those to come back
after an error or `RequeueAfter`.

A reconcile is cut at each read of a cache, write of the registry and patch:

| step (`pc`) | code | actions |
|---|---|---|
| idle | `Get` of the ConfigMap | `Begin`, `BeginFails` |
| node | `stateNodeEligible` | `CheckNode`, `CheckNodeFails` |
| drop | `Registry.Delete` | `Drop` |
| load | `parseConfigMap`, `Registry.Set` | `Load`, `LoadInvalid`, `LoadPanics` |
| gate | `reconcileRollouts` up to the sweep | `GateOff`, `GateDefers`, `GatePasses` |
| refresh, filter | `refreshRegistry` | `RefreshList`, `RefreshOne`, `RefreshPanics`, `RefreshFails`, `Replace` |
| sweep | `rolloutMatching`: list and decide | `Sweep`, `SweepFails` |
| patch | `rolloutMatching`: the patch loop | `Patch`, `PatchFails`, `SweepDone` |

List and decision of a sweep are one step: only the worker writes the registry,
so the decision depends on when the pods were listed and on nothing later. Both
readiness gates (the local listener and the dial of the Service) are the flag
`up`. A panic is recovered by controller-runtime and retried like an error.
`Restart` is a crash at any point: caches survive, everything else starts over.

Two history variables carry what the properties need and the code does not keep:
`missed`, the keys whose last change reached no queue (filtered or lost), and
`moved`, whether a ConfigMap or Node has changed since the rollouts began.

### RuleCache

`want` is what each ConfigMap deserves, `have` what a reader of the registry
finds, `excused` the keys whose entry need not be right at the moment. `Change`
excuses every key it concerns; `Serve` rewrites excused entries only, and a key is
excused no longer only if its entry is right; `Lose` is a restart. The mapping in
`Reconciler` (`Cache`) takes `WantAll` for `want`, `registry` for `have`, and for
`excused` the keys that are queued, waiting, read but not yet written, concerned by
a node event still to be handled, or in `missed` (`ExcusedKeys`). `Reconciler` maps each
of its many small steps to one of the three or to a stutter; in particular
`Replace`, which writes all entries at once from an old snapshot, touches only
excused ones.

### Validator

A create or update (`Submit`) is a user, a key and the contents this user
`Intends` to write; it happens if `Handle` allows it. A write that is refused, or
gets no answer under `failurePolicy=Fail`, is no step. Deletions are not
validated, as in the webhook configuration, and `Handle` looks at the new object
only, so anybody may delete an annotated ConfigMap, or put contents without the
annotation in its place. The
ConfigMaps present at the start are assumed to be from authorized users: the
webhook says nothing about what was there before it.

### Injector

An admission (`adm`) reads the registry twice, in `AdmitMatch` (the decision) and
`AdmitMutate` (span metrics), because the code takes the lock twice; its pod
appears in the cache with `Persist`, later still. Without an answer the pod is
admitted as it is. `Terminate`, `Gone` and `Create` are the workload controllers:
they may replace any pod, and must replace the pods of a patched workload
(`outdated`). The history variable `owed` holds the keys whose entry was dropped
and whose cleanup has not run to its end (`Recall`); a ConfigMap that is back, and
a restart of the process, cancel it.

### PodMutator

`sdk` is the configuration of the running controller: `Boot` reads the file, sets
the defaults and resolves the mode `auto` by the version the API server reports,
if it answers. `server` is the cluster's version, which `ServerUpgrade` moves on
under the running controller. `pod` is a pod with its volumes, containers and init
containers, `author` the same pod before any mutation. `Default` mutates it, and
may do so again: a manifest taken from a running pod carries an older
instrumentation. Env lists are sequences, because kubelet expands `$(VAR)` from
earlier entries only; a name may be listed twice, as the API server allows. Of a value
the model keeps the attribute keys, the variables it references and a token for
its text; the comma-separated attributes of one mutation, sorted in the code, are
one set. An image name is its tag and digest, an owner name comes with its part
before the last dash. Resource annotations have their prefix cut off. The pod is
one a rule selects; which rule, and the cases in which there is no image, are in
`Selection`.

### Startup

A replica is `off`, in `main` or `running`; `hooks` is how far `setupWebhooks` has
come, from a goroutine that waits for the certificate when the rotator is used.
The rotator (external) issues the Secret, waits for it to be mounted and puts the
caBundle into both webhook configurations, on every replica. `endpoints` follows
the readiness probe with a delay. `Intercepted` is what the markers of
`configmap_webhook.go` and the manifests say of the calls the API server makes;
such a call is answered if a ready replica has registered the handler and the
caBundle is there. The webhook configurations are objects of the cluster: whether
they are installed is a setting of its own (`installed`), and `ENABLE_WEBHOOKS=false`
(`webhooks`) takes no configuration away. It is assumed that webhooks are enabled
only where they are installed (`EnabledWebhooksAreInstalled`); disabled ones may be
installed (the shipped manifests) or not (`mise run run`, as the repository's README
has it). With the first, `failurePolicy=Fail` refuses annotated ConfigMaps for good;
`WritesLand` leaves that setup out, all other properties include it. `Refused`
collects the checks with which `main` exits; such a replica is started again and
again. `Exit` ends a process at any moment. The
registry of a replica is one value here (`view`), brought up to date in one step,
which is what `RuleCache` and `RegistryConverges` allow.

## 3. Runs

All instances are small on purpose: the registry treats keys independently but
for their order, so two ConfigMaps show every interaction (one hides, protects
or outlives the other); a ConfigMap has at most one node; a decision concerns one
pod, and a second pod of another kind of workload shows that workloads are told
apart.

| run | checks | bounds and faults |
|---|---|---|
| sync | `TypeOK`, `RegistryCurrent`, `SnapshotExact`, `RegistryTrusted`, `ImplementsCache`, `RightUntilDisturbed` | `Validator`: two ConfigMaps (one of a node; the other with targets, nil entry, empty, unannotated, planted by the tenant), one node, three users (Beyla, an operator in `system:masters`, a tenant); crash, failing node Get, ConfigMap List and event handler; 650,000 states |
| sweep | `GaugeAgrees`, `CleanupProtects`, `SweepsAreUseful` | two ConfigMaps (one with a rule on a pod name), a Deployment pod and a StatefulSet pod with its own `LD_PRELOAD`, pods changing at will; crash, failing ReplicaSet lookups, patches and Pod List; 769,000 states |
| converge | `RegistryConverges`, `RegistryRecovers`, `PanicsAreRetried` | two ConfigMaps (one of a node, with rules, malformed or without its annotation; one with rules, with a nil restart entry, or deleted), one node, automatic rollouts disabled; crash, failing Gets and event handler; 119,000 states |
| settle | `PodsSettle`, `SweepsAreExact`, `SettledUntilDisturbed` | two ConfigMaps (an exclusion that comes and goes over an install rule), one Deployment pod; crash, webhook timeouts, failing patches; 69,000 states |
| upgrade | `SystemTypeOK`, `GaugeAgrees`, `CleanupRemembered`, `RegistryConverges`, `RolloutsCease`, `CleanupsFinish` | one ConfigMap moving between two image versions and no rules, and deleted, webhook going up and down, automatic rollouts enabled; crash, timeouts, failing patches, lookups and lists of pods and ConfigMaps; 44,000 states |
| merge | `AttributesResolve`, `PayloadMatchesStamp`, `PayloadMountable`, `ReferencesKept`, `EnvMerges`, `AddedVarsResolve`, `WritesIdempotent` | one container whose author lists up to three (`MaxEnv`) of five colliding vars in any order, two of them twice, or another `LD_PRELOAD`; two kinds of pods, several rules and configurations in different modes; the cluster upgraded from 1.34 to 1.35, API servers that do not answer; two mutations (`MaxAdmissions`), the second on top of the first; 154,000 states |
| boot | `TypeOK`, `StartsInOrder`, `ReplicasServe`, `SweepsMayRun`, `WritesLand`, `ViewsConverge` | two replicas, two contents of the rules, eight setups (rotator or other certificates, with and without leader election, another watched namespace, no Service address, webhooks disabled with and without their configurations installed, incomplete ones); processes end at any moment; 33,000 states |

Three env vars are enough for a moved var, the combined attributes and a consumer
of either to stand in every order, and two mutations for one to meet what another
left. Two replicas are a leader and a follower, or an old and a new leader.

The following runs refute something a comment or a document of the repository
states; each is a finding in PROJECT.json:

| run | refutes | what happens |
|---|---|---|
| stripped | `RegistryInSync` | removing the annotation from a ConfigMap is filtered by the watch predicate, so the check for it in `Reconcile` never runs and the entry stays |
| cold_start | `SweepsSpareSettled` | after a start, a targeted sweep runs before the other ConfigMaps are loaded and restarts a workload that is as it should be |
| span_metrics | `SpanMetricsSettle` | the digest does not cover the span-metrics decision, so a change of the BPF rules never reaches running pods |
| removal | `RemovalCleansUp` | a pod admitted just before its ConfigMap was deleted appears after the one cleanup sweep and stays injected |
| follower | `ServedViewsConverge` | with leader election, as the manifests have it, a replica that is not the leader is ready and serves admissions from a registry that stays empty |

Two of these properties come back as theorems about what is left when the
broken behaviour is excluded, see section 4.

`SettledUntilDisturbed` judges a slot before and after a step by the rules of the
first state; a right registry is part of it, so the rules are the same in both. In
the settle run no lookup fails, and `SweepsAreExact` then says that a sweep
schedules exactly the workloads that are due; the part about failing lookups is
covered by its theorem.

Four more disagreements between code and comment have no run of their own; the
properties say what is left, and three of them are checked on instances in which
the cause occurs:

- A null entry in a restart list of two or more makes `sortEligible` panic before
  nil entries are skipped (`configmap_controller.go:333`; the comment at 316 says
  such entries are dropped with no error). The ConfigMap is never loaded, and a
  refresh that meets it panics too. `PanicsAreRetried` shows the endless retry,
  `RegistryConverges` that the other ConfigMaps do not suffer.
- At admission a generated name is still empty, so a rule on pod names (a glob such
  as `agent-*` for the pods of a DaemonSet `agent`) matches in the sweep and in the
  gauge only: every sweep restarts the workload in vain, although
  `configmap_controller.go:371` says "restart so the webhook injects on recreation".
  `SweepsAreUseful` and `GaugeAgrees` hold of every pod that the rules of the moment
  select alike with and without its name (`NamedAlike`). The sweep run has such a
  rule; it violates either property without this condition.
- A pod selected by a rule without an SDK image counts as `pending_restart`, while
  the webhook answers `no_sdk_config` and no sweep restarts it; the comment at
  `collector.go:151` says that gauge and webhook never disagree. `GaugeAgrees` says
  of these pods only that each is counted once.
- A second mutation appends the per-pod resource attributes to those of the first
  (`mutator.go:321`), although the comment at 584 calls the updates idempotent and
  in place; `WritesIdempotent` shows that for everything but these attributes.

A cleanup that is due does not survive the process: `CleanupRemembered` and
`CleanupsFinish` say nothing about the cleanups a crash forgets, or about
ConfigMaps deleted while no controller runs.

Modelling the mutator showed four more things no text of the repository speaks
about. `OTEL_INJECTOR_SERVICE_NAME` and `OTEL_INJECTOR_SERVICE_NAMESPACE`, if the
author sets them, are overwritten in place with a reference to a variable that
may be declared further down; `AddedVarsResolve` is therefore about the variables
the mutator adds itself. With
`add_k8s_uid_attributes`, `addParentResourceLabels` stores the owner's UID under
the key of its name, and `chooseServiceName` may then choose it. A pod that
was mutated in init-container mode keeps the copy init container, and the empty
variables of disabled languages, when it is mutated again in another
configuration. And where an author lists a name twice, `findEnvVar` sees the first
var and kubelet uses the last: a write over such a name has no effect in the
container. The properties read a list as `findEnvVar` does, and `ReferencesKept`
is about vars that are listed once.

The passing runs exclude what the refuted ones show, through the values the
ConfigMaps may take, where the properties do not except it: no change of BPF rules,
and in the settle and upgrade runs no rule on pod names and no nil entries.
`RegistryConverges` and `PodsSettle` say nothing about keys in `missed`: no resync is
assumed for the first. `RegistryRecovers` assumes it, and excuses a missed key only
if its annotation was taken away in place.

A patch that fails in a targeted sweep is an error nobody returns. In the settle
run only a later resync of the ConfigMap makes up for it, and `PodsSettle` is
violated when resyncs are filtered.

### Fairness

`Fairness` asks for what controller-runtime provides: the queue hands out every
key in turn (strong fairness of `Begin(k)`, since another key may keep the worker
busy meanwhile), the worker runs on (weak fairness of `Work`), back-offs end and
handlers run. `RegistryRecovers` has a premise of its own, that informers resync
every annotated ConfigMap from time to time: controller-runtime does so every ten
hours unless configured otherwise, `main` does not, and no predicate filters these
updates. `SystemFairness` adds the same, that the webhook
comes up, that the replacement of outdated pods progresses and admissions get an
answer. The fairness of `Startup` is weak fairness of each part that goes on by
itself: kubelet, control plane, rotator, the registering goroutine, the server,
probes, the election, the reconciler, and Beyla, which repeats a write that was
refused. Failures, crashes, exits and changes are never fair and never assumed to happen;
the liveness properties are about behaviours in which they eventually stop.

### Mutants

Each property of each passing run has a mutant in PROJECT.json: a variant of one
definition, with a bug the code could plausibly have had, that makes TLC report
the property.

## 4. Proofs

For every set of ConfigMaps, nodes, pods, owner chains, users and faults, every
number of replicas, and env lists of every length:

| theorem (module) | states |
|---|---|
| `TypeCorrect` (`ReconcilerProofs`) | `Spec => []TypeOK`; more than a type is that a sweep only ever schedules workloads that own pods, although a failing lookup changes what it sees |
| `RegistryStaysCurrent` | `Spec => []RegistryCurrent` |
| `SnapshotIsExact` | `Spec => []SnapshotExact` |
| `CleanupIsSafe` | `Spec => CleanupProtects`, an action property |
| `RolloutsAreUseful` | `Spec => SweepsAreUseful`, for any rules, if templates carry no stamp |
| `RightEntriesStay` | `Spec => RightUntilDisturbed`: a key taken from the queue has its entry written right and kept right until something changes or fails |
| `SweepsDecideExactly` | `Spec => SweepsAreExact`: on a current registry, a sweep schedules what is due and nothing else |
| `InformedSweepsDecideExactly` | the same when no entry is `Excused`, or in a cleanup during which nothing has moved, with nothing assumed of the registry |
| `NothingIsMissed` | `Spec /\ [][~Unnoticed]_vars => [](missed = {})`: an annotation removed in place and a failing handler of a Node event are the only ways for a change to escape |
| `NoticedChangesArrive` | `RegistryConverges` implies `RegistryInSync` in every behaviour without these two, if in the end no ConfigMap is left that makes its reconciles panic |
| `ReconcilerImplementsCache` (`CacheProofs`) | `Spec => ImplementsCache`: the reconciler refines `RuleCache` |
| `ValidatedImplementsSpec` (`ValidatorProofs`) | `ValidatedSpec => Spec`, so the theorems above hold behind the validator |
| `VouchedCacheSuffices` | `Spec /\ []CacheVouched => []RegistryTrusted`: the registry is as trustworthy as the annotated ConfigMaps in the cache |
| `RegistryStaysTrusted` | `ValidatedSpec => []RegistryTrusted` |
| `SystemTypeCorrect` (`InjectorProofs`) | `SystemSpec => []SystemTypeOK` |
| `SystemImplementsSpec` | `SystemSpec => Spec`, so the theorems above hold in the composition |
| `CleanupsAreRemembered` | `SystemSpec => []CleanupRemembered` |
| `SettledSlotsStay` | `SystemSpec => SettledUntilDisturbed`: once the registry is right, settled slots only grow in number |
| `SettledForGood` | when all is settled and no restart is on its way, it stays so and nothing is patched any more, while nothing changes or fails |
| `GaugeAlwaysAgrees` (`GaugeProofs`) | `Spec => []GaugeAgrees`, for any rules: the two conditions of the property, an SDK image and a selection that does not hang on a generated name, are conditions on the single pod and the rules of the moment |
| `SystemGaugeAgrees` | `SystemSpec => []GaugeAgrees`: with the same conditions, in the composition |
| `StartupTypeCorrect` (`StartupProofs`) | `Spec => []TypeOK` of `Startup` |
| `ReplicasStartInOrder` | `Spec => []StartsInOrder`: no webhook is registered before its certificate is on the disk |
| `PayloadAlwaysMatches` (`MutatorProofs`) | `Spec => []PayloadMatchesStamp`: the digest on the pod does not lie about the payload |
| `PayloadAlwaysMountable` | `Spec => []PayloadMountable` |
| `AttributesAlwaysResolve` | `Spec => []AttributesResolve` |
| `ReferencesAlwaysKept` | `Spec => ReferencesKept`, an action property, as the next three |
| `EnvAlwaysMerges` | `Spec => EnvMerges` |
| `AddedVarsAlwaysResolve` | `Spec => AddedVarsResolve` |
| `WritesAlwaysIdempotent` | `Spec => WritesIdempotent` |

The assumptions are those of the modules, which TLC evaluates in every run:

- `Selection`: keys are naturals, `""` is an image and not a node name, `Absent` is
  neither a ConfigMap nor a config, there are finitely many pods (`SlotsAreFinite`;
  the gauge counts them);
- `Reconciler`: `Writes` holds ConfigMaps; `Injector`: pods are in the states an
  admission can leave them in;
- `Startup`: the form of a setup, that enabled webhooks are installed
  (`EnabledWebhooksAreInstalled`), at least one replica, and that `Nobody` and
  `NoRules` are neither replicas nor rules;
- `PodMutator`: the form of a configuration, whose mode may be any string, as
  nothing in the code checks it (`ConfigsAssumption`); the cluster's version does
  not go down, and what the API server reports is that version or nothing that can
  be read (`ServersAssumption`); a var has a value or a field to take it from, not
  both, and no two volumes of a pod have the same name (`RuleEnvsAssumption`,
  `AuthoredAssumption`), or the API server would refuse the pod; and no author
  mounts a volume with the payload's name twice, of which `addMount` would update
  the first.

Three theorems have hypotheses of their own. `RolloutsAreUseful`, `SettledSlotsStay`
and `SettledForGood` assume that no template carries the stamp
(`TemplatesAreUnstamped`); the last two also that no rule depends on the generated
name of a pod (`NamesDoNotMatter`), without which they are false, as section 3 says
of the sweeps. The values of the settle run satisfy both; those of the sweep run
only the first, and `SweepsAreUseful` needs no more.

### Reconciler, cache, validator, composition

The inductive invariant `IInv` adds two parts to the properties.
`RegistryCurrent` alone is not inductive: a reconcile writes the registry from
`got`, so one must know that `got` is what the cache holds or that the key is
queued again (`LocalsCurrent`, with one clause per step before the write, and the
third way out for a failed node lookup, whose error will requeue the key).
`Replace` overwrites every entry from a snapshot taken earlier, so the same is
needed of the snapshot, key by key, both for keys already looked at and for those
still to do; and without excuses as long as nothing has moved (`RefreshCurrent`).
The step theorem has one case per action; actions that share an argument go
through a lemma: `ExcusesKept` (no cache changes, no excuse is lost),
`ChangesAreExcused` (every key a change concerns is excused afterwards),
`DoneConsistent`, `RetryKeepsCurrent` and `ReturnKeepsCurrent`. TLC checked
`IInv` on the instance of the sync run before it was proved.

`CleanupIsSafe` follows from the invariant: at a cleanup sweep the registry equals
what the ConfigMaps deserve; that a failing lookup only takes decisions away rests
on `TruncatedOwner` (a truncated chain ends in a ReplicaSet, which cannot be
rolled). `RolloutsAreUseful` compares the decision of the sweep with that of the
webhook on the same registry (`NeededRolloutChanges`). The refinement of
`RuleCache` uses `IInv` at both ends of a step: an entry that is rewritten was
excused before, because the worker was at its key, and is right or excused after.
`VouchedCacheSuffices` needs the same of everything the registry may be written
from: the cache, `got`, the list and the snapshot (`TrustInv`); its premise is about
the cache alone, and that the validating webhook guarantees it is a separate, short
argument (`ValidatedStepVouched`), from which `RegistryStaysTrusted` follows. As the
composition with pods implements `Spec`, what is proved from `Spec` and a premise
on the cache holds there as well. That the composition
implements `Reconciler` is a step-by-step argument (`StepMaps`); it needs
`SystemTypeOK`, because a pod that appears must be in a state `PodStep` allows.
`CleanupRemembered` is not inductive: that a reconcile puts its key back depends on
where it is and what it has read, so `OwedInv` says that an owed key is queued, or
is the key of a reconcile under way that found no ConfigMap (whose sweep is then a
cleanup, and whose failures are reported); and that nothing is owed where automatic
rollouts are disabled.

### Towards convergence

Liveness itself stays with TLC, but what convergence rests on is proved, so that
only fairness is left to it. `RegistryStaysCurrent` says that wherever an entry is
wrong, work for it is pending (or the change was missed). `RightEntriesStay` says
that once the worker takes that work up, the entry is right or about to be
(`Right`), and no longer depends on luck: not on reconciles of other keys, which may
replace the whole registry from a list read earlier, not on panics, retries or the
gate. The invariant behind it is no new one: `Right` speaks of the entry together
with what the reconcile at hand has read of it (`LocalsRight`), and is preserved
action by action (`RoutineKeepsRight`).

The next stage is the pods. On a right registry, sweep, webhook and `Settled` agree
on what a pod should carry (`NeededIfUnsettled`, `AnswersSettle`), although each
looks at another view of the pod. Hence a sweep schedules exactly what is due
(`SweepsDecideExactly`), and what comes out of an admission is settled; a slot that
is settled can lose that only to a change, a failure or a restart
(`SettledSlotsStay`). In the end all slots are settled and nothing is scheduled;
`SettledForGood` says that this state is closed, and that resyncs, which make the
controller sweep again and again, patch nothing there. It is the safety half of
`PodsSettle` and `RolloutsCease`; that the state is reached is checked by TLC.

### What holds where the documents are wrong

The run cold_start refutes that sweeps spare settled workloads.
`InformedSweepsDecideExactly` gives the condition under which they do: nothing is
pending or missed for any entry, so the registry is right by the inductive
invariant, or the sweep is a cleanup, whose snapshot is exact as long as nothing has
moved. The run stripped refutes that the registry follows the annotated ConfigMaps;
`NothingIsMissed` shows that the two causes in `Unnoticed` are all there are, and
`NoticedChangesArrive` that without them, and without a ConfigMap that makes its
reconciles panic, `RegistryInSync` is no more than `RegistryConverges`.

### Gauge

`Collect` is a tally: a function from labels to how many pods have them.
`TallyAddsUp` says that the series of any set of labels add up to the pods that
have one of them; its proof enumerates each class by a bijection and puts these
together, since a sum over a set has no other handle. What is left is that the
label of a pod is its workload and the status of the webhook's outcome:
`RolledIsTopMost` compares `Workload`, which takes the topmost owner, with the
owner a sweep would roll, and the statuses follow by cases from the order in which
`classify` and `Default` look at the same match, which is what `NamedAlike` asks for.

### Start-up

`StartsInOrder` needs two facts of the state to be inductive (`InOrder`): without
the rotator the certificate is there from the start and on every replica, and
registration has begun only where webhooks are enabled. `StartupTypeCorrect` says
more than types: a process that does not run neither listens nor leads, and a
follower's registry is empty.

### Mutator

The state invariant `MInv` is small: a pod stays a pod (`IsPod`), and the controller
runs under a configuration of the file, with image volumes only if the file says so
or the cluster has them (`Settled`). The weight is in what one mutation does to an
env list of any length, through some fifteen writes by four helpers, two of which
move vars about.

These writes are treated as an algebra. `Edits(a, t, w, F)` says that the list `t`
is `a` with the writes `w`, in which the vars of `F` may have moved up: what each
name means in `t`, that the order of the old names is kept but for those of `F`,
that nothing is lost, listed anew where it was, or duplicated, and that `t` is `a`
in place, if there was nothing to append or to move. `EditsCompose` chains edits;
`UpsertEdits`, `FieldPathEdits` and `JoinEdits` show that each helper is one, from
the position of every element of its result; `ApplyEdits` does it for the rule's
list of any length. `WrittenEdits` puts them together: there are writes that
depend on the configuration, the pod's metadata and the container's name and image
only, and every env list is edited by them and by one chunk of attributes whose
references are in `F`. The five theorems about env vars read off what they need:
the old order for `ReferencesKept`, the position of `F` before the attributes for
`AttributesResolve` and `AddedVarsResolve`, the meaning of each name for
`EnvMerges`, and, because all names are there the second time, the in-place part
for `WritesIdempotent`.

`ApplyEdits` is an induction over the rule's list. The library's induction
theorems take an operator as a parameter and cannot be used here; it is carried
out with a set instead (`SetInduction`: a set with 0 that is closed under the
successor holds all naturals, from the well-foundedness of `<`), applied to the
set of lengths for which the claim is true. `applyEnvVars` is for that reason the
last value of a recursive function (`Applied`).

### Only model-checked

The liveness properties (`RegistryConverges`, `PodsSettle`, `RolloutsCease`,
`CleanupsFinish`, `ReplicasServe`, `SweepsMayRun`, `WritesLand`, `ViewsConverge`):
fairness and `ENABLED` are beyond the prover. Every safety property a passing run
checks is a theorem. `NoticedChangesArrive` takes `RegistryConverges` as a premise
for the same reason.

## 5. Not modelled

- Lag between API server and caches, beyond what the caches' own steps show.
- The options and TLS settings of metrics and webhook servers; expiry and renewal
  of a certificate that is in use, which is inside the rotator's library.
- Request and restart counters, log filter, build information: nothing reads them
  back.
- The node label of the gauge, and a scrape whose List fails, which yields no
  samples.
- Collisions of the digest.

## 6. What is left

1. `RemovalCleansUp` under a condition: that a deleted ConfigMap is cleaned up after
   if no admission is in flight when it goes. It is a liveness property, so only a
   run could show it.
2. The induction that the settled slots reach all of them: every sweep shrinks what
   is due. It needs fairness, and TLC checks its outcome (`PodsSettle`).
3. Lag between the API server and the informers' caches as state of its own.
