# Verification of the Feast module operator

TLA+ modules, TLC configurations and TLAPS proofs about the Feast module operator. Line
references are to files of the repository; `<ctl>` abbreviates
`internal/controller/feastoperator/feastoperator_`, so that `<ctl>capabilities.go` is
`internal/controller/feastoperator/feastoperator_capabilities.go`.

## 1. The system

The ODH platform installs this operator and creates one `FeastOperator` CR. The operator
deploys the upstream *feast operator* and tells it, through the ConfigMap
`feast-capabilities-config`, which of its two capabilities (Feature Store, Data Registry) to
run. The feast operator is another program; the two synchronise only through that ConfigMap.

| Component | State | Operations | Talks to |
|---|---|---|---|
| Reconcile pipeline (`<ctl>controller.go:130-150`) | the CR, the cluster objects it writes; nothing in memory between reconciles | namespace label, ConfigMap, releases, version handshake, selector migration, deploy, rollout | API server (live for ConfigMaps and Secrets, cached for the rest) |
| Finalizer `cleanupClusterResources` (`<ctl>controller.go:188-266`) | the same objects | unlabel, announce teardown, roll, delete, wait (bounded), release, delete cluster roles | feast operator, through the ConfigMap |
| Capabilities ConfigMap (`<ctl>capabilities.go`) | data, two finalizers, deletion timestamp, cleanup-started annotation | created, updated, deleted, released | module operator, feast operator, users |
| Data Registry namespace (`<ctl>namespace.go`) | the label `dataregistry.opendatahub.io/enabled` | create and label, unlabel | the cached Namespace, which nothing watches |
| Deployment migration and rollout (`<ctl>actions.go:77-121`, `<ctl>capabilities.go:168-223`) | selector and hash annotation of the Deployment | delete for recreation, annotate | the cached Deployment, which is watched |
| Version handshake (`<ctl>upgrade.go`, `<ctl>platform_version.go`) | `status.releases`, version of the running process | `upgradeIfNeeded`, releases action, `reconcilePlatformVersion` | `odh-data-config`, written by the platform |
| Configuration (`pkg/config`) | viper layers | `Load`, `loadFromFS`, `bindEnv` | mounted `odh-data-config`, environment |
| RBAC check (`hack/verify-rbac`) | three roles | three subset checks | the build |
| Chart generator (`cmd/chartgen`) | the output directory | `run`: decode, group by GVK, extract defaults, template, write; `make helm` around it | kustomize before it, Helm and the ODH Operator after it |
| Manager (`pkg/manager`), entry points (`cmd`) | caches, lease | assembly | controller-runtime |

What makes each correct:

* **Uninstall.** The ConfigMap outlives the feast operator's cleanup, and so do the things the
  feast operator needs to clean up; a feast operator that does not answer cannot block an
  uninstall for longer than the timeout; nothing is left behind that would make another program
  believe the registry is still wanted.
* **Reconcile.** The configuration a CR settles on reaches the ConfigMap, the pod template and
  the namespace label, whatever failed on the way; a ConfigMap a user deletes comes back.
* **Handshake.** The version the platform settles on is recorded; upgrade hooks run on every
  advance.
* **Configuration.** The strongest source wins, key by key.
* **RBAC check.** "OK" means what the API server would say.
* **Chart generator.** Nothing of the input is lost and nothing older is left; the chart renders
  when every reference must resolve; its defaults reproduce the build; a namespace, an account or
  an image that an installation sets reaches every place that names it.

Hard to test, and so the target of the properties: the interleaving of the finalizer with the
feast operator, users and the platform on one ConfigMap; crashes and lost answers between any two
calls; the timeout racing the release; decisions on informer caches that are behind; two readers
of one status entry with a writer between them; text transformations that must agree with each
other across kinds of objects. `PROJECT.json` lists them line by line.

## 2. Modules

| Module | Models |
|---|---|
| `FeastModule` | the controller: worker, ConfigMap, Deployment, namespace, cluster roles, the feast operator, users, platform, caches |
| `UninstallContract` | what an uninstall promises the feast operator, without the mechanism |
| `FeastModuleProofs` | theorems about `FeastModule`, including its safety refinement of `UninstallContract` |
| `FeastCachesProofs` | theorems about `FeastModule` that need a current cache |
| `MCFeastModule` | instances of `FeastModule` for TLC |
| `PlatformHandshake`, `PlatformProofs` | the version handshake, composed with restarts of the process and the platform |
| `ModuleConfig`, `MCModuleConfig`, `ModuleConfigProofs` | the configuration loader |
| `VerifyRbac`, `MCVerifyRbac`, `VerifyRbacProofs` | the RBAC check |
| `ChartGen`, `MCChartGen`, `ChartGenProofs` | the chart generator, and Helm installing what it generates |
| `ChartLinesProofs`, `ChartInstallProofs` | theorems about `ChartGen`: what each pass does to a line, what Helm installs of it |

`PlatformHandshake` is a separate module because the handshake shares only the worker with the
rest of the pipeline: it runs in the same reconciles but reads and writes only `status.releases`
and `odh-data-config`. The actions before the handshake that can keep a reconcile from reaching it
are steps of it: `SetKustomizedParams`, which refuses an issuer URL in every reconcile until the CR
is edited, and `ReconcileObjects`, whose own writes are `FeastModule`'s. Any of the actions, before or
after the handshake, may also fail for once (`CallFails`).

### FeastModule and the code

| Model | Code |
|---|---|
| `cr`, `spec` | the CR (`new`: created, the framework's finalizer not yet added) and `spec`: its capabilities (`Unset`: absent) and whether its issuer URL is accepted |
| `cm` | the ConfigMap: `mod`, `op` its two finalizers, `deleting` its deletion timestamp, `started` its annotation, `data` the two flags and whether the namespace key is present |
| `age` | time since the annotation was written, in ticks, stopped at the timeout |
| `gaveUp` | the `CapabilitiesCleanupTimeout` Warning was emitted for this ConfigMap |
| `dep`, `pod` | the Deployment (owner, selector, hash annotation) and the feast operator that runs in it, with the configuration it read when it started |
| `ns`, `rbac` | the label of the namespace; which of the two kinds of cluster-scoped objects exist |
| `depC`, `nsC`, `rbacC` | the informer caches |
| `pc`, `req` | the call the worker makes next; the capabilities it resolved when the reconcile started |
| `fresh` | the optimistic lock: no write of the ConfigMap since the worker read it |
| `pending` | the CR's key is in the work queue |

Each API call of the code that can change or read shared state is an action of its own
(`CapabilitiesGet`/`CapabilitiesPut`, `MarkGet`/`MarkPut`, `ReleaseGet`/`ReleasePut` are the read
and the write of one Go function); two calls are merged only where nothing another process can do
between them changes what the second does (a `Get` followed by a `Delete` by name, a cached read
followed by a patch). ConfigMaps are read live because the manager disables their cache
(`pkg/manager/manager.go:112-120`); Deployments, Namespaces and cluster roles come from caches.
`WriteConfigMap` is the API server: it removes a Terminating object with its last finalizer and
lets the watch queue the CR as `capabilitiesConfigMapWatchPredicate` decides.

Abstractions, and why they do not decide a property:

* hashes of distinct data are distinct (`Hash`);
* a cache jumps to the current object: the intermediate versions it would pass through are the
  ones it had earlier;
* the CR is read as it is when the reconcile starts; a spec edit during a reconcile queues the
  key again;
* `Abort` stands for a failed call, a call that took effect and whose answer was lost, a crash
  and a lost lease: all four leave the cluster as it is and bring the worker back with the key in
  the queue. It can happen before every call, which is also after the previous one;
* the two lists of cluster-scoped objects are one element each: objects of one kind are deleted
  independently of each other;
* `setKustomizedParams` comes before every write and works on the copy of the CR that was read, so
  it is a part of `Start`: a refused issuer URL is an error that every retry meets again;
* status, conditions, rendering of manifests and the framework's in-namespace garbage collection
  action are left out.

The feast operator is modelled from what the code expects of it: it reads the ConfigMap when it
starts, claims a live ConfigMap that enables the Data Registry, and releases after a teardown it
was told of. `EagerRelease` also lets it release any Terminating ConfigMap. It may do any of this
late or never, and it may be restarted at any time. A fresh cluster and the upgrade of a running
one (old selector, no ConfigMap or one without finalizers) are initial states.

### The other modules

`PlatformHandshake`: `recorded` is the `platform` entry of `status.releases`, `mem` the entry in
the copy of the CR that one reconcile works on. The releases action clears it, the handshake sets
it, the status write publishes it even after an error; an error before the releases action leaves
what was recorded. `accepted` is whether the CR's issuer URL is, `memAccepted` the same of the copy;
users edit it at any time. Versions are numbers with a form: `strict`
(what `semver.Parse` accepts), `loose` (only `ParseTolerant`) or `junk`. `served` and `upgraded`
are history variables.

`ModuleConfig` keeps viper's layers (default, config, override of the temporary instance,
environment) and is compared with a definition that has no layers, `Strongest`. `path` is what the
configuration path leads to: none is given, a directory, a single file, or nothing that can be read;
only a directory can be listed. `VerifyRbac` is compared with what the API server allows (`Allows`);
`NamedOnly` is a permission that a role has for named objects only.

### ChartGen

The generator marshals a resource, with sorted keys, and edits the text line by line. A manifest is
therefore a set of lines: the section it is in (`at`), the list element (`n`), key, value (tokens,
or the template that replaces it) and whether it is the first line of a list element, which begins
with a dash and so escapes the prefix tests of `chart.go`. One operator stands for each function,
in the order the code composes them. `run` is a step per file that is written (`WriteGroup` in any
order, as Go iterates the map), any of which may fail (`StepFails`); `MakeHelm` is the `helm` target
of the Makefile, which removes the directory and starts the generator, also over the remains of a
failed run. The last section is Helm's part: the values of an installation over `values.yaml`, the
helper templates, and the rendering of each line.

The inputs are sequences of resources of the kinds `config/default` prints, with the variations
that the text edits depend on: image references with and without registry port, tag and digest;
quantities that YAML reads as text or as numbers; a second container or an init container; webhooks
and certificates; two kinds of one name in different groups; documents without a Deployment. They
have the shape of the repository's manifests, and the properties claim nothing beyond it. The shape
is stated by assumptions that TLC evaluates on the inputs of `MCChartGen` and on which the theorems
of `ChartInstallProofs` rest:

* `NamespacesAssumption`: a namespace is never the first line of a list element; it is named by an
  object that has one, or by a kind the generator treats apart; only webhooks ask for CA injection;
* `AccountsAssumption`: where pods or subjects name an account there is a ServiceAccount, with a
  name and a namespace; subjects occur in role bindings only;
* `PodsAssumption`: a Deployment names its account and has no pull secret of its own; `env:` opens a
  block;
* `ImagesAssumption`: all containers of all Deployments use one image; a reference has a
  tag or a digest, or neither, not both;
* `ResourcesAssumption`: a block of resources has all four quantities, the same ones in every
  container that has such a block, the first container among them; memory is text;
* `ConfigAssumption`: the controller's ConfigMap has no data;
* `InstallsAssumption`: what an installation sets is not empty, a tag is set alone, and no variable,
  annotation or key of the configuration is called like a field that the generator looks for.

`DefaultsReproduce` has one hypothesis more, `BuiltFor`: kustomize was run for the namespace and the
name of the release, and the Deployment has the one replica that `values.yaml` will say
(`ChartReplicas` shows why).

Outside that shape the code does something else, as the operators of the module say: the image of
every container becomes the one of the first; `- image:` or `- env:` on the first line of a list
element is not matched (its pull policy is dropped all the same); resources without requests give
empty ones; a memory quantity that is a number is lost; subjects that are users or other accounts
are renamed; data of a ConfigMap are dropped and not extracted into `values.config`.

Definitions named in a comment in parentheses (`KeepLabel`, `DeferWhileManaged`, ...) are rejected
variants of the definition below them: the plausible mistake that the properties are there to
catch. No specification uses them.

## 3. Runs

| Configuration | Question | Bounds |
|---|---|---|
| `FeastUninstall` | safety of the handshake under crashes; an announced teardown is final; the migration spares a current Deployment; uninstalls end, configurations and labels arrive, a deleted ConfigMap comes back; refinement of `UninstallContract` | specs {absent, features only, refused}, environment enables both, timeout 2 ticks, 2 faults, current caches |
| `FeastLag` | the handshake and progress do not rely on a current Deployment cache | specs {both, none}, timeout 1, no faults, the Deployment cache lags |
| `PlatformRecords` | a controller at rest has recorded what is published; the settled version is recorded | 3 versions, 2 faults, withdrawal, refused and corrected specs |
| `ConfigPrecedence` | precedence and failure of loading | 2 keys (a flag, a text), 4 kinds of path, up to 2 directory entries of 5 kinds, every environment |
| `RbacCoverage` | OK means coverage, but for permissions on named objects | all three roles with and without names, up to 2 rules, 2 resources, 3 verbs, 2 names; the rule of the repository's module role is among them |
| `ChartGen` | completeness, renderability, one namespace, one account, defaults, installations | 2 generations over 3 earlier contents, 38 inputs, 5 installations, 2 releases, 2 versions |

The bounds: two ticks separate "waiting", "about to time out" and "timed out"; two faults allow a
crash in the retry of a crash; two specs that differ in the Data Registry give every change that a
step reacts to (the other flag is only copied); one lagging copy of an object is enough, since a
decision reads one object; a refused spec before, between and after accepted ones is every place it
can have. Two entries of a directory give every pairwise override. Three versions
give two consecutive advances. Two generations are one that starts from what another left, finished
or not; an installation of each value, and of the combination the ODH Operator uses, is enough
because each template reads one value, or one and those it falls back on.

Runs that must find a violation, each a disagreement of the code with a comment:

| Configuration | What happens |
|---|---|
| `FeastStaleSelector` | a retry whose Deployment cache lags deletes the Deployment that was just recreated |
| `FeastStaleLabel` | a finalizer whose Namespace cache lags leaves the label on, and nothing looks at it again: Namespaces are not watched and the CR is gone |
| `PlatformSkipped` | the old process records the new version, the new one finds nothing to upgrade |
| `PlatformLoose` | `v2.22` is recorded once and fails every later reconcile |
| `RbacNames` | rules restricted to names are compared as if they were not |
| `ChartReplicas` | a Deployment of three replicas becomes a chart of one: the number is a float64, `NestedInt64` wants an int64, the error is ignored |

More divergences that need no run. The handshake's comment says that it compares the published
version "with the version recorded in status.releases" (`<ctl>platform_version.go:46-49`); the
releases action has overwritten that entry just before (`TypeOK` states it), so
`handlePlatformUpgrade` is called in every reconcile that finds a version published. The path of the
configuration may be "the mounted ConfigMap directory (or a single config file)" (`config.go:63-65`);
a file cannot be listed, so loading fails and the operator does not start (`FailsOnlyWhenBad` states
it), as it does when the directory is missing. And `hack/verify-rbac` calls a chart "in
sync" that has more permissions than the source role, since only missing ones are looked for
(`main.go:165-178`); it reads the operand's `role.yaml` before kustomize adds the binding of
`system:auth-delegator` to it, so that permission is not compared at all. In the chart generator, certificates' DNS names and `inject-ca-from` take
`.Values.namespace` as it is, without the release's namespace as a default, although the comments
speak of the Helm release namespace (`chart.go:221-222`, `235-236`): `OneNamespace` is about
installations that set it, as the ODH Operator does. No generated template reads `leaderElect`,
`nameOverride` or `upgradeGates`; the template that read the last, `templates/upgrade-gates.yaml`,
is written by hand, and `make helm` removes it with the directory. A tag set for an image that was
built with a digest gives a reference that is not valid (`InstallHonoured` excepts it). Run in
place, without `make helm`, the generator keeps an old Chart.yaml and files of resources that are
gone.

Three properties say what a CR with a refused issuer URL gets: it can be uninstalled
(`UninstallCompletes`), a version published meanwhile is recorded only after the URL is corrected
(the condition of `VersionSettles`), and a ConfigMap that a user deletes meanwhile stays Terminating on the
module's finalizer until the URL is corrected (the exception in `ConfigMapComesBack`).

### Fairness

Weak fairness of `WorkerStep` (controller-runtime runs the worker and retries a failed key), of
`Tick`, and of each cache's synchronisation (watches deliver). Nothing is assumed of the platform,
users, the feast operator or the garbage collector; liveness holds whatever they do. In
`PlatformHandshake` the platform's rollout of a new version is fair as well; `VersionSettles` is
about a version the platform has settled on and a CR that is accepted for good: as long as it is
refused the code records nothing, and retries. Faults are bounded, so they stop eventually, which
is what a retry needs.

`ConfigurationArrives` and `LabelArrives` are about an accepted spec that stays; the former excepts a
Terminating ConfigMap the feast operator holds on to, which the module may not take away.

## 4. Proofs

Every invariant and every action property that a passing run checks is a theorem for every value of
the constants. The hypotheses are the named assumptions of each module and those below.

`FeastModuleProofs` proves, from `FeastModuleAssumption` alone, for every set of specs, timeout,
number of faults, set of lagging caches and both kinds of feast operator:

* `Invariance`: `InductiveInvariant` always holds; `TypeCorrect`, `NoEarlyGiveUp`,
  `IntentSurvives`, `WaitsAnnounced` follow from it, `ServedUntilRelease` (an action property)
  with a look at which steps remove anything;
* `RefinesContract`: every step is a step of `UninstallContract` or stutters;
* `TeardownStays`: no step takes back an announced teardown, not the retry of a finalizer that
  crashed nor the first reconcile of a CR that is created while the old ConfigMap is Terminating.
  It needs that an annotated ConfigMap has nothing enabled, and that as long as it is not
  Terminating the CR is being deleted and no reconcile is under way (`MarkHeld`).

The properties are not inductive: that the last step of an uninstall leaves only an announced
teardown depends on what the finalizer did many calls earlier and that nobody undid it.
`InductiveInvariant` therefore says what holds from each place of the finalizer on
(`FinalizerProgress`), what the API server guarantees of the ConfigMap (`ConfigMapSettled`), and
what a CR that is not yet reconciled has found (`LeftByPredecessor`; it also settles that the
annotation of an earlier uninstall never cuts short a wait that is still going on). The argument:
others never revive a Terminating ConfigMap, change its data or add finalizers to it
(`WriteOfAnother`); the worker's own writes keep annotation and deletion (`WriteOfWorker`); so the
intent written by `MarkPut` survives, after the wait the feast operator has released or was given
up on, after the release the module holds nothing, and an object that still exists is held by the
feast operator alone, hence given up on.

`FeastCachesProofs` adds what needs a current cache, each theorem with the one cache it needs as
its hypothesis (`FeastStaleLabel` shows that it cannot be dropped): `Unadvertised` (nothing labels
the namespace again after the finalizer's unlabel, `NamespaceQuiet`), `RolesRemoved` (the two lists
are worked off in order, `RolesWorkedOff`), `TeardownReachesPods` (from the rollout to the end of
the wait nobody changes the data or the hash, `RolledOut`), `MigrationSpares` (the Delete of the
migration has no preconditions, so only the cache keeps it from deleting a Deployment that has the
right selector; `FeastStaleSelector` shows the hypothesis at work).

`PlatformProofs`: `HandshakeTypes`, whose last conjunct is that in every handshake the releases
action has already cleared the entry, and `RestIsRecorded`: no event, failure or refused spec is
forgotten. Its invariant says that from the handshake to the status write the copy holds what is
published or the event of the change is queued, and that a failed reconcile is queued again
(`Handled`). `ModuleConfigProofs`: `StrongestLoaded` and `FailureIsBad`, from an invariant that says
what the layers hold after the entries read so far (`LoaderInvariance`). `VerifyRbacProofs`, from an
invariant that collects the checks passed so far (`VerdictsRest`): `OkIsCovered` and
`PassingChartGrants`, for all roles, up to permissions on named objects, which the tool does not
compare; and `OkIsCoverage`, without that exception, where the operand has such a permission for no
other objects than the module operator (`NamesAgree`) and its permissions on namespaces are not for
named ones (`RequiredUnnamed`). The repository's roles satisfy both: the module role names
`system:auth-delegator` alone, for `bind`, which the operand's `role.yaml` does not have and its
patch adds for the same object. `RbacNames` shows that the first is needed. `ChartGenProofs`: `Complete`, whose invariant says, for each
place of `run`, which files exist and that each holds the group it is named for (`ChartInvariance`);
it needs that file names are injective on GVKs, which `NamesAssumption` gives; and
`AlwaysRenderable`: extraction keeps every key of `DefaultValues`, what a template refers to is
among them, and a CRD, which has no namespace, goes through no transformation that inserts one.

`ChartLinesProofs` and `ChartInstallProofs` prove what an installed chart says, for every input,
installation and release that satisfies the assumptions of section 2: `InOneNamespace`,
`AccountsInstalled`, `InstallsHonoured`, `DefaultsReproduced`. A pass of the generator is a function
of a set of lines, and what it makes of a line depends on later passes too, so the argument goes from
lines to resources:

1. Passes work line by line: the result for a set is the union of the results for its elements
   (`PartByPart`, `OnLine`). The passes of a kind, in the order in which the code composes them, are
   followed with one line, case by case, and what the earlier ones insert with the later ones
   (`DeploymentOnLine`, then one `...Lines` lemma for each kind).
2. Each line of the result is rendered (`Shown...`), which gives what an installation has for one line
   that kustomize printed: `PutDeployment`, `PutAccount`, `PutSubject` and so on. `ResourceInstalled`:
   an installed resource is the union of these over its lines.
3. Read backwards (`InDeployment`, `InAccount`, ...), a line that was installed is one that was
   printed, with a value that was replaced, or one of the few that are added. `InOneNamespace` and
   `AccountsInstalled` follow by kind.
4. Images: `splitImageTag` looks for the last colon with no slash after it. If there is none, a tag
   is added; in both cases repository and tag make up the reference again (`Untagged`, `CutAtTag`,
   `ImageParts`), so that a tag set alone replaces what was the tag and never a registry's port.
5. Defaults: what `ExtractDefaults` finds in the first Deployment (`ExtractedImage`,
   `QuantityExtracted`) goes back to every line it was taken from (`DeploymentBack`,
   `QuantitiesBack`), up to what `Meaning` leaves out; all other resources are installed line for
   line as they were printed (`OthersAsPrinted`).

That the handshake does not rely on the caches of the Namespace and the cluster roles either is in
`IntentSurvives` and `ServedUntilRelease`, which hold for every set `Lagging`; liveness is checked
with current caches and with a lagging Deployment cache.

Only model-checked: the liveness properties, `UninstallCompletes` and its like, and the fairness part
of `UninstallContract`; they are out of the prover's reach. The violations that section 3 lists are
TLC's as well.

## 5. Not modelled

* Rendering by kustomize, the deploy cache, the in-namespace garbage collection and the status
  conditions: they are the opendatahub-operator framework's, whose code is not in the repository;
  the controller only lists them in its pipeline.
* The value of the issuer URL and the image parameters in `params.env`: written by one process to a
  file of its own and read back by the same reconcile.
* The assembly of the manager and the commands, the printed version, generated deep copies: no state
  and no decisions. Of the manager the model has what is cached and what is read live.
* Bundled manifests, CRDs, tests, chaos knowledge and CI: data, read as documentation of the system.
* Reading of YAML and printing in `hack/verify-rbac`; wording and indentation of the chart, and
  values.schema.json, which is reflected from the type of the values.
* Names: what is longer than the 63 characters to which the chart's helpers cut a release's name
  (`helpers.go:35`), and labels or annotations called `name` whose value only contains the
  ServiceAccount's (`chart.go:442` tests that the line contains it, the model that it is the value).
* With a lagging cache of cluster roles an uninstall can leave a role behind that was created just
  before; the code makes no promise about it that the model could contradict.

## 6. What could follow

1. `FeastModule` with several cluster-scoped objects per kind, and the readiness condition of the CR
   as a function of the Deployment.
2. Composition of `PlatformHandshake` with the pipeline (a failing handshake delays the deploy but
   not the ConfigMap, which is written before it; in `FeastModule` it is a fault, which is bounded).
3. Weaker assumptions on the chart generator's inputs: several images or unlike resource blocks,
   with properties that say what the first container's values then do to the others.
