------------------------------ MODULE FeastModule ------------------------------
(***************************************************************************)
(* The FeastOperator controller of the module operator: its reconcile      *)
(* pipeline, its finalizer, and the objects both of them share with the    *)
(* platform, the users and the feast operator through the API server.      *)
(*                                                                         *)
(* There is one FeastOperator CR (a singleton), hence one key in the work  *)
(* queue and one worker.  A worker step is one call to the API server, or  *)
(* several when nothing can happen between them that the later calls would *)
(* see.  ConfigMaps are read from the API server; Deployments, Namespaces  *)
(* and cluster roles are read from informer caches, which lag.             *)
(***************************************************************************)
EXTENDS Naturals

CONSTANTS
  Specs,          \* specs of the CR
  Unset,          \* spec.capabilities is absent
  EnvCaps,        \* the capabilities configured in the process environment
  Timeout,        \* feastOperatorReleaseTimeout, in ticks of the clock
  MaxFaults,      \* bound: failed calls and crashes of the module operator
  Lagging,        \* the objects whose informer cache may lag
  EagerRelease    \* the feast operator lets go of any Terminating ConfigMap

Caps == [fs : BOOLEAN, dr : BOOLEAN]
Data == [fs : BOOLEAN, dr : BOOLEAN, ns : BOOLEAN]

\* spec.capabilities, and whether spec.oidc is absent or an absolute https URL.
FeastOperatorSpec == [caps : Caps \cup {Unset}, oidc : BOOLEAN]

ASSUME FeastModuleAssumption ==
  /\ Unset \notin Caps
  /\ Specs \subseteq FeastOperatorSpec
  /\ EnvCaps \in Caps
  /\ Timeout \in Nat \ {0}
  /\ MaxFaults \in Nat
  /\ Lagging \subseteq {"deployment", "namespace", "roles"}
  /\ EagerRelease \in BOOLEAN

VARIABLES
  cr,        \* the FeastOperator CR: absent, new (no finalizer yet), live, deleting
  spec,      \* its spec
  cm,        \* the capabilities ConfigMap
  age,       \* ticks since the cleanup-started annotation was written
  gaveUp,    \* the cleanup-timeout Warning was emitted for this ConfigMap
  dep,       \* the feast operator Deployment
  ns,        \* the Data Registry namespace: none, off (unlabelled), on
  rbac,      \* the cluster-scoped resources that exist
  pod,       \* the running feast operator
  depC, nsC, rbacC,   \* the informer caches of dep, ns and rbac
  pc,        \* the call the worker makes next
  req,       \* the capabilities the current reconcile resolved
  fresh,     \* the ConfigMap has not been written since the worker read it
  pending,   \* the CR's key is in the work queue
  faults     \* failed calls so far

objects == <<cr, spec, cm, age, gaveUp, dep, ns, rbac, pod>>
caches  == <<depC, nsC, rbacC>>
worker  == <<pc, req, fresh, pending, faults>>
vars    == <<objects, caches, worker>>

-----------------------------------------------------------------------------
(* The objects.                                                            *)

\* The data reconcileCapabilitiesConfigMap writes: the namespace key is
\* present only when the Data Registry is enabled.  (FlagsOnly forgets it.)
FlagsOnly(c) == [fs |-> c.fs, dr |-> c.dr, ns |-> FALSE]

DataOf(c) == [fs |-> c.fs, dr |-> c.dr, ns |-> c.dr]

NoData == [fs |-> FALSE, dr |-> FALSE, ns |-> FALSE]

NoConfigMap == [exists |-> FALSE, deleting |-> FALSE, mod |-> FALSE,
                op |-> FALSE, data |-> NoData, started |-> FALSE]

NoDeployment == [exists |-> FALSE, owned |-> FALSE, sel |-> FALSE, hash |-> {}]

\* The pod-template annotation that carries the hash of ConfigMap data: none,
\* or the hash of one value (distinct data are taken to hash differently).
Hash(d) == {d}

ClusterRoles == {"bindings", "roles"}

NoPod == [up |-> FALSE, dr |-> FALSE]

NoSpec == [caps |-> Unset, oidc |-> TRUE]

resolveCapabilities(s) == IF s.caps = Unset THEN EnvCaps ELSE s.caps

\* The API server removes a Terminating object once no finalizer is left.
Settle(c) == IF c.deleting /\ ~c.mod /\ ~c.op THEN NoConfigMap ELSE c

Terminating(c) == [c EXCEPT !.deleting = TRUE]

\* predicates.DefaultPredicate on a ConfigMap, which has no generation:
\* creations, deletions and changes of annotations, not changes of data.
DefaultPredicate(old, new) ==
  \/ old.exists # new.exists
  \/ old.started # new.started

\* capabilitiesConfigMapWatchPredicate: also the start of a deletion.
WatchPredicate(old, new) ==
  \/ DefaultPredicate(old, new)
  \/ old.exists /\ new.exists /\ ~old.deleting /\ new.deleting

\* Every write of the ConfigMap goes through here: the clock, the Warning and
\* the resource version belong to the object, and the watch may queue the CR.
WriteConfigMap(c) ==
  LET new == Settle(c) IN
    /\ cm' = new
    /\ age' = IF new.started THEN age ELSE 0
    /\ gaveUp' = (gaveUp /\ new.exists)
    /\ fresh' = FALSE
    /\ pending' = (pending \/ WatchPredicate(cm, new))

cmVars == <<cm, age, gaveUp>>

-----------------------------------------------------------------------------
(* The worker's bookkeeping.                                               *)

Goto(l) == pc' = l

\* A step that returns an error: the rest of the pipeline is skipped and the
\* work queue retries the key.
Fail == pc' = "idle" /\ pending' = TRUE

\* setKustomizedParams, which comes before every write: an issuer URL that is
\* refused ends every reconcile there.  (params.env belongs to the process, and
\* only the same reconcile reads it again.)
setKustomizedParams ==
  \/ spec.oidc /\ Goto("namespace") /\ pending' = FALSE
  \/ ~spec.oidc /\ Fail

\* The worker takes the key.  A CR that is gone is not reconciled; the
\* framework adds its finalizer to a new one; a CR being deleted is finalized.
Start ==
  /\ pc = "idle" /\ pending
  /\ \/ cr = "absent" /\ pending' = FALSE /\ UNCHANGED <<cr, pc, req>>
     \/ /\ cr \in {"new", "live"}
        /\ cr' = "live" /\ req' = resolveCapabilities(spec)
        /\ setKustomizedParams
     \/ /\ cr = "deleting"
        /\ Goto("unlabel") /\ pending' = FALSE /\ UNCHANGED <<cr, req>>
  /\ UNCHANGED <<spec, cmVars, dep, ns, rbac, pod, caches, fresh, faults>>

\* removeDataRegistryLabel: the cached Namespace decides, the patch carries
\* no resource version.
\* (KeepLabel: what leaving the call out does.)
KeepLabel == ns' = ns

removeDataRegistryLabel ==
  ns' = IF nsC = "on" /\ ns = "on" THEN "off" ELSE ns

-----------------------------------------------------------------------------
(* The reconcile pipeline.                                                 *)

\* reconcileDataRegistryNamespace.  CreateOrUpdate compares with the cached
\* Namespace: it creates, updates (and conflicts when the cache is behind) or
\* has nothing to do.
ReconcileNamespace ==
  /\ pc = "namespace"
  /\ \/ /\ ~req.dr
        /\ removeDataRegistryLabel
        /\ Goto("capGet") /\ UNCHANGED pending
     \/ /\ req.dr /\ nsC = "on"
        /\ Goto("capGet") /\ UNCHANGED <<ns, pending>>
     \/ /\ req.dr /\ nsC # "on" /\ nsC = ns
        /\ ns' = "on"
        /\ Goto("capGet") /\ UNCHANGED pending
     \/ /\ req.dr /\ nsC # "on" /\ nsC # ns
        /\ Fail /\ UNCHANGED ns
  /\ UNCHANGED <<cr, spec, cmVars, dep, rbac, pod, caches, req, fresh, faults>>

\* The object CreateOrUpdate wants, given the one it read.
\* (CreateOnly: the same, but an existing object keeps its data.)
CreateOnly(c) ==
  IF c.deleting THEN [c EXCEPT !.mod = FALSE]
  ELSE [c EXCEPT !.exists = TRUE, !.mod = TRUE,
                 !.data = IF c.exists THEN c.data ELSE DataOf(req)]

\* (DataAlways: also a Terminating object gets the data.)
DataAlways(c) ==
  IF c.deleting THEN [c EXCEPT !.mod = FALSE, !.data = DataOf(req)]
  ELSE [c EXCEPT !.exists = TRUE, !.mod = TRUE, !.data = DataOf(req)]

Desired(c) ==
  IF c.deleting THEN [c EXCEPT !.mod = FALSE]
  ELSE [c EXCEPT !.exists = TRUE, !.mod = TRUE, !.data = DataOf(req)]

\* reconcileCapabilitiesConfigMap, its read: nothing to write when the object
\* already is as desired.
CapabilitiesGet ==
  /\ pc = "capGet"
  /\ fresh' = TRUE
  /\ Goto(IF Desired(cm) = cm THEN "migrate" ELSE "capPut")
  /\ UNCHANGED <<objects, caches, req, pending, faults>>

\* ... and its Create or Update, which conflicts when the object has changed.
CapabilitiesPut ==
  /\ pc = "capPut"
  /\ \/ fresh /\ WriteConfigMap(Desired(cm)) /\ Goto("migrate")
     \/ ~fresh /\ Fail /\ UNCHANGED <<cmVars, fresh>>
  /\ UNCHANGED <<cr, spec, dep, ns, rbac, pod, caches, req, faults>>

\* migrateDeploymentSelector: the cached Deployment decides, the Delete is by
\* name and has no preconditions.
\* (MigrateAlways: without the test of the selector.)
MigrateAlways ==
  /\ pc = "migrate"
  /\ IF depC.exists
       THEN dep' = NoDeployment /\ pod' = NoPod
       ELSE UNCHANGED <<dep, pod>>
  /\ Goto("deploy")
  /\ UNCHANGED <<cr, spec, cmVars, ns, rbac, caches, req, fresh, pending, faults>>

MigrateDeploymentSelector ==
  /\ pc = "migrate"
  /\ IF depC.exists /\ ~depC.sel
       THEN dep' = NoDeployment /\ pod' = NoPod
       ELSE UNCHANGED <<dep, pod>>
  /\ Goto("deploy")
  /\ UNCHANGED <<cr, spec, cmVars, ns, rbac, caches, req, fresh, pending, faults>>

\* The framework's deploy action: cluster roles first, then the Deployment.
\* The selector is immutable, so an old Deployment is refused; the hash
\* annotation is not in the manifests and survives.
Deploy ==
  /\ pc = "deploy"
  /\ rbac' = ClusterRoles
  /\ \/ /\ dep.exists /\ ~dep.sel
        /\ Fail /\ UNCHANGED dep
     \/ /\ dep.exists => dep.sel
        /\ dep' = [dep EXCEPT !.exists = TRUE, !.owned = TRUE, !.sel = TRUE]
        /\ Goto("roll") /\ UNCHANGED pending
  /\ UNCHANGED <<cr, spec, cmVars, ns, pod, caches, req, fresh, faults>>

\* triggerCapabilityRolloutIfNeeded: the live ConfigMap and the cached
\* Deployment are compared, the patch goes to the Deployment as it is.
Rollout(next) ==
  LET needed == cm.exists /\ depC.exists /\ depC.hash # Hash(cm.data) IN
    \/ ~needed /\ Goto(next) /\ UNCHANGED <<dep, pending>>
    \/ /\ needed /\ dep.exists
       /\ dep' = [dep EXCEPT !.hash = Hash(cm.data)]
       /\ Goto(next) /\ UNCHANGED pending
    \/ needed /\ ~dep.exists /\ Fail /\ UNCHANGED dep

ApplyRollout ==
  /\ pc = "roll"
  /\ Rollout("idle")
  /\ UNCHANGED <<cr, spec, cmVars, ns, rbac, pod, caches, req, fresh, faults>>

Reconcile ==
  \/ ReconcileNamespace \/ CapabilitiesGet \/ CapabilitiesPut
  \/ MigrateDeploymentSelector \/ Deploy \/ ApplyRollout

-----------------------------------------------------------------------------
(* The finalizer, cleanupClusterResources.                                 *)

\* (DeferWhileManaged: the deadlock the code's comment warns of.)
DeferWhileManaged ==
  /\ pc = "unlabel"
  /\ IF resolveCapabilities(spec).dr
       THEN Fail /\ UNCHANGED ns
       ELSE removeDataRegistryLabel /\ Goto("markGet") /\ UNCHANGED pending
  /\ UNCHANGED <<cr, spec, cmVars, dep, rbac, pod, caches, req, fresh, faults>>

FinalizeNamespace ==
  /\ pc = "unlabel"
  /\ removeDataRegistryLabel
  /\ Goto("markGet")
  /\ UNCHANGED <<cr, spec, cmVars, dep, rbac, pod, caches, req, fresh, pending, faults>>

\* markCapabilitiesDisabled keeps the namespace key, and writes the
\* annotation only when it is missing.
Marked(c) == [c EXCEPT !.data.fs = FALSE, !.data.dr = FALSE, !.started = TRUE]

\* (MarkLiveOnly: a ConfigMap that is already Terminating is skipped.)
MarkLiveOnly ==
  /\ pc = "markGet"
  /\ fresh' = TRUE
  /\ Goto(IF ~cm.exists \/ cm.deleting \/ Marked(cm) = cm THEN "finRoll" ELSE "markPut")
  /\ UNCHANGED <<objects, caches, req, pending, faults>>

MarkGet ==
  /\ pc = "markGet"
  /\ fresh' = TRUE
  /\ Goto(IF ~cm.exists \/ Marked(cm) = cm THEN "finRoll" ELSE "markPut")
  /\ UNCHANGED <<objects, caches, req, pending, faults>>

MarkPut ==
  /\ pc = "markPut"
  /\ \/ fresh /\ WriteConfigMap(Marked(cm)) /\ Goto("finRoll")
     \/ ~fresh /\ Fail /\ UNCHANGED <<cmVars, fresh>>
  /\ UNCHANGED <<cr, spec, dep, ns, rbac, pod, caches, req, faults>>

\* (NoFinalRollout: the feast operator is not restarted.)
NoFinalRollout ==
  /\ pc = "finRoll"
  /\ Goto("delete")
  /\ UNCHANGED <<objects, caches, req, fresh, pending, faults>>

FinalizeRollout ==
  /\ pc = "finRoll"
  /\ Rollout("delete")
  /\ UNCHANGED <<cr, spec, cmVars, ns, rbac, pod, caches, req, fresh, faults>>

\* deleteCapabilitiesConfigMap: a Delete by name of whatever is there.
DeleteConfigMap ==
  /\ pc = "delete"
  /\ IF cm.exists /\ ~cm.deleting
       THEN WriteConfigMap(Terminating(cm))
       ELSE UNCHANGED <<cmVars, fresh, pending>>
  /\ Goto("await")
  /\ UNCHANGED <<cr, spec, dep, ns, rbac, pod, caches, req, faults>>

\* (DeletionStarted: takes the start of the deletion for the release, or for
\* the end of the wait.)
DeletionStarted == ~cm.exists \/ cm.deleting

Released == ~cm.exists \/ ~cm.op

TimedOut == cm.deleting /\ cm.started /\ age >= Timeout

\* waitForFeastOperatorRelease: an error defers the rest to a retry, until
\* the feast operator has let go or the timeout has passed, which is warned of.
AwaitRelease ==
  /\ pc = "await"
  /\ \/ Released /\ Goto("relGet") /\ UNCHANGED <<gaveUp, pending>>
     \/ ~Released /\ ~TimedOut /\ Fail /\ UNCHANGED gaveUp
     \/ /\ ~Released /\ TimedOut
        /\ gaveUp' = TRUE
        /\ Goto("relGet") /\ UNCHANGED pending
  /\ UNCHANGED <<cr, spec, cm, age, dep, ns, rbac, pod, caches, req, fresh, faults>>

\* (NoRelease: releaseCapabilitiesConfigMap left out.)
NoRelease ==
  /\ pc = "relGet"
  /\ fresh' = TRUE
  /\ Goto("bindings")
  /\ UNCHANGED <<objects, caches, req, pending, faults>>

\* releaseCapabilitiesConfigMap.
ReleaseGet ==
  /\ pc = "relGet"
  /\ fresh' = TRUE
  /\ Goto(IF cm.exists /\ cm.mod THEN "relPut" ELSE "bindings")
  /\ UNCHANGED <<objects, caches, req, pending, faults>>

ReleasePut ==
  /\ pc = "relPut"
  /\ \/ fresh /\ WriteConfigMap([cm EXCEPT !.mod = FALSE]) /\ Goto("bindings")
     \/ ~fresh /\ Fail /\ UNCHANGED <<cmVars, fresh>>
  /\ UNCHANGED <<cr, spec, dep, ns, rbac, pod, caches, req, faults>>

\* The lists come from the cache, the deletes ignore NotFound.
\* (DeleteBindingsOnly: the second list and its deletes left out.)
DeleteBindingsOnly(kind, next) ==
  /\ pc = kind
  /\ rbac' = rbac \ (rbacC \cap {"bindings"})
  /\ Goto(next)
  /\ UNCHANGED <<cr, spec, cmVars, dep, ns, pod, caches, req, fresh, pending, faults>>

DeleteClusterRoles(kind, next) ==
  /\ pc = kind
  /\ rbac' = rbac \ (rbacC \cap {kind})
  /\ Goto(next)
  /\ UNCHANGED <<cr, spec, cmVars, dep, ns, pod, caches, req, fresh, pending, faults>>

\* The framework removes the CR's finalizer and the CR is gone; what it owned
\* is left to the garbage collector.
Finish ==
  /\ pc = "finish"
  /\ cr' = "absent" /\ spec' = NoSpec
  /\ dep' = [dep EXCEPT !.owned = FALSE]
  /\ Goto("idle")
  /\ UNCHANGED <<cmVars, ns, rbac, pod, caches, req, fresh, pending, faults>>

Finalize ==
  \/ FinalizeNamespace \/ MarkGet \/ MarkPut \/ FinalizeRollout
  \/ DeleteConfigMap \/ AwaitRelease \/ ReleaseGet \/ ReleasePut
  \/ DeleteClusterRoles("bindings", "roles")
  \/ DeleteClusterRoles("roles", "finish")
  \/ Finish

\* A call fails, or it takes effect and its answer is lost, or the process
\* crashes or loses its lease: the next one starts with the key in the queue.
Abort ==
  /\ pc # "idle" /\ faults < MaxFaults
  /\ faults' = faults + 1
  /\ Fail
  /\ UNCHANGED <<objects, caches, req, fresh>>

-----------------------------------------------------------------------------
(* The platform and the users.                                             *)

CreateCR ==
  /\ cr = "absent"
  /\ cr' = "new" /\ spec' \in Specs /\ pending' = TRUE
  /\ UNCHANGED <<cmVars, dep, ns, rbac, pod, caches, pc, req, fresh, faults>>

EditCR ==
  /\ cr \in {"new", "live"}
  /\ spec' \in Specs \ {spec} /\ pending' = TRUE
  /\ UNCHANGED <<cr, cmVars, dep, ns, rbac, pod, caches, pc, req, fresh, faults>>

\* A CR without the finalizer goes at once.
DeleteCR ==
  /\ \/ cr = "new" /\ cr' = "absent" /\ spec' = NoSpec
     \/ cr = "live" /\ cr' = "deleting" /\ UNCHANGED spec
  /\ pending' = TRUE
  /\ UNCHANGED <<cmVars, dep, ns, rbac, pod, caches, pc, req, fresh, faults>>

UserDeletesConfigMap ==
  /\ cm.exists /\ ~cm.deleting
  /\ WriteConfigMap(Terminating(cm))
  /\ UNCHANGED <<cr, spec, dep, ns, rbac, pod, caches, pc, req, faults>>

Environment == CreateCR \/ EditCR \/ DeleteCR \/ UserDeletesConfigMap

-----------------------------------------------------------------------------
(* The feast operator and the cluster.                                     *)

\* A pod of the feast operator starts, or is restarted, and reads the
\* ConfigMap; without one it starts with defaults of its own.
OperatorStarts ==
  /\ dep.exists
  /\ \E d \in BOOLEAN :
       /\ cm.exists => d = cm.data.dr
       /\ pod' = [up |-> TRUE, dr |-> d]
  /\ UNCHANGED <<cr, spec, cmVars, dep, ns, rbac, caches, worker>>

\* It puts its finalizer on a live ConfigMap that enables the Data Registry
\* (the API server refuses new finalizers on a Terminating object).
OperatorClaims ==
  /\ pod.up /\ pod.dr
  /\ cm.exists /\ ~cm.deleting /\ ~cm.op
  /\ WriteConfigMap([cm EXCEPT !.op = TRUE])
  /\ UNCHANGED <<cr, spec, dep, ns, rbac, pod, caches, pc, req, faults>>

\* It has torn the registry down and removes its finalizer.
OperatorReleases ==
  /\ pod.up /\ cm.exists /\ cm.op
  /\ \/ ~pod.dr /\ ~cm.data.dr
     \/ EagerRelease /\ cm.deleting
  /\ WriteConfigMap([cm EXCEPT !.op = FALSE])
  /\ UNCHANGED <<cr, spec, dep, ns, rbac, pod, caches, pc, req, faults>>

FeastOperator == OperatorStarts \/ OperatorClaims \/ OperatorReleases

\* The garbage collector removes the Deployment of a CR that is gone.
GarbageCollect ==
  /\ dep.exists /\ ~dep.owned
  /\ dep' = NoDeployment /\ pod' = NoPod
  /\ UNCHANGED <<cr, spec, cmVars, ns, rbac, caches, worker>>

Tick ==
  /\ cm.started /\ age < Timeout
  /\ age' = age + 1
  /\ UNCHANGED <<cr, spec, cm, gaveUp, dep, ns, rbac, pod, caches, worker>>

\* The informers catch up.  Deployments are watched, so their events queue
\* the CR; Namespaces are only cached, and cluster roles queue nothing here
\* that matters.
SyncDeployment ==
  /\ depC # dep
  /\ depC' = dep /\ pending' = TRUE
  /\ UNCHANGED <<objects, nsC, rbacC, pc, req, fresh, faults>>

SyncNamespace ==
  /\ nsC # ns
  /\ nsC' = ns
  /\ UNCHANGED <<objects, depC, rbacC, worker>>

SyncClusterRoles ==
  /\ rbacC # rbac
  /\ rbacC' = rbac
  /\ UNCHANGED <<objects, depC, nsC, worker>>

\* A cache that does not lag catches up before anything else happens.
InSync ==
  /\ "deployment" \in Lagging \/ depC = dep
  /\ "namespace" \in Lagging \/ nsC = ns
  /\ "roles" \in Lagging \/ rbacC = rbac

-----------------------------------------------------------------------------

\* A fresh cluster, or one whose module operator is being upgraded: the CR
\* and the Deployment exist, the Deployment may have the old selector and
\* there may be no ConfigMap yet, or one without finalizers.
Init ==
  /\ \/ /\ cr = "absent" /\ spec = NoSpec
        /\ cm = NoConfigMap /\ dep = NoDeployment /\ rbac = {} /\ ns = "none"
     \/ /\ cr = "live" /\ spec \in Specs
        /\ cm \in {NoConfigMap} \cup
             {[NoConfigMap EXCEPT !.exists = TRUE, !.data = DataOf(c)] : c \in Caps}
        /\ dep \in {[exists |-> TRUE, owned |-> TRUE, sel |-> s, hash |-> {}] :
                      s \in BOOLEAN}
        /\ rbac = ClusterRoles /\ ns \in {"none", "on"}
  /\ age = 0 /\ gaveUp = FALSE /\ pod = NoPod
  /\ depC = dep /\ nsC = ns /\ rbacC = rbac
  /\ pc = "idle" /\ req = EnvCaps /\ fresh = FALSE
  /\ pending = TRUE /\ faults = 0

WorkerStep == InSync /\ (Start \/ Reconcile \/ Finalize)

TimePasses == InSync /\ Tick

Sync == SyncDeployment \/ SyncNamespace \/ SyncClusterRoles

Next ==
  \/ WorkerStep
  \/ InSync /\ (Abort \/ Environment \/ FeastOperator \/ GarbageCollect)
  \/ TimePasses
  \/ Sync

\* The worker and the work queue make progress, time passes, the watches
\* deliver.  Nothing is asked of the platform, the users, the feast operator
\* or the garbage collector.
Fairness ==
  /\ WF_vars(WorkerStep)
  /\ WF_vars(TimePasses)
  /\ WF_vars(SyncDeployment) /\ WF_vars(SyncNamespace) /\ WF_vars(SyncClusterRoles)

Spec == Init /\ [][Next]_vars /\ Fairness

-----------------------------------------------------------------------------
(* Properties.                                                             *)

PCs == {"idle", "namespace", "capGet", "capPut", "migrate", "deploy", "roll",
        "unlabel", "markGet", "markPut", "finRoll", "delete", "await",
        "relGet", "relPut", "bindings", "roles", "finish"}

ConfigMaps ==
  [exists : BOOLEAN, deleting : BOOLEAN, mod : BOOLEAN, op : BOOLEAN,
   data : {d \in Data : d.dr => d.ns}, started : BOOLEAN]

Deployments ==
  [exists : BOOLEAN, owned : BOOLEAN, sel : BOOLEAN, hash : SUBSET Data]

\* Types; the data of the ConfigMap name the namespace of every registry they
\* enable (reconcileCapabilitiesConfigMap, markCapabilitiesDisabled).
TypeOK ==
  /\ cr \in {"absent", "new", "live", "deleting"}
  /\ spec \in Specs \cup {NoSpec}
  /\ cm \in ConfigMaps
  /\ age \in 0..Timeout /\ gaveUp \in BOOLEAN
  /\ dep \in Deployments /\ depC \in Deployments
  /\ ns \in {"none", "off", "on"} /\ nsC \in {"none", "off", "on"}
  /\ rbac \subseteq ClusterRoles /\ rbacC \subseteq ClusterRoles
  /\ pod \in [up : BOOLEAN, dr : BOOLEAN]
  /\ pc \in PCs /\ req \in Caps
  /\ fresh \in BOOLEAN /\ pending \in BOOLEAN
  /\ faults \in 0..MaxFaults

\* The ConfigMap outlives the feast operator's cleanup, and so does what the
\* feast operator runs with: neither a cluster role nor the CR, whose removal
\* collects the Deployment, goes while the feast operator holds the
\* ConfigMap, unless the timeout was reached and warned of.  (The order of
\* cleanupClusterResources, and waitForFeastOperatorRelease.)
OperatorServedUntilRelease ==
  [][ (rbac \ rbac' # {} \/ (cr = "deleting" /\ cr' = "absent"))
      => ~cm.op \/ gaveUp ]_vars

\* An announced teardown is final: from the finalizer's first write on, through
\* retries, crashes and the deletion of the CR, no write of this ConfigMap takes
\* the announcement back or enables a capability again, not even the reconcile
\* of a CR that is created anew while the feast operator still tears down
\* (markCapabilitiesDisabled, reconcileCapabilitiesConfigMap).
TeardownIsFinal ==
  [][ cm.started /\ cm'.exists
      => cm'.started /\ ~cm'.data.fs /\ ~cm'.data.dr ]_vars

\* The Warning is only emitted after the full timeout, counted from the first
\* write of the teardown intent, on a ConfigMap that is being deleted.
GaveUpAfterTimeout ==
  gaveUp => cm.deleting /\ cm.started /\ age = Timeout

\* An uninstalled module leaves no ConfigMap, or one that only the feast
\* operator it gave up on still holds and that tells it to tear down.
UninstallLeavesIntent ==
  cr = "absent" /\ cm.exists =>
    cm.deleting /\ ~cm.mod /\ cm.started /\ ~cm.data.fs /\ ~cm.data.dr /\ gaveUp

\* While the finalizer waits, the ConfigMap (also one a user was deleting
\* already) announces the teardown.
TeardownAnnounced ==
  pc = "await" /\ cm.exists =>
    cm.deleting /\ cm.started /\ ~cm.data.fs /\ ~cm.data.dr

\* How far the finalizer has come, and what holds from there on: the steps of
\* cleanupClusterResources rely on each other in this order although other
\* processes write the ConfigMap between any two of them.
AfterRelease == {"bindings", "roles", "finish"}
AfterWait    == {"relGet", "relPut"} \cup AfterRelease
AfterDelete  == {"await"} \cup AfterWait
AfterMark    == {"finRoll", "delete"} \cup AfterDelete
Finalizing   == {"unlabel", "markGet", "markPut"} \cup AfterMark

FinalizerProgress ==
  /\ pc \in Finalizing => cr = "deleting"
  /\ pc \notin Finalizing \cup {"idle"} => cr \in {"live", "deleting"}
  /\ pc \in {"markPut", "relPut"} /\ fresh => cm.exists
  /\ pc \in AfterMark /\ cm.exists => cm.started /\ ~cm.data.fs /\ ~cm.data.dr
  /\ pc \in AfterDelete /\ cm.exists => cm.deleting
  /\ pc \in AfterWait => ~cm.op \/ gaveUp
  /\ pc \in AfterRelease => ~cm.mod

\* The API server's part: what does not exist has nothing, and what is being
\* deleted is held by a finalizer.
ConfigMapSettled ==
  /\ ~cm.exists => cm = NoConfigMap
  /\ cm.deleting => cm.mod \/ cm.op

\* A CR that has not been reconciled yet has found what its predecessor left.
LeftByPredecessor ==
  cr \in {"absent", "new"} /\ cm.exists =>
    cm.deleting /\ ~cm.mod /\ cm.started /\ ~cm.data.fs /\ ~cm.data.dr /\ gaveUp

\* Inductive: it holds initially and every step preserves it.
InductiveInvariant ==
  /\ TypeOK
  /\ ConfigMapSettled
  /\ FinalizerProgress
  /\ LeftByPredecessor
  /\ GaveUpAfterTimeout

\* With informers that are up to date: while the finalizer waits the feast
\* operator has been rolled to that announcement, in this order.
TeardownRolledOut ==
  pc = "await" /\ cm.exists /\ dep.exists => dep.hash = Hash(cm.data)

\* An uninstalled module does not advertise an enabled Data Registry
\* (cleanupClusterResources: "Keep the namespace and its data, but stop
\* advertising an enabled registry").
UninstallUnadvertises == cr = "absent" => ns # "on"

\* An uninstalled module leaves none of the cluster-scoped resources, which
\* "cannot use ownerReferences for garbage collection".
UninstallRemovesClusterRoles == cr = "absent" => rbac = {}

\* migrateDeploymentSelector deletes a Deployment only "if its
\* spec.selector.matchLabels is missing the app.kubernetes.io/name label".
MigrationSparesCurrentDeployment ==
  [][ pc = "migrate" /\ pc' = "deploy" /\ dep.exists /\ dep.sel => dep'.exists ]_vars

\* An uninstall completes even if the feast operator never answers.
UninstallCompletes == cr = "deleting" ~> cr = "absent"

\* A ConfigMap deleted under a live CR, that the feast operator does not hold
\* on to, is recreated (unless the CR goes away or has an issuer URL that is
\* refused: until that is corrected the ConfigMap waits for the module).
ConfigMapComesBack ==
  (cr = "live" /\ cm.deleting) ~>
     ((cm.exists /\ ~cm.deleting) \/ (cm.deleting /\ cm.op) \/ cr # "live" \/ ~spec.oidc)

\* The configuration a live CR settles on reaches the ConfigMap and the pod
\* template of the feast operator, unless the feast operator holds on to a
\* ConfigMap that is being deleted; also when earlier specs were refused.
Accepted == {s \in Specs : s.oidc}

Configured(s) ==
  /\ cm.exists /\ ~cm.deleting /\ cm.mod
  /\ cm.data = DataOf(resolveCapabilities(s))
  /\ dep.exists /\ dep.sel /\ dep.hash = Hash(cm.data)

ConfigurationArrives ==
  \A s \in Accepted :
    <>[](cr = "live" /\ spec = s) => []<>(Configured(s) \/ (cm.deleting /\ cm.op))

\* The label of the namespace follows the configuration a live CR settles on.
LabelArrives ==
  \A s \in Accepted :
    <>[](cr = "live" /\ spec = s) =>
      <>[](resolveCapabilities(s).dr <=> ns = "on")

\* The module implements the contract of an uninstall: the feast operator is
\* served until it releases the ConfigMap or the module gives up on it.
UninstallPhase ==
  IF cr = "absent" THEN "out" ELSE IF cr = "deleting" THEN "draining" ELSE "serving"

Contract == INSTANCE UninstallContract WITH phase <- UninstallPhase, held <- cm.op

ImplementsContract == Contract!Spec
=============================================================================
