--------------------------- MODULE FeastCachesProofs ---------------------------
(***************************************************************************)
(* What the finalizer leaves when the caches it reads are current.  Each   *)
(* theorem needs one cache: the runs with lagging caches show two of them  *)
(* fail without it.                                                        *)
(***************************************************************************)
EXTENDS FeastModuleProofs

\* From the unlabelling on, and until the next CR is reconciled, the namespace
\* advertises nothing.
PastUnlabel == pc \in Finalizing \ {"unlabel"}

NamespaceQuiet == cr \in {"absent", "new"} \/ PastUnlabel => ns # "on"

\* The lists of the cluster roles are worked off in order.
RolesWorkedOff ==
  /\ cr \in {"absent", "new"} \/ pc = "finish" => rbac = {}
  /\ pc = "roles" => "bindings" \notin rbac

\* From the rollout on, the pods carry what the ConfigMap says.
RolledOut ==
  pc \in {"delete", "await"} /\ cm.exists /\ dep.exists => dep.hash = Hash(cm.data)

\* Where the CR and the worker can go: a CR is only new or gone after it was,
\* or at the end of the finalizer.
LEMMA CRMoves ==
  ASSUME InductiveInvariant, [Next]_vars
  PROVE  cr' \in {"absent", "new"} => cr \in {"absent", "new"} \/ (pc = "finish" /\ Finish)
<1>1. CASE Start
  BY <1>1 DEF Start
<1>2. CASE Reconcile
  BY <1>2 DEF Reconcile, ReconcileNamespace, CapabilitiesGet, CapabilitiesPut,
              MigrateDeploymentSelector, Deploy, ApplyRollout, objects
<1>3. CASE Finalize
  BY <1>3 DEF Finalize, FinalizeNamespace, MarkGet, MarkPut, FinalizeRollout, DeleteConfigMap,
              AwaitRelease, ReleaseGet, ReleasePut, DeleteClusterRoles, Finish, objects
<1>4. CASE Abort \/ Environment \/ FeastOperator \/ GarbageCollect
  BY <1>4 DEF Abort, Environment, CreateCR, EditCR, DeleteCR, UserDeletesConfigMap, FeastOperator,
              OperatorStarts, OperatorClaims, OperatorReleases, GarbageCollect, objects
<1>5. CASE Tick \/ Sync \/ UNCHANGED vars
  BY <1>5 DEF Tick, Sync, SyncDeployment, SyncNamespace, SyncClusterRoles, vars, objects
<1> QED BY <1>1, <1>2, <1>3, <1>4, <1>5 DEF Next, WorkerStep, TimePasses

-----------------------------------------------------------------------------

\* Nothing labels the namespace but a reconcile of a live CR, and the finalizer
\* sees the label when the cache is current.
LEMMA NamespaceStep ==
  ASSUME "namespace" \notin Lagging, InductiveInvariant, NamespaceQuiet, [Next]_vars
  PROVE  NamespaceQuiet'
<1> USE DEF PastUnlabel, Finalizing, AfterMark, AfterDelete, AfterWait, AfterRelease
<1>0. FinalizerProgress
  BY DEF InductiveInvariant
<1>1. cr' \in {"absent", "new"} => cr \in {"absent", "new"} \/ pc = "finish"
  BY CRMoves
<1>2. CASE WorkerStep
  <2>1. nsC = ns
    BY <1>2 DEF WorkerStep, InSync
  <2>2. CASE Start
    BY <1>1, <2>2 DEF Start, setKustomizedParams, Goto, Fail, NamespaceQuiet
  <2>3. CASE ReconcileNamespace
    BY <1>0, <1>1, <2>3 DEF ReconcileNamespace, Goto, Fail, FinalizerProgress, NamespaceQuiet
  <2>4. CASE Reconcile /\ ~ReconcileNamespace
    <3>1. UNCHANGED ns /\ ~PastUnlabel'
      BY <2>4 DEF Reconcile, CapabilitiesGet, CapabilitiesPut, MigrateDeploymentSelector, Deploy,
                  ApplyRollout, Rollout, Goto, Fail, objects
    <3> QED BY <1>1, <3>1 DEF NamespaceQuiet
  <2>5. CASE FinalizeNamespace
    BY <2>1, <2>5 DEF FinalizeNamespace, removeDataRegistryLabel, NamespaceQuiet
  <2>6. CASE Finalize /\ ~FinalizeNamespace
    <3>1. UNCHANGED ns /\ PastUnlabel
      BY <2>6 DEF Finalize, MarkGet, MarkPut, FinalizeRollout, DeleteConfigMap, AwaitRelease,
                  ReleaseGet, ReleasePut, DeleteClusterRoles, Finish, objects
    <3> QED BY <3>1 DEF NamespaceQuiet
  <2> QED BY <1>2, <2>2, <2>3, <2>4, <2>5, <2>6 DEF WorkerStep, Reconcile, Finalize
<1>3. CASE Abort \/ Environment \/ FeastOperator \/ GarbageCollect
  <2>1. UNCHANGED ns /\ (pc' = pc \/ pc' = "idle")
    BY <1>3 DEF Abort, Fail, Environment, CreateCR, EditCR, DeleteCR, UserDeletesConfigMap, FeastOperator,
                OperatorStarts, OperatorClaims, OperatorReleases, GarbageCollect, objects, worker
  <2> QED BY <1>1, <2>1 DEF NamespaceQuiet
<1>4. CASE Tick \/ Sync \/ UNCHANGED vars
  <2>1. UNCHANGED <<ns, pc>>
    BY <1>4 DEF Tick, Sync, SyncDeployment, SyncNamespace, SyncClusterRoles, vars, objects, worker
  <2> QED BY <1>1, <2>1 DEF NamespaceQuiet
<1> QED BY <1>2, <1>3, <1>4 DEF Next, TimePasses

\* With a current cache of Namespaces, an uninstalled module advertises no
\* enabled registry (cleanupClusterResources), whatever failed on the way.
THEOREM Unadvertised ==
  ASSUME "namespace" \notin Lagging
  PROVE  Spec => []UninstallUnadvertises
<1>1. Init => NamespaceQuiet
  BY DEF Init, NamespaceQuiet, PastUnlabel, Finalizing, AfterMark, AfterDelete, AfterWait, AfterRelease
<1>2. InductiveInvariant /\ NamespaceQuiet /\ [Next]_vars => NamespaceQuiet'
  BY NamespaceStep
<1>3. NamespaceQuiet => UninstallUnadvertises
  BY DEF NamespaceQuiet, UninstallUnadvertises
<1> QED BY <1>1, <1>2, <1>3, Invariance, PTL DEF Spec

-----------------------------------------------------------------------------

\* Only deploy creates cluster roles, for a CR that is live or being deleted.
LEMMA RolesStep ==
  ASSUME "roles" \notin Lagging, InductiveInvariant, RolesWorkedOff, [Next]_vars
  PROVE  RolesWorkedOff'
<1>0. FinalizerProgress /\ rbac \subseteq ClusterRoles
  BY DEF InductiveInvariant, TypeOK
<1>1. cr' \in {"absent", "new"} => cr \in {"absent", "new"} \/ pc = "finish"
  BY CRMoves
<1>2. CASE WorkerStep
  <2>1. rbacC = rbac
    BY <1>2 DEF WorkerStep, InSync
  <2>2. CASE Start
    BY <1>1, <2>2 DEF Start, setKustomizedParams, Goto, Fail, RolesWorkedOff
  <2>3. CASE Deploy
    <3>1. cr \in {"live", "deleting"} /\ cr' = cr /\ pc' \in {"roll", "idle"}
      BY <1>0, <2>3 DEF Deploy, Goto, Fail, FinalizerProgress, Finalizing, AfterMark, AfterDelete,
                        AfterWait, AfterRelease
    <3> QED BY <3>1 DEF RolesWorkedOff
  <2>4. CASE Reconcile /\ ~Deploy
    <3>1. UNCHANGED rbac /\ pc' \notin {"roles", "finish"} /\ pc # "finish"
      BY <2>4 DEF Reconcile, ReconcileNamespace, CapabilitiesGet, CapabilitiesPut,
                  MigrateDeploymentSelector, ApplyRollout, Rollout, Goto, Fail, objects
    <3> QED BY <1>1, <3>1 DEF RolesWorkedOff
  <2>5. CASE DeleteClusterRoles("bindings", "roles")
    BY <1>1, <2>1, <2>5 DEF DeleteClusterRoles, Goto, RolesWorkedOff
  <2>6. CASE DeleteClusterRoles("roles", "finish")
    <3>1. rbac' = rbac \ {"roles"} /\ pc = "roles" /\ pc' = "finish"
      BY <1>0, <2>1, <2>6 DEF DeleteClusterRoles, Goto
    <3> QED BY <1>0, <3>1 DEF RolesWorkedOff, ClusterRoles
  <2>7. CASE Finish
    BY <2>7 DEF Finish, Goto, RolesWorkedOff
  <2>8. CASE \/ FinalizeNamespace \/ MarkGet \/ MarkPut \/ FinalizeRollout
             \/ DeleteConfigMap \/ AwaitRelease \/ ReleaseGet \/ ReleasePut
    <3>1. UNCHANGED rbac /\ pc' \notin {"roles", "finish"} /\ pc # "finish"
      BY <2>8 DEF FinalizeNamespace, MarkGet, MarkPut, FinalizeRollout, Rollout, DeleteConfigMap,
                  AwaitRelease, ReleaseGet, ReleasePut, Goto, Fail, objects
    <3> QED BY <1>1, <3>1 DEF RolesWorkedOff
  <2> QED BY <1>2, <2>2, <2>3, <2>4, <2>5, <2>6, <2>7, <2>8 DEF WorkerStep, Reconcile, Finalize
<1>3. CASE Abort \/ Environment \/ FeastOperator \/ GarbageCollect
  <2>1. UNCHANGED rbac /\ (pc' = pc \/ pc' = "idle")
    BY <1>3 DEF Abort, Fail, Environment, CreateCR, EditCR, DeleteCR, UserDeletesConfigMap, FeastOperator,
                OperatorStarts, OperatorClaims, OperatorReleases, GarbageCollect, objects, worker
  <2> QED BY <1>1, <2>1 DEF RolesWorkedOff
<1>4. CASE Tick \/ Sync \/ UNCHANGED vars
  <2>1. UNCHANGED <<rbac, pc>>
    BY <1>4 DEF Tick, Sync, SyncDeployment, SyncNamespace, SyncClusterRoles, vars, objects, worker
  <2> QED BY <1>1, <2>1 DEF RolesWorkedOff
<1> QED BY <1>2, <1>3, <1>4 DEF Next, TimePasses

\* With a current cache of cluster roles, an uninstalled module leaves none of
\* them, however often the finalizer was interrupted between two deletions.
THEOREM RolesRemoved ==
  ASSUME "roles" \notin Lagging
  PROVE  Spec => []UninstallRemovesClusterRoles
<1>1. Init => RolesWorkedOff
  BY DEF Init, RolesWorkedOff
<1>2. InductiveInvariant /\ RolesWorkedOff /\ [Next]_vars => RolesWorkedOff'
  BY RolesStep
<1>3. RolesWorkedOff => UninstallRemovesClusterRoles
  BY DEF RolesWorkedOff, UninstallRemovesClusterRoles
<1> QED BY <1>1, <1>2, <1>3, Invariance, PTL DEF Spec

-----------------------------------------------------------------------------

\* A write that leaves the data alone leaves them, or no ConfigMap.
LEMMA DataKept ==
  ASSUME NEW c, c.data = cm.data, WriteConfigMap(c)
  PROVE  cm'.exists => cm'.data = cm.data
  BY DEF WriteConfigMap, Settle, NoConfigMap

\* Once rolled, the feast operator and the ConfigMap change, but neither the
\* data nor the hash.
LEMMA RolledOutStep ==
  ASSUME "deployment" \notin Lagging, InductiveInvariant, RolledOut, [Next]_vars
  PROVE  RolledOut'
<1>0. cm \in ConfigMaps /\ dep \in Deployments
  BY DEF InductiveInvariant, TypeOK
<1>1. CASE WorkerStep
  <2>1. depC = dep
    BY <1>1 DEF WorkerStep, InSync
  <2>2. CASE FinalizeRollout
    <3>1. cm' = cm /\ Rollout("delete")
      BY <2>2 DEF FinalizeRollout, cmVars
    <3>2. CASE dep' = dep /\ ~(cm.exists /\ dep.exists /\ dep.hash # Hash(cm.data))
      BY <3>1, <3>2 DEF RolledOut
    <3>3. CASE dep' = [dep EXCEPT !.hash = Hash(cm.data)]
      BY <1>0, <3>1, <3>3 DEF RolledOut, Deployments
    <3>4. CASE pc' = "idle"
      BY <3>4 DEF RolledOut
    <3> QED BY <2>1, <3>1, <3>2, <3>3, <3>4 DEF Rollout, Fail
  <2>3. CASE DeleteConfigMap
    <3>1. dep' = dep /\ pc = "delete"
      BY <2>3 DEF DeleteConfigMap
    <3>2. CASE cm.exists /\ ~cm.deleting
      <4>1. Terminating(cm).data = cm.data
        BY <1>0 DEF Terminating, ConfigMaps
      <4>2. WriteConfigMap(Terminating(cm))
        BY <2>3, <3>2 DEF DeleteConfigMap
      <4> QED BY <3>1, <3>2, <4>1, <4>2, DataKept DEF RolledOut
    <3>3. CASE ~(cm.exists /\ ~cm.deleting)
      BY <2>3, <3>1, <3>3 DEF DeleteConfigMap, cmVars, RolledOut
    <3> QED BY <3>2, <3>3
  <2>4. CASE \/ Start \/ Reconcile \/ FinalizeNamespace \/ MarkGet \/ MarkPut \/ AwaitRelease
             \/ ReleaseGet \/ ReleasePut \/ DeleteClusterRoles("bindings", "roles")
             \/ DeleteClusterRoles("roles", "finish") \/ Finish
    <3>1. pc' \notin {"delete", "await"}
      BY <2>4 DEF Start, setKustomizedParams, Reconcile, ReconcileNamespace, CapabilitiesGet, CapabilitiesPut,
                  MigrateDeploymentSelector, Deploy, ApplyRollout, Rollout, FinalizeNamespace,
                  MarkGet, MarkPut, AwaitRelease, ReleaseGet, ReleasePut, DeleteClusterRoles,
                  Finish, Goto, Fail
    <3> QED BY <3>1 DEF RolledOut
  <2> QED BY <1>1, <2>2, <2>3, <2>4 DEF WorkerStep, Finalize
<1>2. CASE Abort
  BY <1>2 DEF Abort, Fail, RolledOut
<1>3. CASE UserDeletesConfigMap \/ OperatorClaims \/ OperatorReleases
  <2>1. UNCHANGED <<dep, pc>> /\ cm.exists
    BY <1>3 DEF UserDeletesConfigMap, OperatorClaims, OperatorReleases
  <2>2. cm'.exists => cm'.data = cm.data
    <3>1. /\ Terminating(cm).data = cm.data
          /\ [cm EXCEPT !.op = TRUE].data = cm.data
          /\ [cm EXCEPT !.op = FALSE].data = cm.data
      BY <1>0 DEF Terminating, ConfigMaps
    <3> QED BY <1>3, <3>1, DataKept DEF UserDeletesConfigMap, OperatorClaims, OperatorReleases
  <2> QED BY <2>1, <2>2 DEF RolledOut
<1>4. CASE GarbageCollect
  BY <1>4 DEF GarbageCollect, NoDeployment, RolledOut
<1>5. CASE CreateCR \/ EditCR \/ DeleteCR \/ OperatorStarts \/ Tick \/ Sync \/ UNCHANGED vars
  <2>1. UNCHANGED <<cm, dep, pc>>
    BY <1>5 DEF CreateCR, EditCR, DeleteCR, OperatorStarts, Tick, Sync, SyncDeployment, SyncNamespace,
                SyncClusterRoles, vars, objects, cmVars, worker
  <2> QED BY <2>1 DEF RolledOut
<1> QED BY <1>1, <1>2, <1>3, <1>4, <1>5 DEF Next, TimePasses, Environment, FeastOperator

\* With a current cache of the Deployment, the feast operator has been rolled to
\* the teardown before the finalizer waits for it to tear down.
THEOREM TeardownReachesPods ==
  ASSUME "deployment" \notin Lagging
  PROVE  Spec => []TeardownRolledOut
<1>1. Init => RolledOut
  BY DEF Init, RolledOut
<1>2. InductiveInvariant /\ RolledOut /\ [Next]_vars => RolledOut'
  BY RolledOutStep
<1>3. RolledOut => TeardownRolledOut
  BY DEF RolledOut, TeardownRolledOut
<1> QED BY <1>1, <1>2, <1>3, Invariance, PTL DEF Spec

-----------------------------------------------------------------------------

\* With a current cache of the Deployment, the migration deletes only a
\* Deployment whose selector is the old one, as its comment says: the Delete
\* has no preconditions, so it is the cache that makes it safe.
THEOREM MigrationSpares ==
  ASSUME "deployment" \notin Lagging
  PROVE  Spec => MigrationSparesCurrentDeployment
<1> DEFINE Spared == pc = "migrate" /\ pc' = "deploy" /\ dep.exists /\ dep.sel => dep'.exists
<1>1. ASSUME [Next]_vars PROVE [Spared]_vars
  <2> SUFFICES ASSUME pc = "migrate", pc' = "deploy", dep.exists, dep.sel PROVE dep'.exists
    OBVIOUS
  <2>1. WorkerStep
    BY <1>1 DEF Next, Abort, Fail, Environment, CreateCR, EditCR, DeleteCR, UserDeletesConfigMap,
                FeastOperator, OperatorStarts, OperatorClaims, OperatorReleases, GarbageCollect,
                TimePasses, Tick, Sync, SyncDeployment, SyncNamespace, SyncClusterRoles, vars, worker
  <2>2. MigrateDeploymentSelector
    BY <2>1 DEF WorkerStep, Start, Reconcile, ReconcileNamespace, CapabilitiesGet, CapabilitiesPut,
                Deploy, ApplyRollout, Finalize, FinalizeNamespace, MarkGet, MarkPut, FinalizeRollout,
                DeleteConfigMap, AwaitRelease, ReleaseGet, ReleasePut, DeleteClusterRoles, Finish
  <2>3. depC = dep
    BY <2>1 DEF WorkerStep, InSync
  <2> QED BY <2>2, <2>3 DEF MigrateDeploymentSelector
<1>2. [][Spared]_vars => MigrationSparesCurrentDeployment
  BY PTL DEF MigrationSparesCurrentDeployment
<1> QED BY <1>1, <1>2, PTL DEF Spec

===============================================================================
