--------------------------- MODULE FeastModuleProofs ---------------------------
(***************************************************************************)
(* Proofs about FeastModule, for every set of specs, every timeout, every  *)
(* number of faults and every set of lagging caches.                       *)
(***************************************************************************)
EXTENDS FeastModule, TLAPS

GoodData == {d \in Data : d.dr => d.ns}

\* What reconcileCapabilitiesConfigMap writes is well-formed data.
LEMMA DataOfGood == ASSUME NEW c \in Caps PROVE DataOf(c) \in GoodData
BY DEF DataOf, Caps, Data, GoodData

\* The absent ConfigMap is a ConfigMap.
LEMMA NoConfigMapType == NoConfigMap \in ConfigMaps
<1>1. NoData \in {d \in Data : d.dr => d.ns}
  BY DEF NoData, Data
<1> QED
  BY <1>1 DEF NoConfigMap, ConfigMaps

\* So are the absent Deployment and the absent pod.
LEMMA AbsentTypes == NoDeployment \in Deployments /\ NoPod \in [up : BOOLEAN, dr : BOOLEAN]
BY DEF NoDeployment, Deployments, NoPod

\* The initial states satisfy the inductive invariant.
LEMMA InitInductive == Init => InductiveInvariant
<1> SUFFICES ASSUME Init PROVE InductiveInvariant
  OBVIOUS
<1> USE FeastModuleAssumption DEF FeastModuleAssumption
<1>0. \/ cr = "absent" /\ spec = NoSpec /\ cm = NoConfigMap /\ rbac = {} /\ ns = "none"
      \/ cr = "live" /\ spec \in Specs /\ rbac = ClusterRoles /\ ns \in {"none", "on"}
  BY DEF Init
<1>1. cm \in ConfigMaps /\ ConfigMapSettled /\ ~cm.deleting /\ ~cm.started
  <2>1. CASE cm = NoConfigMap
    BY <2>1, NoConfigMapType DEF ConfigMapSettled, NoConfigMap
  <2>2. CASE cm # NoConfigMap
    <3>1. PICK c \in Caps : cm = [NoConfigMap EXCEPT !.exists = TRUE, !.data = DataOf(c)]
      BY <2>2 DEF Init
    <3>2. cm = [exists |-> TRUE, deleting |-> FALSE, mod |-> FALSE, op |-> FALSE,
                data |-> DataOf(c), started |-> FALSE]
      BY <3>1 DEF NoConfigMap
    <3> QED
      BY <3>2, DataOfGood DEF ConfigMaps, ConfigMapSettled, GoodData
  <2> QED
    BY <2>1, <2>2
<1>2. dep \in Deployments
  <2>1. CASE dep = NoDeployment
    BY <2>1 DEF Deployments, NoDeployment
  <2>2. CASE dep # NoDeployment
    <3>1. PICK b \in BOOLEAN :
            dep = [exists |-> TRUE, owned |-> TRUE, sel |-> b, hash |-> {}]
      BY <2>2 DEF Init
    <3> QED
      BY <3>1 DEF Deployments
  <2> QED
    BY <2>1, <2>2
<1>3. TypeOK
  <2>1. age = 0 /\ gaveUp = FALSE /\ pod = NoPod /\ depC = dep /\ nsC = ns /\ rbacC = rbac
        /\ pc = "idle" /\ req = EnvCaps /\ fresh = FALSE /\ pending = TRUE /\ faults = 0
    BY DEF Init
  <2>2. /\ cr \in {"absent", "new", "live", "deleting"} /\ spec \in Specs \cup {NoSpec}
        /\ ns \in {"none", "off", "on"} /\ nsC \in {"none", "off", "on"}
        /\ rbac \subseteq ClusterRoles /\ rbacC \subseteq ClusterRoles
    BY <1>0, <2>1
  <2>3. age \in 0..Timeout /\ faults \in 0..MaxFaults
    BY <2>1
  <2>4. pod \in [up : BOOLEAN, dr : BOOLEAN]
    BY <2>1 DEF NoPod
  <2> QED
    BY <1>1, <1>2, <2>1, <2>2, <2>3, <2>4 DEF TypeOK, PCs
<1>4. FinalizerProgress
  BY DEF Init, FinalizerProgress, Finalizing, AfterMark, AfterDelete, AfterWait, AfterRelease
<1>5. LeftByPredecessor
  BY <1>0 DEF LeftByPredecessor, NoConfigMap
<1>6. GaveUpAfterTimeout
  BY DEF Init, GaveUpAfterTimeout
<1> QED
  BY <1>1, <1>3, <1>4, <1>5, <1>6 DEF InductiveInvariant

\* What a write of the ConfigMap leaves: the object written, or nothing when
\* it was Terminating and its last finalizer went.
LEMMA WriteOutcome ==
  ASSUME TypeOK, NEW c \in ConfigMaps, c.exists, WriteConfigMap(c)
  PROVE  /\ cm' \in ConfigMaps /\ ConfigMapSettled'
         /\ \/ cm' = c /\ (c.deleting => c.mod \/ c.op)
            \/ cm' = NoConfigMap /\ c.deleting /\ ~c.mod /\ ~c.op
         /\ age' \in 0..Timeout /\ (cm'.started => age' = age)
         /\ gaveUp' \in BOOLEAN /\ gaveUp' = (gaveUp /\ cm'.exists)
         /\ fresh' = FALSE /\ pending' \in BOOLEAN
<1> USE FeastModuleAssumption DEF FeastModuleAssumption
<1>1. cm' = Settle(c)
  BY DEF WriteConfigMap
<1>2. \/ cm' = c /\ (c.deleting => c.mod \/ c.op)
      \/ cm' = NoConfigMap /\ c.deleting /\ ~c.mod /\ ~c.op
  BY <1>1 DEF Settle, ConfigMaps
<1>3. cm' \in ConfigMaps /\ ConfigMapSettled'
  <2>1. cm' \in ConfigMaps
    BY <1>2, NoConfigMapType
  <2>2. ~cm'.exists => cm' = NoConfigMap
    BY <1>2
  <2>3. cm'.deleting => cm'.mod \/ cm'.op
    BY <1>2 DEF NoConfigMap
  <2> QED
    BY <2>1, <2>2, <2>3 DEF ConfigMapSettled
<1>4. age' = IF cm'.started THEN age ELSE 0
  BY <1>1 DEF WriteConfigMap
<1>5. gaveUp' = (gaveUp /\ cm'.exists) /\ fresh' = FALSE
  BY <1>1 DEF WriteConfigMap
<1>6. pending' = (pending \/ WatchPredicate(cm, cm'))
  BY <1>1 DEF WriteConfigMap
<1>7. pending' \in BOOLEAN
  BY <1>6 DEF TypeOK, WatchPredicate, DefaultPredicate
<1>8. age' \in 0..Timeout
  BY <1>4 DEF TypeOK
<1>9. gaveUp' \in BOOLEAN
  BY <1>3, <1>5 DEF TypeOK, ConfigMaps
<1> QED
  BY <1>2, <1>3, <1>4, <1>5, <1>7, <1>8, <1>9

\* Every object that is written is a ConfigMap; what it has of the fields the
\* invariant speaks of.
LEMMA Rewrites ==
  ASSUME cm \in ConfigMaps
  PROVE  /\ [cm EXCEPT !.mod = FALSE] \in ConfigMaps
         /\ [cm EXCEPT !.op = TRUE] \in ConfigMaps
         /\ [cm EXCEPT !.op = FALSE] \in ConfigMaps
         /\ Terminating(cm) \in ConfigMaps
BY DEF ConfigMaps, Terminating

\* The intent that markCapabilitiesDisabled writes, and what it keeps.
LEMMA MarkedIs ==
  ASSUME cm \in ConfigMaps
  PROVE  /\ Marked(cm) \in ConfigMaps
         /\ Marked(cm).started /\ ~Marked(cm).data.fs /\ ~Marked(cm).data.dr
         /\ Marked(cm).exists = cm.exists /\ Marked(cm).deleting = cm.deleting
         /\ Marked(cm).mod = cm.mod /\ Marked(cm).op = cm.op
<1>1. cm.data \in Data
  BY DEF ConfigMaps
<1>2. [cm.data EXCEPT !.fs = FALSE, !.dr = FALSE] \in GoodData
  BY <1>1 DEF Data, GoodData
<1>3. Marked(cm) = [cm EXCEPT !.data = [cm.data EXCEPT !.fs = FALSE, !.dr = FALSE],
                              !.started = TRUE]
  BY DEF Marked, ConfigMaps, Data
<1>4. Marked(cm).data = [cm.data EXCEPT !.fs = FALSE, !.dr = FALSE]
  BY <1>3 DEF ConfigMaps
<1> QED
  BY <1>1, <1>2, <1>3, <1>4 DEF ConfigMaps, GoodData, Data

\* What reconcileCapabilitiesConfigMap writes keeps the finalizer of the feast
\* operator, the annotation and a deletion that has started.
LEMMA DesiredIs ==
  ASSUME cm \in ConfigMaps, req \in Caps, ConfigMapSettled
  PROVE  /\ Desired(cm) \in ConfigMaps /\ Desired(cm).exists
         /\ Desired(cm).deleting = cm.deleting /\ Desired(cm).op = cm.op
         /\ Desired(cm).started = cm.started
<1>1. DataOf(req) \in GoodData
  BY DataOfGood
<1>2. cm.deleting => cm.exists
  BY DEF ConfigMapSettled, NoConfigMap
<1> QED
  BY <1>1, <1>2 DEF Desired, ConfigMaps, GoodData

\* A spec, or that of a CR that is gone, has capabilities or leaves them out.
LEMMA SpecType == \A s \in Specs \cup {NoSpec} : s \in FeastOperatorSpec
<1>1. NoSpec \in FeastOperatorSpec
  BY DEF NoSpec, FeastOperatorSpec
<1>2. Specs \subseteq FeastOperatorSpec
  BY FeastModuleAssumption DEF FeastModuleAssumption
<1> QED
  BY <1>1, <1>2

\* Type correctness is preserved by every step.
LEMMA TypeStep ==
  ASSUME TypeOK, ConfigMapSettled, FinalizerProgress, [Next]_vars
  PROVE  TypeOK'
<1> USE FeastModuleAssumption DEF FeastModuleAssumption, TypeOK
<1>1. ASSUME Start PROVE TypeOK'
  <2>0. spec \in FeastOperatorSpec
    BY SpecType
  <2>1. /\ req' \in Caps /\ cr' \in {"absent", "new", "live", "deleting"} /\ pc' \in PCs
        /\ pending' \in BOOLEAN
    BY <1>1, <2>0
       DEF Start, setKustomizedParams, Goto, Fail, resolveCapabilities, FeastOperatorSpec, PCs
  <2> QED
    BY <1>1, <2>1 DEF Start, cmVars, caches
<1>2. ASSUME ReconcileNamespace PROVE TypeOK'
  <2>1. ns' \in {"none", "off", "on"} /\ pc' \in PCs /\ pending' \in BOOLEAN
    BY <1>2 DEF ReconcileNamespace, removeDataRegistryLabel, Goto, Fail, PCs
  <2> QED
    BY <1>2, <2>1 DEF ReconcileNamespace, cmVars, caches
<1>3. ASSUME CapabilitiesGet PROVE TypeOK'
  <2>1. pc' \in PCs
    BY <1>3 DEF CapabilitiesGet, Goto, PCs
  <2> QED
    BY <1>3, <2>1 DEF CapabilitiesGet, objects, caches
<1>4. ASSUME CapabilitiesPut PROVE TypeOK'
  <2>1. CASE fresh
    BY <1>4, <2>1, WriteOutcome, DesiredIs DEF CapabilitiesPut, Goto, caches, PCs
  <2>2. CASE ~fresh
    BY <1>4, <2>2 DEF CapabilitiesPut, Fail, cmVars, caches, PCs
  <2> QED
    BY <2>1, <2>2
<1>5. ASSUME MigrateDeploymentSelector PROVE TypeOK'
  <2>1. \/ dep' = NoDeployment /\ pod' = NoPod
        \/ dep' = dep /\ pod' = pod
    BY <1>5 DEF MigrateDeploymentSelector
  <2>2. dep' \in Deployments /\ pod' \in [up : BOOLEAN, dr : BOOLEAN]
    BY <2>1, AbsentTypes
  <2> QED
    BY <1>5, <2>2 DEF MigrateDeploymentSelector, Goto, cmVars, caches, PCs
<1>6. ASSUME Deploy PROVE TypeOK'
  <2>1. dep' \in Deployments
    BY <1>6 DEF Deploy, Deployments
  <2>2. rbac' \subseteq ClusterRoles /\ pc' \in PCs /\ pending' \in BOOLEAN
    BY <1>6 DEF Deploy, Goto, Fail, PCs
  <2> QED
    BY <1>6, <2>1, <2>2 DEF Deploy, cmVars, caches
<1>7. ASSUME NEW l \in PCs, Rollout(l)
      PROVE  dep' \in Deployments /\ pc' \in PCs /\ pending' \in BOOLEAN
  <2>1. Hash(cm.data) \in SUBSET Data
    BY DEF Hash, ConfigMaps
  <2> QED
    BY <1>7, <2>1 DEF Rollout, Goto, Fail, Deployments, PCs
<1>8. ASSUME ApplyRollout PROVE TypeOK'
  BY <1>7, <1>8 DEF ApplyRollout, cmVars, caches, PCs
<1>9. ASSUME FinalizeNamespace PROVE TypeOK'
  <2>1. ns' \in {"none", "off", "on"}
    BY <1>9 DEF FinalizeNamespace, removeDataRegistryLabel
  <2> QED
    BY <1>9, <2>1 DEF FinalizeNamespace, Goto, cmVars, caches, PCs
<1>10. ASSUME MarkGet PROVE TypeOK'
  <2>1. pc' \in PCs
    BY <1>10 DEF MarkGet, Goto, PCs
  <2> QED
    BY <1>10, <2>1 DEF MarkGet, objects, caches
<1>11. ASSUME MarkPut PROVE TypeOK'
  <2>1. CASE fresh
    <3>1. cm.exists
      BY <1>11, <2>1 DEF MarkPut, FinalizerProgress
    <3> QED
      BY <1>11, <2>1, <3>1, WriteOutcome, MarkedIs DEF MarkPut, Goto, caches, PCs
  <2>2. CASE ~fresh
    BY <1>11, <2>2 DEF MarkPut, Fail, cmVars, caches, PCs
  <2> QED
    BY <2>1, <2>2
<1>12. ASSUME FinalizeRollout PROVE TypeOK'
  BY <1>7, <1>12 DEF FinalizeRollout, cmVars, caches, PCs
<1>13. ASSUME DeleteConfigMap PROVE TypeOK'
  <2>1. CASE cm.exists /\ ~cm.deleting
    <3>1. Terminating(cm).exists
      BY <2>1 DEF Terminating, ConfigMaps
    <3> QED
      BY <1>13, <2>1, <3>1, WriteOutcome, Rewrites DEF DeleteConfigMap, Goto, caches, PCs
  <2>2. CASE ~(cm.exists /\ ~cm.deleting)
    BY <1>13, <2>2 DEF DeleteConfigMap, Goto, cmVars, caches, PCs
  <2> QED
    BY <2>1, <2>2
<1>14. ASSUME AwaitRelease PROVE TypeOK'
  <2>1. gaveUp' \in BOOLEAN /\ pc' \in PCs /\ pending' \in BOOLEAN
    BY <1>14 DEF AwaitRelease, Goto, Fail, PCs
  <2> QED
    BY <1>14, <2>1 DEF AwaitRelease, caches
<1>15. ASSUME ReleaseGet PROVE TypeOK'
  <2>1. pc' \in PCs
    BY <1>15 DEF ReleaseGet, Goto, PCs
  <2> QED
    BY <1>15, <2>1 DEF ReleaseGet, objects, caches
<1>16. ASSUME ReleasePut PROVE TypeOK'
  <2>1. CASE fresh
    <3>1. [cm EXCEPT !.mod = FALSE].exists
      BY <1>16, <2>1 DEF ReleasePut, FinalizerProgress, ConfigMaps
    <3> QED
      BY <1>16, <2>1, <3>1, WriteOutcome, Rewrites DEF ReleasePut, Goto, caches, PCs
  <2>2. CASE ~fresh
    BY <1>16, <2>2 DEF ReleasePut, Fail, cmVars, caches, PCs
  <2> QED
    BY <2>1, <2>2
<1>17. ASSUME NEW kind, NEW l \in PCs, DeleteClusterRoles(kind, l) PROVE TypeOK'
  <2>1. rbac' \subseteq ClusterRoles
    BY <1>17 DEF DeleteClusterRoles
  <2> QED
    BY <1>17, <2>1 DEF DeleteClusterRoles, Goto, cmVars, caches
<1>18. ASSUME Finish PROVE TypeOK'
  <2>1. dep' \in Deployments
    BY <1>18 DEF Finish, Deployments
  <2> QED
    BY <1>18, <2>1 DEF Finish, Goto, cmVars, caches, PCs
<1>19. ASSUME Abort PROVE TypeOK'
  BY <1>19 DEF Abort, Fail, objects, caches, PCs
<1>20. ASSUME CreateCR \/ EditCR \/ DeleteCR PROVE TypeOK'
  <2>1. cr' \in {"absent", "new", "live", "deleting"} /\ spec' \in Specs \cup {NoSpec}
    BY <1>20 DEF CreateCR, EditCR, DeleteCR
  <2> QED
    BY <1>20, <2>1 DEF CreateCR, EditCR, DeleteCR, cmVars, caches
<1>21. ASSUME UserDeletesConfigMap PROVE TypeOK'
  <2>1. Terminating(cm).exists
    BY <1>21 DEF UserDeletesConfigMap, Terminating, ConfigMaps
  <2> QED
    BY <1>21, <2>1, WriteOutcome, Rewrites DEF UserDeletesConfigMap, caches
<1>22. ASSUME OperatorStarts PROVE TypeOK'
  <2>1. pod' \in [up : BOOLEAN, dr : BOOLEAN]
    BY <1>22 DEF OperatorStarts
  <2> QED
    BY <1>22, <2>1 DEF OperatorStarts, cmVars, caches, worker
<1>23. ASSUME OperatorClaims PROVE TypeOK'
  <2>1. [cm EXCEPT !.op = TRUE].exists
    BY <1>23 DEF OperatorClaims, ConfigMaps
  <2> QED
    BY <1>23, <2>1, WriteOutcome, Rewrites DEF OperatorClaims, caches
<1>24. ASSUME OperatorReleases PROVE TypeOK'
  <2>1. [cm EXCEPT !.op = FALSE].exists
    BY <1>24 DEF OperatorReleases, ConfigMaps
  <2> QED
    BY <1>24, <2>1, WriteOutcome, Rewrites DEF OperatorReleases, caches
<1>25. ASSUME GarbageCollect PROVE TypeOK'
  BY <1>25, AbsentTypes DEF GarbageCollect, cmVars, caches, worker
<1>26. ASSUME Tick PROVE TypeOK'
  BY <1>26 DEF Tick, caches, worker
<1>27. ASSUME Sync PROVE TypeOK'
  BY <1>27 DEF Sync, SyncDeployment, SyncNamespace, SyncClusterRoles, objects, worker
<1>28. ASSUME UNCHANGED vars PROVE TypeOK'
  BY <1>28 DEF vars, objects, caches, worker
<1>29. DeleteClusterRoles("bindings", "roles") \/ DeleteClusterRoles("roles", "finish")
         => TypeOK'
  BY <1>17 DEF PCs
<1> QED
  BY <1>1, <1>2, <1>3, <1>4, <1>5, <1>6, <1>8, <1>9, <1>10, <1>11, <1>12, <1>13, <1>14,
     <1>15, <1>16, <1>18, <1>19, <1>20, <1>21, <1>22, <1>23, <1>24, <1>25, <1>26, <1>27,
     <1>28, <1>29
  DEF Next, WorkerStep, TimePasses, Reconcile, Finalize, Environment, FeastOperator

-----------------------------------------------------------------------------

\* A step that leaves the ConfigMap, its clock, the CR and the worker's place
\* alone only has to keep the types.
LEMMA Untouched ==
  ASSUME InductiveInvariant, TypeOK', UNCHANGED <<cm, age, gaveUp, cr, pc, fresh>>
  PROVE  InductiveInvariant'
BY DEF InductiveInvariant, ConfigMapSettled, FinalizerProgress, LeftByPredecessor,
       GaveUpAfterTimeout

\* Nothing is known of an idle worker: an error, or the end of a pipeline.
LEMMA BackToIdle ==
  ASSUME InductiveInvariant, TypeOK', pc' = "idle", UNCHANGED <<cm, age, gaveUp, cr>>
  PROVE  InductiveInvariant'
BY DEF InductiveInvariant, ConfigMapSettled, FinalizerProgress, LeftByPredecessor,
       GaveUpAfterTimeout, Finalizing, AfterMark, AfterDelete, AfterWait, AfterRelease

\* A worker that moves on without a write has to show how far it has come.
LEMMA MovesOn ==
  ASSUME InductiveInvariant, TypeOK', FinalizerProgress', UNCHANGED <<cm, age, gaveUp>>,
         cr' = cr \/ cr' \notin {"absent", "new"}
  PROVE  InductiveInvariant'
BY DEF InductiveInvariant, ConfigMapSettled, LeftByPredecessor, GaveUpAfterTimeout

\* The ConfigMap after a write of another process: it is never revived, its
\* data and the module's finalizer stay, and no finalizer is added to one that
\* is being deleted.  Such a write disturbs nothing the worker relies on.
LEMMA WriteOfAnother ==
  ASSUME InductiveInvariant, TypeOK', UNCHANGED <<cr, pc>>,
         NEW c \in ConfigMaps, cm.exists, c.exists, WriteConfigMap(c),
         c.mod = cm.mod, c.data = cm.data, c.started = cm.started,
         cm.deleting => c.deleting, cm.deleting /\ c.op => cm.op
  PROVE  InductiveInvariant'
<1> USE DEF InductiveInvariant
<1>1. /\ cm' \in ConfigMaps /\ ConfigMapSettled'
      /\ \/ cm' = c /\ (c.deleting => c.mod \/ c.op)
         \/ cm' = NoConfigMap /\ c.deleting /\ ~c.mod /\ ~c.op
      /\ (cm'.started => age' = age)
      /\ gaveUp' = (gaveUp /\ cm'.exists) /\ fresh' = FALSE
  BY WriteOutcome
<1>2. ~NoConfigMap.exists /\ ~NoConfigMap.op /\ ~NoConfigMap.mod
  BY DEF NoConfigMap
<1>3. GaveUpAfterTimeout'
  BY <1>1, <1>2 DEF GaveUpAfterTimeout
<1>4. FinalizerProgress'
  BY <1>1, <1>2 DEF FinalizerProgress, AfterMark, AfterDelete, AfterWait
<1>5. LeftByPredecessor'
  BY <1>1, <1>2 DEF LeftByPredecessor
<1> QED
  BY <1>1, <1>3, <1>4, <1>5

\* The same for a write of the worker, which moves on with it: only how far it
\* has come remains to be shown.
LEMMA WriteOfWorker ==
  ASSUME InductiveInvariant, TypeOK', FinalizerProgress', UNCHANGED cr,
         cr \notin {"absent", "new"},
         NEW c \in ConfigMaps, c.exists, WriteConfigMap(c),
         cm.started => c.started, cm.deleting => c.deleting
  PROVE  InductiveInvariant'
<1> USE DEF InductiveInvariant
<1>1. /\ ConfigMapSettled'
      /\ cm' = c \/ cm' = NoConfigMap
      /\ (cm'.started => age' = age) /\ gaveUp' = (gaveUp /\ cm'.exists)
  BY WriteOutcome
<1>2. ~NoConfigMap.exists
  BY DEF NoConfigMap
<1>3. GaveUpAfterTimeout'
  BY <1>1, <1>2 DEF GaveUpAfterTimeout
<1>4. LeftByPredecessor'
  BY DEF LeftByPredecessor
<1> QED
  BY <1>1, <1>3, <1>4

\* Every step preserves the inductive invariant.
LEMMA StepInductive ==
  ASSUME InductiveInvariant, [Next]_vars
  PROVE  InductiveInvariant'
<1> USE DEF InductiveInvariant
<1>0. TypeOK'
  BY TypeStep
<1> DEFINE Pipeline == {"namespace", "capGet", "capPut", "migrate", "deploy", "roll"}
<1>1. ASSUME pc' \in Pipeline \cup {"idle"}, cr' \in {"live", "deleting"},
             UNCHANGED <<cm, age, gaveUp>>
      PROVE  InductiveInvariant'
  <2>1. FinalizerProgress'
    BY <1>1 DEF FinalizerProgress, Finalizing, AfterMark, AfterDelete, AfterWait,
       AfterRelease
  <2> QED
    BY <1>0, <1>1, <2>1, MovesOn
<1>2. pc \in Pipeline => cr \in {"live", "deleting"}
  BY DEF FinalizerProgress, Finalizing, AfterMark, AfterDelete, AfterWait, AfterRelease
<1>3. pc \in Finalizing => cr = "deleting"
  BY DEF FinalizerProgress
<1>4. CASE Start
  <2>1. CASE cr = "absent"
    BY <1>0, <1>4, <2>1, BackToIdle DEF Start, cmVars
  <2>2. CASE cr \in {"new", "live"}
    BY <1>1, <1>4, <2>2 DEF Start, setKustomizedParams, Goto, Fail, cmVars
  <2>3. CASE cr = "deleting"
    <3>1. pc' = "unlabel" /\ UNCHANGED <<cr, cm, age, gaveUp>>
      BY <1>4, <2>3 DEF Start, Goto, cmVars
    <3>2. FinalizerProgress'
      BY <2>3, <3>1 DEF FinalizerProgress, Finalizing, AfterMark, AfterDelete, AfterWait,
         AfterRelease
    <3> QED
      BY <1>0, <3>1, <3>2, MovesOn
  <2> QED
    BY <2>1, <2>2, <2>3 DEF TypeOK
<1>5. CASE Reconcile
  <2>1. CASE ReconcileNamespace
    BY <1>1, <1>2, <2>1 DEF ReconcileNamespace, Goto, Fail, cmVars
  <2>2. CASE CapabilitiesGet
    BY <1>1, <1>2, <2>2 DEF CapabilitiesGet, Goto, objects
  <2>3. CASE CapabilitiesPut
    <3>1. CASE ~fresh
      BY <1>0, <2>3, <3>1, BackToIdle DEF CapabilitiesPut, Fail, cmVars
    <3>2. CASE fresh
      <4>1. pc' = "migrate" /\ UNCHANGED cr /\ WriteConfigMap(Desired(cm))
        BY <2>3, <3>2 DEF CapabilitiesPut, Goto
      <4>2. cr \in {"live", "deleting"}
        BY <1>2, <2>3 DEF CapabilitiesPut
      <4>3. FinalizerProgress'
        BY <4>1, <4>2 DEF FinalizerProgress, Finalizing, AfterMark, AfterDelete, AfterWait,
           AfterRelease
      <4>4. /\ Desired(cm) \in ConfigMaps /\ Desired(cm).exists
            /\ Desired(cm).deleting = cm.deleting /\ Desired(cm).started = cm.started
        BY DesiredIs DEF TypeOK
      <4> QED
        BY <1>0, <4>1, <4>2, <4>3, <4>4, WriteOfWorker
    <3> QED
      BY <3>1, <3>2
  <2>4. CASE MigrateDeploymentSelector
    BY <1>1, <1>2, <2>4 DEF MigrateDeploymentSelector, Goto, cmVars
  <2>5. CASE Deploy
    BY <1>1, <1>2, <2>5 DEF Deploy, Goto, Fail, cmVars
  <2>6. CASE ApplyRollout
    BY <1>1, <1>2, <2>6 DEF ApplyRollout, Rollout, Goto, Fail, cmVars
  <2> QED
    BY <1>5, <2>1, <2>2, <2>3, <2>4, <2>5, <2>6 DEF Reconcile
<1>6. CASE Finalize
  <2> USE DEF FinalizerProgress, Finalizing, AfterMark, AfterDelete, AfterWait, AfterRelease
  <2>1. CASE FinalizeNamespace
    <3>1. pc = "unlabel" /\ pc' = "markGet" /\ UNCHANGED <<cr, cm, age, gaveUp>>
      BY <2>1 DEF FinalizeNamespace, Goto, cmVars
    <3> QED
      BY <1>0, <1>3, <3>1, MovesOn
  <2>2. CASE MarkGet
    <3>1. /\ pc = "markGet" /\ pc' \in {"finRoll", "markPut"}
          /\ pc' = "finRoll" => ~cm.exists \/ Marked(cm) = cm
          /\ pc' = "markPut" => cm.exists
          /\ UNCHANGED <<cr, cm, age, gaveUp>>
      BY <2>2 DEF MarkGet, Goto, objects
    <3>2. Marked(cm).started /\ ~Marked(cm).data.fs /\ ~Marked(cm).data.dr
      BY MarkedIs DEF TypeOK
    <3>3. FinalizerProgress'
      BY <1>3, <3>1, <3>2
    <3> QED
      BY <1>0, <3>1, <3>3, MovesOn
  <2>3. CASE MarkPut
    <3>1. CASE ~fresh
      BY <1>0, <2>3, <3>1, BackToIdle DEF MarkPut, Fail, cmVars
    <3>2. CASE fresh
      <4>1. /\ pc = "markPut" /\ pc' = "finRoll" /\ UNCHANGED cr
            /\ WriteConfigMap(Marked(cm)) /\ cr = "deleting" /\ cm.exists
        BY <1>3, <2>3, <3>2 DEF MarkPut, Goto
      <4>2. /\ Marked(cm) \in ConfigMaps /\ Marked(cm).exists
            /\ Marked(cm).started /\ ~Marked(cm).data.fs /\ ~Marked(cm).data.dr
            /\ Marked(cm).deleting = cm.deleting
        BY <4>1, MarkedIs DEF TypeOK
      <4>3. cm' = Marked(cm) \/ cm' = NoConfigMap
        BY <4>1, <4>2, WriteOutcome
      <4>4. FinalizerProgress'
        BY <4>1, <4>2, <4>3 DEF NoConfigMap
      <4> QED
        BY <1>0, <4>1, <4>2, <4>4, WriteOfWorker
    <3> QED
      BY <3>1, <3>2
  <2>4. CASE FinalizeRollout
    <3>1. pc = "finRoll" /\ pc' \in {"delete", "idle"} /\ UNCHANGED <<cr, cm, age, gaveUp>>
      BY <2>4 DEF FinalizeRollout, Rollout, Goto, Fail, cmVars
    <3> QED
      BY <1>0, <1>3, <3>1, MovesOn
  <2>5. CASE DeleteConfigMap
    <3>1. pc = "delete" /\ pc' = "await" /\ UNCHANGED cr /\ cr = "deleting"
      BY <1>3, <2>5 DEF DeleteConfigMap, Goto
    <3>2. CASE cm.exists /\ ~cm.deleting
      <4>1. WriteConfigMap(Terminating(cm))
        BY <2>5, <3>2 DEF DeleteConfigMap
      <4>2. /\ Terminating(cm) \in ConfigMaps /\ Terminating(cm).exists
            /\ Terminating(cm).deleting
            /\ Terminating(cm).started = cm.started /\ Terminating(cm).data = cm.data
        BY <3>2, Rewrites DEF Terminating, ConfigMaps, TypeOK
      <4>3. cm' = Terminating(cm) \/ cm' = NoConfigMap
        BY <4>1, <4>2, WriteOutcome
      <4>4. FinalizerProgress'
        BY <3>1, <3>2, <4>2, <4>3 DEF NoConfigMap
      <4> QED
        BY <1>0, <3>1, <4>1, <4>2, <4>4, WriteOfWorker
    <3>3. CASE ~(cm.exists /\ ~cm.deleting)
      <4>1. UNCHANGED <<cm, age, gaveUp>>
        BY <2>5, <3>3 DEF DeleteConfigMap, cmVars
      <4>2. FinalizerProgress'
        BY <3>1, <3>3, <4>1
      <4> QED
        BY <1>0, <3>1, <4>1, <4>2, MovesOn
    <3> QED
      BY <3>2, <3>3
  <2>6. CASE AwaitRelease
    <3>1. pc = "await" /\ cr = "deleting" /\ UNCHANGED <<cr, cm, age, fresh>>
      BY <1>3, <2>6 DEF AwaitRelease
    <3>2. CASE Released
      <4>1. pc' = "relGet" /\ UNCHANGED gaveUp
        BY <2>6, <3>2 DEF AwaitRelease, Goto
      <4>2. ~cm.op
        BY <3>2 DEF Released, ConfigMapSettled, NoConfigMap
      <4>3. FinalizerProgress'
        BY <3>1, <4>1, <4>2
      <4> QED
        BY <1>0, <3>1, <4>1, <4>3, MovesOn
    <3>3. CASE ~Released /\ ~TimedOut
      BY <1>0, <2>6, <3>1, <3>3, BackToIdle DEF AwaitRelease, Fail
    <3>4. CASE ~Released /\ TimedOut
      <4>1. pc' = "relGet" /\ gaveUp' = TRUE
        BY <2>6, <3>4 DEF AwaitRelease, Goto
      <4>2. FinalizerProgress' /\ ConfigMapSettled'
        BY <3>1, <4>1 DEF ConfigMapSettled
      <4>3. GaveUpAfterTimeout'
        BY <3>1, <3>4, <4>1, FeastModuleAssumption
        DEF GaveUpAfterTimeout, TimedOut, TypeOK, FeastModuleAssumption
      <4>4. LeftByPredecessor'
        BY <3>1 DEF LeftByPredecessor
      <4> QED
        BY <1>0, <4>2, <4>3, <4>4
    <3> QED
      BY <3>2, <3>3, <3>4
  <2>7. CASE ReleaseGet
    <3>1. /\ pc = "relGet" /\ pc' \in {"relPut", "bindings"}
          /\ pc' = "relPut" => cm.exists
          /\ pc' = "bindings" => ~(cm.exists /\ cm.mod)
          /\ UNCHANGED <<cr, cm, age, gaveUp>>
      BY <2>7 DEF ReleaseGet, Goto, objects
    <3>2. pc' = "bindings" => ~cm.mod
      BY <3>1 DEF ConfigMapSettled, NoConfigMap
    <3>3. FinalizerProgress'
      BY <1>3, <3>1, <3>2
    <3> QED
      BY <1>0, <3>1, <3>3, MovesOn
  <2>8. CASE ReleasePut
    <3>1. CASE ~fresh
      BY <1>0, <2>8, <3>1, BackToIdle DEF ReleasePut, Fail, cmVars
    <3>2. CASE fresh
      <4> DEFINE c == [cm EXCEPT !.mod = FALSE]
      <4>1. /\ pc = "relPut" /\ pc' = "bindings" /\ UNCHANGED cr
            /\ WriteConfigMap(c) /\ cr = "deleting" /\ cm.exists
        BY <1>3, <2>8, <3>2 DEF ReleasePut, Goto
      <4>2. /\ c \in ConfigMaps /\ c.exists /\ ~c.mod /\ c.op = cm.op
            /\ c.deleting = cm.deleting /\ c.started = cm.started /\ c.data = cm.data
        BY <4>1, Rewrites DEF ConfigMaps, TypeOK
      <4> HIDE DEF c
      <4>3. (cm' = c \/ cm' = NoConfigMap) /\ gaveUp' = (gaveUp /\ cm'.exists)
        BY <4>1, <4>2, WriteOutcome
      <4>4. ~cm.op \/ gaveUp
        BY <4>1
      <4>5. CASE cm' = c
        <5>1. ~cm'.op \/ gaveUp'
          BY <4>2, <4>3, <4>4, <4>5
        <5>2. FinalizerProgress'
          BY <4>1, <4>2, <4>5, <5>1
        <5> QED
          BY <1>0, <4>1, <4>2, <5>2, WriteOfWorker
      <4>6. CASE cm' = NoConfigMap
        <5>1. FinalizerProgress'
          BY <4>1, <4>6 DEF NoConfigMap
        <5> QED
          BY <1>0, <4>1, <4>2, <5>1, WriteOfWorker
      <4> QED
        BY <4>3, <4>5, <4>6
    <3> QED
      BY <3>1, <3>2
  <2>9. CASE DeleteClusterRoles("bindings", "roles") \/ DeleteClusterRoles("roles", "finish")
    <3>1. /\ pc \in {"bindings", "roles"} /\ pc' \in {"roles", "finish"}
          /\ UNCHANGED <<cr, cm, age, gaveUp>>
      BY <2>9 DEF DeleteClusterRoles, Goto, cmVars
    <3> QED
      BY <1>0, <1>3, <3>1, MovesOn
  <2>10. CASE Finish
    <3>1. pc = "finish" /\ pc' = "idle" /\ cr' = "absent" /\ UNCHANGED <<cm, age, gaveUp>>
      BY <2>10 DEF Finish, Goto, cmVars
    <3>2. cm.exists => cm.deleting /\ ~cm.mod /\ cm.started /\ ~cm.data.fs /\ ~cm.data.dr
      BY <3>1
    <3>3. cm.exists => gaveUp
      BY <3>1, <3>2 DEF ConfigMapSettled
    <3>4. LeftByPredecessor'
      BY <3>1, <3>2, <3>3 DEF LeftByPredecessor
    <3>5. FinalizerProgress' /\ ConfigMapSettled' /\ GaveUpAfterTimeout'
      BY <3>1 DEF ConfigMapSettled, GaveUpAfterTimeout
    <3> QED
      BY <1>0, <3>4, <3>5
  <2> QED
    BY <1>6, <2>1, <2>2, <2>3, <2>4, <2>5, <2>6, <2>7, <2>8, <2>9, <2>10 DEF Finalize
<1>7. CASE Abort
  BY <1>0, <1>7, BackToIdle DEF Abort, Fail, objects
<1>8. CASE CreateCR
  <2>1. cr = "absent" /\ cr' = "new" /\ UNCHANGED <<cm, age, gaveUp, pc, fresh>>
    BY <1>8 DEF CreateCR, cmVars
  <2>2. pc = "idle"
    BY <1>2, <1>3, <2>1 DEF TypeOK, PCs, Finalizing, AfterMark, AfterDelete, AfterWait,
       AfterRelease
  <2>3. FinalizerProgress'
    BY <2>1, <2>2 DEF FinalizerProgress, Finalizing, AfterMark, AfterDelete, AfterWait,
       AfterRelease
  <2>4. LeftByPredecessor' /\ ConfigMapSettled' /\ GaveUpAfterTimeout'
    BY <2>1 DEF LeftByPredecessor, ConfigMapSettled, GaveUpAfterTimeout
  <2> QED
    BY <1>0, <2>3, <2>4
<1>9. CASE EditCR
  BY <1>0, <1>9, Untouched DEF EditCR, cmVars
<1>10. CASE DeleteCR
  <2>1. /\ \/ cr = "new" /\ cr' = "absent"
           \/ cr = "live" /\ cr' = "deleting"
        /\ UNCHANGED <<cm, age, gaveUp, pc, fresh>>
    BY <1>10 DEF DeleteCR, cmVars
  <2>2. FinalizerProgress'
    <3>1. cr = "new" => pc = "idle"
      BY <1>2, <1>3 DEF TypeOK, PCs, Finalizing, AfterMark, AfterDelete, AfterWait,
         AfterRelease
    <3> QED
      BY <2>1, <3>1 DEF FinalizerProgress, Finalizing, AfterMark, AfterDelete, AfterWait,
         AfterRelease
  <2>3. LeftByPredecessor' /\ ConfigMapSettled' /\ GaveUpAfterTimeout'
    BY <2>1 DEF LeftByPredecessor, ConfigMapSettled, GaveUpAfterTimeout
  <2> QED
    BY <1>0, <2>2, <2>3
<1>11. CASE UserDeletesConfigMap
  <2>1. /\ Terminating(cm) \in ConfigMaps /\ Terminating(cm).exists
        /\ Terminating(cm).deleting /\ Terminating(cm).mod = cm.mod
        /\ Terminating(cm).started = cm.started /\ Terminating(cm).data = cm.data
    BY <1>11, Rewrites DEF UserDeletesConfigMap, Terminating, ConfigMaps, TypeOK
  <2> QED
    BY <1>0, <1>11, <2>1, WriteOfAnother DEF UserDeletesConfigMap
<1>12. CASE OperatorStarts
  BY <1>0, <1>12, Untouched DEF OperatorStarts, cmVars, worker
<1>13. CASE OperatorClaims
  <2> DEFINE c == [cm EXCEPT !.op = TRUE]
  <2>1. /\ c \in ConfigMaps /\ c.exists /\ c.mod = cm.mod /\ c.data = cm.data
        /\ c.started = cm.started /\ c.deleting = cm.deleting
    BY <1>13, Rewrites DEF OperatorClaims, ConfigMaps, TypeOK
  <2>2. cm.exists /\ ~cm.deleting /\ WriteConfigMap(c) /\ UNCHANGED <<cr, pc>>
    BY <1>13 DEF OperatorClaims
  <2> HIDE DEF c
  <2> QED
    BY <1>0, <2>1, <2>2, WriteOfAnother
<1>14. CASE OperatorReleases
  <2> DEFINE c == [cm EXCEPT !.op = FALSE]
  <2>1. /\ c \in ConfigMaps /\ c.exists /\ c.mod = cm.mod /\ c.data = cm.data /\ ~c.op
        /\ c.started = cm.started /\ c.deleting = cm.deleting
    BY <1>14, Rewrites DEF OperatorReleases, ConfigMaps, TypeOK
  <2>2. cm.exists /\ WriteConfigMap(c) /\ UNCHANGED <<cr, pc>>
    BY <1>14 DEF OperatorReleases
  <2> HIDE DEF c
  <2> QED
    BY <1>0, <2>1, <2>2, WriteOfAnother
<1>15. CASE GarbageCollect
  BY <1>0, <1>15, Untouched DEF GarbageCollect, cmVars, worker
<1>16. CASE Tick
  <2>1. UNCHANGED <<cm, cr, pc, gaveUp, fresh>> /\ age # Timeout
    BY <1>16, FeastModuleAssumption DEF Tick, worker, TypeOK, FeastModuleAssumption
  <2>2. GaveUpAfterTimeout'
    BY <2>1 DEF GaveUpAfterTimeout
  <2>3. FinalizerProgress' /\ ConfigMapSettled' /\ LeftByPredecessor'
    BY <2>1 DEF FinalizerProgress, ConfigMapSettled, LeftByPredecessor
  <2> QED
    BY <1>0, <2>2, <2>3
<1>17. CASE Sync
  BY <1>0, <1>17, Untouched
  DEF Sync, SyncDeployment, SyncNamespace, SyncClusterRoles, objects, worker
<1>18. CASE UNCHANGED vars
  BY <1>0, <1>18, Untouched DEF vars, objects, worker
<1> QED
  BY <1>4, <1>5, <1>6, <1>7, <1>8, <1>9, <1>10, <1>11, <1>12, <1>13, <1>14, <1>15, <1>16,
     <1>17, <1>18
  DEF Next, WorkerStep, TimePasses, Environment, FeastOperator

-----------------------------------------------------------------------------
(* The theorems.  Fairness is not used.                                    *)

\* The inductive invariant holds in every reachable state.
THEOREM Invariance == Spec => []InductiveInvariant
<1>1. InductiveInvariant /\ [Next]_vars => InductiveInvariant'
  BY StepInductive
<1> QED
  BY <1>1, InitInductive, PTL DEF Spec

\* Types, and the namespace of every registry that the ConfigMap enables.
THEOREM TypeCorrect == Spec => []TypeOK
<1>1. InductiveInvariant => TypeOK
  BY DEF InductiveInvariant
<1> QED
  BY <1>1, Invariance, PTL

\* The cleanup-timeout Warning is only emitted after the full timeout.
THEOREM NoEarlyGiveUp == Spec => []GaveUpAfterTimeout
<1>1. InductiveInvariant => GaveUpAfterTimeout
  BY DEF InductiveInvariant
<1> QED
  BY <1>1, Invariance, PTL

\* What an uninstalled module leaves behind tells the feast operator to tear
\* down, and nobody else holds it.
THEOREM IntentSurvives == Spec => []UninstallLeavesIntent
<1>1. InductiveInvariant => UninstallLeavesIntent
  BY DEF InductiveInvariant, LeftByPredecessor, UninstallLeavesIntent
<1> QED
  BY <1>1, Invariance, PTL

\* The finalizer only waits for a feast operator it has told to tear down.
THEOREM WaitsAnnounced == Spec => []TeardownAnnounced
<1>1. InductiveInvariant => TeardownAnnounced
  BY DEF InductiveInvariant, FinalizerProgress, TeardownAnnounced, AfterMark, AfterDelete
<1> QED
  BY <1>1, Invariance, PTL

\* Nothing the feast operator runs with is taken away while it holds the
\* ConfigMap and has not been given up on.
THEOREM ServedUntilRelease == Spec => OperatorServedUntilRelease
<1> DEFINE Served == (rbac \ rbac' # {} \/ (cr = "deleting" /\ cr' = "absent"))
                        => ~cm.op \/ gaveUp
<1>1. ASSUME InductiveInvariant, [Next]_vars PROVE [Served]_vars
  <2>1. CASE pc \in AfterWait
    BY <1>1, <2>1 DEF InductiveInvariant, FinalizerProgress
  <2>2. CASE pc \notin AfterWait
    <3>1. rbac \subseteq ClusterRoles
      BY <1>1 DEF InductiveInvariant, TypeOK
    <3> USE DEF Next, WorkerStep, Start, Reconcile, ReconcileNamespace, CapabilitiesGet,
          CapabilitiesPut, MigrateDeploymentSelector, Deploy, ApplyRollout, Finalize,
          FinalizeNamespace, MarkGet, MarkPut, FinalizeRollout, DeleteConfigMap,
          AwaitRelease, ReleaseGet, ReleasePut, DeleteClusterRoles, Finish, Abort,
          Environment, CreateCR, EditCR, DeleteCR, UserDeletesConfigMap, FeastOperator,
          OperatorStarts, OperatorClaims, OperatorReleases, GarbageCollect, TimePasses,
          Tick, Sync, SyncDeployment, SyncNamespace, SyncClusterRoles, AfterWait,
          AfterRelease, vars, objects
    <3>2. rbac \ rbac' = {}
      BY <1>1, <2>2, <3>1
    <3>3. ~(cr = "deleting" /\ cr' = "absent")
      BY <1>1, <2>2
    <3> QED
      BY <3>2, <3>3
  <2> QED
    BY <2>1, <2>2
<1>2. [][Served]_vars => OperatorServedUntilRelease
  BY PTL DEF OperatorServedUntilRelease
<1> QED
  BY <1>1, <1>2, Invariance, PTL DEF Spec

-----------------------------------------------------------------------------
(* The teardown, once announced, is final.                                 *)

\* The ConfigMap that carries the mark of the finalizer has nothing enabled, and
\* as long as it is not being deleted only the finalizer may write its data:
\* no reconcile is under way, and none starts.
MarkHeld ==
  /\ cm.started => ~cm.data.fs /\ ~cm.data.dr
  /\ cm.started /\ ~cm.deleting => cr = "deleting" /\ pc \in {"idle"} \cup Finalizing

\* A write that keeps data and mark keeps MarkHeld, and the mark with it.
LEMMA MarkKept ==
  ASSUME InductiveInvariant, MarkHeld,
         NEW c \in ConfigMaps, c.exists, WriteConfigMap(c),
         c.started = cm.started, c.data = cm.data, cm.deleting => c.deleting,
         cm.started /\ ~cm.deleting /\ ~c.deleting =>
           cr' = "deleting" /\ pc' \in {"idle"} \cup Finalizing
  PROVE  MarkHeld' /\ (cm.started /\ cm'.exists => cm'.started)
<1>1. cm' = c \/ cm' = NoConfigMap
  BY WriteOutcome DEF InductiveInvariant
<1>2. ~NoConfigMap.exists /\ ~NoConfigMap.started
  BY DEF NoConfigMap
<1>3. CASE cm' = c
  BY <1>3 DEF MarkHeld
<1>4. CASE cm' = NoConfigMap
  BY <1>2, <1>4 DEF MarkHeld
<1> QED
  BY <1>1, <1>3, <1>4

\* No step takes the mark back while the ConfigMap lasts.
LEMMA MarkStep ==
  ASSUME InductiveInvariant, MarkHeld, [Next]_vars
  PROVE  MarkHeld' /\ (cm.started /\ cm'.exists => cm'.started)
<1>0. TypeOK /\ ConfigMapSettled /\ FinalizerProgress
  BY DEF InductiveInvariant
<1>1. cm.started => cm.exists
  BY <1>0 DEF ConfigMapSettled, NoConfigMap
<1>2. ASSUME cm' = cm,
             cm.started /\ ~cm.deleting =>
               cr' = "deleting" /\ pc' \in {"idle"} \cup Finalizing
      PROVE  MarkHeld' /\ (cm.started /\ cm'.exists => cm'.started)
  BY <1>2 DEF MarkHeld
<1>3. CASE Start
  <2>1. cm' = cm /\ (cr = "deleting" => cr' = cr /\ pc' \in {"idle", "unlabel"})
    BY <1>3 DEF Start, Goto, cmVars
  <2> QED
    BY <1>2, <2>1 DEF MarkHeld, Finalizing
<1>4. CASE Reconcile
  <2>1. ~(cm.started /\ ~cm.deleting)
    <3>1. pc \in {"namespace", "capGet", "capPut", "migrate", "deploy", "roll"}
      BY <1>4 DEF Reconcile, ReconcileNamespace, CapabilitiesGet, CapabilitiesPut,
                  MigrateDeploymentSelector, Deploy, ApplyRollout
    <3> QED
      BY <3>1 DEF MarkHeld, Finalizing, AfterMark, AfterDelete, AfterWait, AfterRelease
  <2>2. CASE CapabilitiesPut /\ fresh
    <3>1. WriteConfigMap(Desired(cm))
      BY <2>2 DEF CapabilitiesPut
    <3>2. /\ Desired(cm) \in ConfigMaps /\ Desired(cm).exists
          /\ Desired(cm).deleting = cm.deleting /\ Desired(cm).started = cm.started
      BY <1>0, DesiredIs DEF TypeOK
    <3>3. CASE cm.deleting
      <4>1. Desired(cm).data = cm.data
        BY <1>0, <3>3 DEF Desired, TypeOK, ConfigMaps
      <4> QED
        BY <2>1, <3>1, <3>2, <4>1, MarkKept
    <3>4. CASE ~cm.deleting
      <4>1. ~cm.started /\ ~Desired(cm).started
        BY <2>1, <3>2, <3>4
      <4>2. cm' = Desired(cm) \/ cm' = NoConfigMap
        BY <1>0, <3>1, <3>2, WriteOutcome
      <4>3. ~cm'.started
        BY <4>1, <4>2 DEF NoConfigMap
      <4> QED
        BY <4>1, <4>3 DEF MarkHeld
    <3> QED
      BY <3>3, <3>4
  <2>3. CASE ~(CapabilitiesPut /\ fresh)
    <3>1. cm' = cm
      BY <1>4, <2>3 DEF Reconcile, ReconcileNamespace, CapabilitiesGet, CapabilitiesPut,
                        MigrateDeploymentSelector, Deploy, ApplyRollout, cmVars, objects
    <3> QED
      BY <1>2, <2>1, <3>1
  <2> QED
    BY <2>2, <2>3
<1>5. CASE Finalize
  <2> USE DEF Finalizing, AfterMark, AfterDelete, AfterWait, AfterRelease
  <2>1. cr = "deleting"
    <3>1. pc \in Finalizing
      BY <1>5 DEF Finalize, FinalizeNamespace, MarkGet, MarkPut, FinalizeRollout,
                  DeleteConfigMap, AwaitRelease, ReleaseGet, ReleasePut, DeleteClusterRoles,
                  Finish
    <3> QED
      BY <1>0, <3>1 DEF FinalizerProgress
  <2>2. pc' \in {"idle"} \cup Finalizing
    BY <1>5 DEF Finalize, FinalizeNamespace, MarkGet, MarkPut, FinalizeRollout, Rollout,
                DeleteConfigMap, AwaitRelease, ReleaseGet, ReleasePut, DeleteClusterRoles,
                Finish, Goto, Fail
  <2>3. CASE Finish
    <3>1. cm' = cm /\ (cm.started => cm.deleting)
      BY <1>0, <1>1, <2>3 DEF Finish, cmVars, FinalizerProgress
    <3> QED
      BY <1>2, <3>1
  <2>4. CASE MarkPut /\ fresh
    <3>1. WriteConfigMap(Marked(cm)) /\ cm.exists /\ cr' = cr
      BY <1>0, <2>4 DEF MarkPut, FinalizerProgress
    <3>2. /\ Marked(cm) \in ConfigMaps /\ Marked(cm).exists
          /\ Marked(cm).started /\ ~Marked(cm).data.fs /\ ~Marked(cm).data.dr
      BY <1>0, <3>1, MarkedIs DEF TypeOK
    <3>3. cm' = Marked(cm) \/ (cm' = NoConfigMap /\ ~NoConfigMap.exists /\ ~NoConfigMap.started)
      BY <1>0, <3>1, <3>2, WriteOutcome DEF NoConfigMap
    <3> QED
      BY <2>1, <2>2, <3>1, <3>2, <3>3 DEF MarkHeld
  <2>5. CASE DeleteConfigMap /\ cm.exists /\ ~cm.deleting
    <3>1. WriteConfigMap(Terminating(cm)) /\ cr' = cr
      BY <2>5 DEF DeleteConfigMap
    <3>2. /\ Terminating(cm) \in ConfigMaps /\ Terminating(cm).exists
          /\ Terminating(cm).deleting
          /\ Terminating(cm).started = cm.started /\ Terminating(cm).data = cm.data
      BY <1>0, <2>5, Rewrites DEF Terminating, ConfigMaps, TypeOK
    <3> QED
      BY <3>1, <3>2, MarkKept
  <2>6. CASE ReleasePut /\ fresh
    <3> DEFINE c == [cm EXCEPT !.mod = FALSE]
    <3>1. WriteConfigMap(c) /\ cr' = cr /\ cm.exists
      BY <1>0, <2>6 DEF ReleasePut, FinalizerProgress
    <3>2. /\ c \in ConfigMaps /\ c.exists
          /\ c.deleting = cm.deleting /\ c.started = cm.started /\ c.data = cm.data
      BY <1>0, <3>1, Rewrites DEF ConfigMaps, TypeOK
    <3> HIDE DEF c
    <3> QED
      BY <2>1, <2>2, <3>1, <3>2, MarkKept
  <2>7. CASE /\ ~Finish /\ ~(MarkPut /\ fresh) /\ ~(ReleasePut /\ fresh)
             /\ ~(DeleteConfigMap /\ cm.exists /\ ~cm.deleting)
    <3>1. cm' = cm /\ cr' = cr
      BY <1>5, <2>7 DEF Finalize, FinalizeNamespace, MarkGet, MarkPut, FinalizeRollout,
                        DeleteConfigMap, AwaitRelease, ReleaseGet, ReleasePut,
                        DeleteClusterRoles, cmVars, objects
    <3> QED
      BY <1>2, <2>1, <2>2, <3>1
  <2> QED
    BY <2>3, <2>4, <2>5, <2>6, <2>7
<1>6. CASE \/ Abort \/ CreateCR \/ EditCR \/ DeleteCR \/ OperatorStarts \/ GarbageCollect
           \/ Tick \/ Sync \/ UNCHANGED vars
  <2>1. cm' = cm /\ (cr = "deleting" => cr' = cr) /\ (pc' = pc \/ pc' = "idle")
    BY <1>6 DEF Abort, Fail, CreateCR, EditCR, DeleteCR, OperatorStarts, GarbageCollect, Tick,
                Sync, SyncDeployment, SyncNamespace, SyncClusterRoles, vars, objects, cmVars,
                worker
  <2> QED
    BY <1>2, <2>1 DEF MarkHeld
<1>7. CASE UserDeletesConfigMap \/ OperatorClaims \/ OperatorReleases
  <2>1. PICK c \in {Terminating(cm), [cm EXCEPT !.op = TRUE], [cm EXCEPT !.op = FALSE]} :
          WriteConfigMap(c)
    BY <1>7 DEF UserDeletesConfigMap, OperatorClaims, OperatorReleases
  <2>2. cm.exists /\ UNCHANGED <<cr, pc>>
    BY <1>7 DEF UserDeletesConfigMap, OperatorClaims, OperatorReleases
  <2>3. /\ c \in ConfigMaps /\ c.exists /\ c.started = cm.started /\ c.data = cm.data
        /\ cm.deleting => c.deleting
    BY <1>0, <2>2, Rewrites DEF Terminating, ConfigMaps, TypeOK
  <2> QED
    BY <2>1, <2>2, <2>3, MarkKept DEF MarkHeld
<1> QED
  BY <1>3, <1>4, <1>5, <1>6, <1>7 DEF Next, WorkerStep, TimePasses, Environment, FeastOperator

\* An announced teardown is final, whoever writes the ConfigMap and whatever
\* becomes of the CR.
THEOREM TeardownStays == Spec => TeardownIsFinal
<1> DEFINE Final == cm.started /\ cm'.exists => cm'.started /\ ~cm'.data.fs /\ ~cm'.data.dr
<1>1. Init => MarkHeld
  <2> SUFFICES ASSUME Init PROVE ~cm.started
    BY DEF MarkHeld
  <2>1. CASE cm = NoConfigMap
    BY <2>1 DEF NoConfigMap
  <2>2. CASE cm # NoConfigMap
    <3>1. PICK d \in {DataOf(c) : c \in Caps} :
            cm = [NoConfigMap EXCEPT !.exists = TRUE, !.data = d]
      BY <2>2 DEF Init
    <3> QED
      BY <3>1 DEF NoConfigMap
  <2> QED
    BY <2>1, <2>2
<1>2. InductiveInvariant /\ MarkHeld /\ [Next]_vars => MarkHeld' /\ [Final]_vars
  BY MarkStep DEF MarkHeld
<1>3. [][Final]_vars => TeardownIsFinal
  BY PTL DEF TeardownIsFinal
<1> QED
  BY <1>1, <1>2, <1>3, Invariance, PTL DEF Spec

-----------------------------------------------------------------------------
(* The module implements the uninstall contract (its safety part).         *)

\* A write that does not touch the feast operator's finalizer is no step of
\* the contract, unless it completes the deletion of a ConfigMap the module
\* had given up on and the feast operator has released since.
LEMMA WriteRefines ==
  ASSUME InductiveInvariant, UNCHANGED cr,
         NEW c \in ConfigMaps, c.exists, WriteConfigMap(c), c.op = cm.op
  PROVE  Contract!Forget \/ UNCHANGED Contract!vars
<1>1. /\ cm'.op = cm.op /\ gaveUp' = (gaveUp /\ cm'.exists)
      /\ (~cm'.exists => ~cm.op) /\ gaveUp \in BOOLEAN /\ cm'.exists \in BOOLEAN
  <2>1. /\ cm' = c \/ (cm' = NoConfigMap /\ ~c.op)
        /\ gaveUp' = (gaveUp /\ cm'.exists)
    BY WriteOutcome DEF InductiveInvariant
  <2>2. c.op \in BOOLEAN /\ c.exists = TRUE /\ gaveUp \in BOOLEAN
    BY DEF InductiveInvariant, TypeOK, ConfigMaps
  <2>3. NoConfigMap.op = FALSE /\ NoConfigMap.exists = FALSE
    BY DEF NoConfigMap
  <2>4. CASE cm' = c
    BY <2>1, <2>2, <2>4
  <2>5. CASE cm' = NoConfigMap /\ ~c.op
    <3>1. c.op = FALSE
      BY <2>2, <2>5
    <3> QED
      BY <2>1, <2>2, <2>3, <2>5, <3>1
  <2> QED
    BY <2>1, <2>4, <2>5
<1>2. UNCHANGED UninstallPhase
  BY DEF UninstallPhase
<1>3. CASE cm'.exists
  BY <1>1, <1>2, <1>3 DEF Contract!vars
<1>4. CASE ~cm'.exists /\ gaveUp
  BY <1>1, <1>2, <1>4 DEF Contract!Forget
<1>5. CASE ~cm'.exists /\ ~gaveUp
  BY <1>1, <1>2, <1>5 DEF Contract!vars
<1> QED
  BY <1>3, <1>4, <1>5

\* Every step of the module is a step of the contract or none.
LEMMA StepRefines ==
  ASSUME InductiveInvariant, [Next]_vars
  PROVE  [Contract!Next]_(Contract!vars)
<1> USE DEF InductiveInvariant
<1>1. ASSUME UNCHANGED <<cr, cm, gaveUp>> PROVE UNCHANGED Contract!vars
  BY <1>1 DEF Contract!vars, UninstallPhase
<1>2. CASE Start
  <2>1. UNCHANGED <<cm, gaveUp>> /\ (cr' = cr \/ (cr = "new" /\ cr' = "live"))
    BY <1>2 DEF Start, cmVars
  <2> QED
    BY <2>1 DEF Contract!vars, UninstallPhase
<1>3. CASE Reconcile
  <2>1. CASE CapabilitiesPut /\ fresh
    BY <2>1, WriteRefines, DesiredIs DEF CapabilitiesPut, TypeOK, Contract!Next
  <2>2. CASE ~(CapabilitiesPut /\ fresh)
    BY <1>1, <1>3, <2>2
    DEF Reconcile, ReconcileNamespace, CapabilitiesGet, CapabilitiesPut,
        MigrateDeploymentSelector, Deploy, ApplyRollout, cmVars, objects
  <2> QED
    BY <2>1, <2>2
<1>4. CASE Finalize
  <2>1. CASE MarkPut /\ fresh
    <3>1. cm.exists
      BY <2>1 DEF MarkPut, FinalizerProgress
    <3> QED
      BY <2>1, <3>1, WriteRefines, MarkedIs DEF MarkPut, TypeOK, Contract!Next
  <2>2. CASE DeleteConfigMap /\ cm.exists /\ ~cm.deleting
    <3>1. /\ Terminating(cm) \in ConfigMaps /\ Terminating(cm).exists
          /\ Terminating(cm).op = cm.op
      BY <2>2, Rewrites DEF Terminating, ConfigMaps, TypeOK
    <3> QED
      BY <2>2, <3>1, WriteRefines DEF DeleteConfigMap, Contract!Next
  <2>3. CASE ReleasePut /\ fresh
    <3> DEFINE c == [cm EXCEPT !.mod = FALSE]
    <3>1. c \in ConfigMaps /\ c.exists /\ c.op = cm.op
      BY <2>3, Rewrites DEF ReleasePut, FinalizerProgress, ConfigMaps, TypeOK
    <3>2. WriteConfigMap(c) /\ UNCHANGED cr
      BY <2>3 DEF ReleasePut
    <3> HIDE DEF c
    <3> QED
      BY <3>1, <3>2, WriteRefines DEF Contract!Next
  <2>4. CASE AwaitRelease
    <3>1. UNCHANGED <<cr, cm>> /\ cr = "deleting"
      BY <2>4 DEF AwaitRelease, FinalizerProgress, Finalizing, AfterMark, AfterDelete
    <3>2. CASE UNCHANGED gaveUp
      BY <1>1, <3>1, <3>2
    <3>3. CASE ~Released /\ gaveUp' = TRUE
      BY <3>1, <3>3
      DEF Released, TypeOK, UninstallPhase, Contract!Next, Contract!GiveUp, Contract!vars
    <3> QED
      BY <2>4, <3>2, <3>3 DEF AwaitRelease
  <2>5. CASE Finish
    <3>1. /\ cr = "deleting" /\ cr' = "absent" /\ UNCHANGED <<cm, gaveUp>>
          /\ ~cm.op \/ gaveUp
      BY <2>5 DEF Finish, cmVars, FinalizerProgress, Finalizing, AfterMark, AfterDelete,
         AfterWait, AfterRelease
    <3> QED
      BY <3>1 DEF UninstallPhase, Contract!Next, Contract!Finish, Contract!Free
  <2>6. CASE /\ ~(MarkPut /\ fresh) /\ ~(DeleteConfigMap /\ cm.exists /\ ~cm.deleting)
             /\ ~(ReleasePut /\ fresh) /\ ~AwaitRelease /\ ~Finish
    BY <1>1, <1>4, <2>6
    DEF Finalize, FinalizeNamespace, MarkGet, MarkPut, FinalizeRollout, DeleteConfigMap,
        ReleaseGet, ReleasePut, DeleteClusterRoles, cmVars, objects
  <2> QED
    BY <2>1, <2>2, <2>3, <2>4, <2>5, <2>6
<1>5. CASE CreateCR
  BY <1>5 DEF CreateCR, cmVars, UninstallPhase, Contract!Next, Contract!Install
<1>6. CASE DeleteCR
  <2>1. UNCHANGED <<cm, gaveUp>>
    BY <1>6 DEF DeleteCR, cmVars
  <2>2. CASE cr = "new" /\ cr' = "absent"
    <3>1. ~cm.op \/ gaveUp
      BY <2>2 DEF LeftByPredecessor, ConfigMapSettled, NoConfigMap
    <3> QED
      BY <2>1, <2>2, <3>1
      DEF UninstallPhase, Contract!Next, Contract!Discard, Contract!Free
  <2>3. CASE cr = "live" /\ cr' = "deleting"
    BY <2>1, <2>3 DEF UninstallPhase, Contract!Next, Contract!Uninstall
  <2> QED
    BY <1>6, <2>2, <2>3 DEF DeleteCR
<1>7. CASE UserDeletesConfigMap
  <2>1. /\ Terminating(cm) \in ConfigMaps /\ Terminating(cm).exists
        /\ Terminating(cm).op = cm.op
    BY <1>7, Rewrites DEF UserDeletesConfigMap, Terminating, ConfigMaps, TypeOK
  <2> QED
    BY <1>7, <2>1, WriteRefines DEF UserDeletesConfigMap, Contract!Next
<1>8. CASE OperatorClaims
  <2> DEFINE c == [cm EXCEPT !.op = TRUE]
  <2>1. c \in ConfigMaps /\ c.exists /\ c.op /\ ~c.deleting
    BY <1>8, Rewrites DEF OperatorClaims, ConfigMaps, TypeOK
  <2>2. WriteConfigMap(c) /\ UNCHANGED cr
    BY <1>8 DEF OperatorClaims
  <2> HIDE DEF c
  <2>3. cm' = c /\ gaveUp' = (gaveUp /\ cm'.exists)
    BY <2>1, <2>2, WriteOutcome
  <2>4. ~cm.op /\ ~gaveUp /\ cr # "absent"
    BY <1>8 DEF OperatorClaims, GaveUpAfterTimeout, LeftByPredecessor
  <2>5. cm'.op = TRUE /\ gaveUp' = gaveUp
    BY <2>1, <2>3, <2>4 DEF TypeOK, ConfigMaps
  <2> QED
    BY <2>2, <2>4, <2>5 DEF UninstallPhase, Contract!Next, Contract!Claim
<1>9. CASE OperatorReleases
  <2> DEFINE c == [cm EXCEPT !.op = FALSE]
  <2>1. c \in ConfigMaps /\ c.exists /\ c.op = FALSE
    BY <1>9, Rewrites DEF OperatorReleases, ConfigMaps, TypeOK
  <2>2. cm.op /\ WriteConfigMap(c) /\ UNCHANGED cr
    BY <1>9 DEF OperatorReleases
  <2> HIDE DEF c
  <2>3. (cm' = c \/ cm' = NoConfigMap) /\ gaveUp' = (gaveUp /\ cm'.exists)
    BY <2>1, <2>2, WriteOutcome
  <2>4. cm'.op = FALSE /\ gaveUp' \in {gaveUp, FALSE}
    <3>1. NoConfigMap.op = FALSE /\ NoConfigMap.exists = FALSE
      BY DEF NoConfigMap
    <3>2. cm'.op = FALSE
      BY <2>1, <2>3, <3>1
    <3>3. gaveUp \in BOOLEAN /\ cm'.exists \in BOOLEAN
      BY <2>1, <2>3, <3>1 DEF TypeOK, ConfigMaps
    <3>4. gaveUp' = gaveUp \/ gaveUp' = FALSE
      BY <2>3, <3>3
    <3> QED
      BY <3>2, <3>4
  <2> QED
    BY <2>2, <2>4 DEF UninstallPhase, Contract!Next, Contract!Release
<1>10. CASE \/ Abort \/ EditCR \/ OperatorStarts \/ GarbageCollect \/ Tick \/ Sync
            \/ UNCHANGED vars
  BY <1>1, <1>10
  DEF Abort, EditCR, OperatorStarts, GarbageCollect, Tick, Sync, SyncDeployment,
      SyncNamespace, SyncClusterRoles, vars, objects, cmVars
<1> QED
  BY <1>2, <1>3, <1>4, <1>5, <1>6, <1>7, <1>8, <1>9, <1>10
  DEF Next, WorkerStep, TimePasses, Environment, FeastOperator

\* Every behaviour of the module is one of the contract, without its fairness.
THEOREM RefinesContract == Spec => Contract!Init /\ [][Contract!Next]_(Contract!vars)
<1>1. Init => Contract!Init
  <2> SUFFICES ASSUME Init PROVE Contract!Init
    OBVIOUS
  <2>1. cr \in {"absent", "live"} /\ gaveUp = FALSE
    BY DEF Init
  <2>2. cm.op = FALSE
    <3>1. cm = NoConfigMap \/ \E d \in {DataOf(c) : c \in Caps} :
             cm = [NoConfigMap EXCEPT !.exists = TRUE, !.data = d]
      BY DEF Init
    <3>2. CASE cm = NoConfigMap
      BY <3>2 DEF NoConfigMap
    <3>3. CASE cm # NoConfigMap
      <4>1. PICK d \in {DataOf(c) : c \in Caps} :
               cm = [NoConfigMap EXCEPT !.exists = TRUE, !.data = d]
        BY <3>1, <3>3
      <4>2. cm = [exists |-> TRUE, deleting |-> FALSE, mod |-> FALSE, op |-> FALSE,
                  data |-> d, started |-> FALSE]
        BY <4>1 DEF NoConfigMap
      <4> QED
        BY <4>2
    <3> QED
      BY <3>2, <3>3
  <2> QED
    BY <2>1, <2>2 DEF Contract!Init, UninstallPhase
<1> QED
  BY <1>1, StepRefines, Invariance, PTL DEF Spec
=============================================================================
