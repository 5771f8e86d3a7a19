--------------------------- MODULE PlatformHandshake ---------------------------
(***************************************************************************)
(* The platform version handshake: what the module operator knows of the   *)
(* platform's version from its own start (config.Release), from the        *)
(* odh-data-config ConfigMap, and from the "platform" entry it keeps in    *)
(* status.releases of the CR, and when it runs its two upgrade hooks.      *)
(*                                                                         *)
(* A reconcile works on a copy of the CR (mem, memAccepted) whose status   *)
(* the framework writes back when the pipeline ends, whether it succeeded  *)
(* or not.                                                                 *)
(***************************************************************************)
EXTENDS Naturals

CONSTANTS
  MaxVersion,      \* bound: platform versions are 1 .. MaxVersion
  Forms,           \* how versions are written: strict, loose, junk
  MayWithdraw,     \* odh-data-config may be deleted
  MaxFaults        \* bound: failed steps and crashes

ASSUME PlatformAssumption ==
  /\ MaxVersion \in Nat \ {0}
  /\ Forms \subseteq {"strict", "loose", "junk"}
  /\ MayWithdraw \in BOOLEAN
  /\ MaxFaults \in Nat

\* A version string: strict semver, semver that only ParseTolerant accepts
\* ("v2.22"), or neither.
Versions == [n : 1..MaxVersion, form : Forms]

\* A version that may be missing: a set of at most one version.
Optional == {{}} \cup {{v} : v \in Versions}

VARIABLES
  published,   \* platformVersion in odh-data-config, if there is any
  running,     \* Release().Version of the running process; 0 is 0.0.0
  accepted,    \* spec.oidc is absent or has an issuer URL that is accepted
  recorded,    \* the platform entry of status.releases
  mem,         \* the same, in the copy the current reconcile works on
  memAccepted, \* and the copy's issuer URL
  pc, failed, pending, faults,
  served,      \* history: the version of the last process to complete a reconcile
  upgraded     \* history: the versions for which upgrade ran

platform == <<published, running>>
cr == <<accepted, recorded>>
copy == <<mem, memAccepted>>
history == <<served, upgraded>>

vars == <<platform, cr, copy, pc, failed, pending, faults, history>>

-----------------------------------------------------------------------------

\* config.Release: ParseTolerant, and 0.0.0 for what it refuses or is missing.
Release(o) ==
  IF \E v \in o : v.form # "junk" THEN (CHOOSE v \in o : TRUE).n ELSE 0

\* A step that returns an error; the status is still written.
Error == failed' = TRUE /\ pc' = "status"

Begin ==
  /\ pc = "idle" /\ pending
  /\ pending' = FALSE /\ failed' = FALSE
  /\ mem' = recorded /\ memAccepted' = accepted /\ pc' = "upgrade"
  /\ UNCHANGED <<platform, cr, faults, history>>

\* upgradeIfNeeded: nothing recorded, nothing to do; a recorded version must
\* be strict semver; upgrade runs when this process is newer.
UpgradeIfNeeded ==
  /\ pc = "upgrade"
  /\ \/ mem = {} /\ pc' = "params" /\ UNCHANGED <<failed, upgraded>>
     \/ \E v \in mem : v.form # "strict" /\ Error /\ UNCHANGED upgraded
     \/ \E v \in mem :
          /\ v.form = "strict"
          /\ upgraded' = IF running > v.n THEN upgraded \cup {running} ELSE upgraded
          /\ pc' = "params" /\ UNCHANGED failed
  /\ UNCHANGED <<platform, cr, copy, pending, faults, served>>

\* setKustomizedParams: a refused issuer URL is an error, in every reconcile
\* until the CR is edited.
SetKustomizedParams ==
  /\ pc = "params"
  /\ IF memAccepted THEN pc' = "objects" /\ UNCHANGED failed ELSE Error
  /\ UNCHANGED <<platform, cr, copy, pending, faults, history>>

\* reconcileDataRegistryNamespace, reconcileCapabilitiesConfigMap.
ReconcileObjects ==
  /\ pc = "objects"
  /\ pc' = "releases"
  /\ UNCHANGED <<platform, cr, copy, failed, pending, faults, history>>

\* releases.NewAction of the framework replaces status.releases by the
\* component's own releases.  (KeepReleases: it adds to them.)
KeepReleases ==
  /\ pc = "releases"
  /\ pc' = "handshake"
  /\ UNCHANGED <<platform, cr, copy, failed, pending, faults, history>>

ReleasesAction ==
  /\ pc = "releases"
  /\ mem' = {} /\ pc' = "handshake"
  /\ UNCHANGED <<platform, cr, memAccepted, failed, pending, faults, history>>

\* reconcilePlatformVersion.  handlePlatformUpgrade is called in the branch
\* that sets the entry.  (ForgetVersion: the entry is not set.)
ForgetVersion ==
  /\ pc = "handshake"
  /\ pc' = "rest"
  /\ UNCHANGED <<platform, cr, copy, failed, pending, faults, history>>

ReconcilePlatformVersion ==
  /\ pc = "handshake"
  /\ mem' = IF published = {} THEN mem ELSE published
  /\ pc' = "rest"
  /\ UNCHANGED <<platform, cr, memAccepted, failed, pending, faults, history>>

\* The remaining actions of the pipeline.
Rest ==
  /\ pc = "rest"
  /\ pc' = "status"
  /\ UNCHANGED <<platform, cr, copy, failed, pending, faults, history>>

\* The framework writes the status; after an error the key is queued again.
UpdateStatus ==
  /\ pc = "status"
  /\ recorded' = mem /\ pc' = "idle"
  /\ pending' = (pending \/ failed)
  /\ served' = IF failed THEN served ELSE running
  /\ UNCHANGED <<platform, accepted, copy, failed, faults, upgraded>>

\* A call of one of the actions fails, before what it would do to the copy:
\* reading odh-data-config (other than NotFound), writing params.env, any call
\* to the API server.
CallFails ==
  /\ pc \notin {"idle", "status"} /\ faults < MaxFaults
  /\ faults' = faults + 1
  /\ Error
  /\ UNCHANGED <<platform, cr, copy, pending, history>>

\* The status write fails, or its answer is lost.
StatusFails ==
  /\ pc = "status" /\ faults < MaxFaults
  /\ faults' = faults + 1
  /\ recorded' \in {recorded, mem} /\ pc' = "idle" /\ pending' = TRUE
  /\ UNCHANGED <<platform, accepted, copy, failed, history>>

-----------------------------------------------------------------------------

\* A new process reads its configuration from odh-data-config, mounted.
Restarted(o) ==
  running' = Release(o) /\ pc' = "idle" /\ pending' = TRUE /\ UNCHANGED failed

Crash ==
  /\ faults < MaxFaults /\ faults' = faults + 1
  /\ Restarted(published)
  /\ UNCHANGED <<published, cr, copy, history>>

\* The platform rolls the module operator out anew.
RollOut ==
  /\ running # Release(published)
  /\ Restarted(published)
  /\ UNCHANGED <<published, cr, copy, faults, history>>

\* The platform is upgraded (or says the same again in other words): the
\* watch on odh-data-config queues the CR.  (Unwatched: it does not.)
Published ==
  /\ \E v \in Versions :
       /\ \A u \in published : u.n <= v.n /\ u # v
       /\ running <= v.n
       /\ published' = {v}
  /\ UNCHANGED <<running, cr, copy, pc, failed, faults, history>>

Unwatched == Published /\ UNCHANGED pending

Publish == Published /\ pending' = TRUE

Withdraw ==
  /\ MayWithdraw /\ published # {}
  /\ published' = {} /\ pending' = TRUE
  /\ UNCHANGED <<running, cr, copy, pc, failed, faults, history>>

\* A user changes spec.oidc.
EditCR ==
  /\ accepted' = ~accepted /\ pending' = TRUE
  /\ UNCHANGED <<platform, recorded, copy, pc, failed, faults, history>>

\* Any other object the controller watches changes.
OtherEvent ==
  /\ ~pending /\ pending' = TRUE
  /\ UNCHANGED <<platform, cr, copy, pc, failed, faults, history>>

Init ==
  /\ published \in Optional /\ running = Release(published)
  /\ accepted \in BOOLEAN /\ memAccepted = accepted
  /\ recorded = {} /\ mem = {} /\ pc = "idle" /\ failed = FALSE
  /\ pending = TRUE /\ faults = 0 /\ served = 0 /\ upgraded = {}

Reconcile ==
  \/ Begin \/ UpgradeIfNeeded \/ SetKustomizedParams \/ ReconcileObjects
  \/ ReleasesAction \/ ReconcilePlatformVersion \/ Rest \/ UpdateStatus

Faults == CallFails \/ StatusFails \/ Crash

Next == Reconcile \/ Faults \/ RollOut \/ Publish \/ Withdraw \/ EditCR \/ OtherEvent

\* The worker makes progress and the platform's rollouts happen.
Fairness == WF_vars(Reconcile) /\ WF_vars(RollOut)

Spec == Init /\ [][Next]_vars /\ Fairness

-----------------------------------------------------------------------------

\* Types; and the handshake never sees the entry it recorded, which the
\* releases action has dropped from the copy just before.
TypeOK ==
  /\ published \in Optional /\ recorded \in Optional /\ mem \in Optional
  /\ running \in 0..MaxVersion /\ served \in 0..MaxVersion
  /\ accepted \in BOOLEAN /\ memAccepted \in BOOLEAN
  /\ pc \in {"idle", "upgrade", "params", "objects", "releases", "handshake", "rest", "status"}
  /\ failed \in BOOLEAN /\ pending \in BOOLEAN
  /\ faults \in 0..MaxFaults
  /\ upgraded \subseteq 1..MaxVersion
  /\ pc = "handshake" => mem = {}

\* Whenever the controller rests, with nothing queued and no reconcile under
\* way, the status records what odh-data-config says then: no event, failure,
\* crash or refused spec is forgotten before a later reconcile has handled it.
RecordedAtRest == pc = "idle" /\ ~pending => recorded = published

\* The version the platform settles on is eventually recorded in the status
\* and stays there, whatever calls failed in between, once the CR's issuer URL
\* is accepted for good: a refused one ends every reconcile before the handshake.
VersionSettles ==
  \A v \in Versions : <>[](published = {v} /\ accepted) => <>[](recorded = {v})

\* "upgrade runs idempotent migrations when the platform version advances":
\* the first reconcile a newer process completes has run them.
UpgradeRunsOnAdvance ==
  [][ served' > served /\ served > 0 => served' \in upgraded ]_vars
=============================================================================
