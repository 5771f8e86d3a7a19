---------------------------- MODULE PlatformProofs ----------------------------
(* Type correctness of the platform handshake, and that a controller at rest *)
(* has recorded what the platform publishes, in any interleaving of failed   *)
(* calls, crashes, rollouts, edits of the CR and new versions.               *)
EXTENDS PlatformHandshake, TLAPS

\* The version a process takes from odh-data-config.
LEMMA ReleaseType == ASSUME NEW o \in Optional PROVE Release(o) \in 0..MaxVersion
<1>1. CASE \E v \in o : v.form # "junk"
  <2>1. PICK v \in Versions : o = {v}
    BY <1>1 DEF Optional
  <2>2. (CHOOSE u \in o : TRUE) \in o
    BY <2>1
  <2>3. Release(o) = (CHOOSE u \in o : TRUE).n
    BY <1>1 DEF Release
  <2>4. v.n \in 1..MaxVersion
    BY DEF Versions
  <2> QED BY <2>1, <2>2, <2>3, <2>4, PlatformAssumption
<1>2. CASE ~\E v \in o : v.form # "junk"
  BY <1>2, PlatformAssumption DEF Release
<1> QED BY <1>1, <1>2

\* The initial states are typed.
LEMMA InitType == Init => TypeOK
<1> SUFFICES ASSUME Init PROVE TypeOK
  OBVIOUS
<1>1. running \in 0..MaxVersion
  BY ReleaseType DEF Init
<1>2. {} \in Optional /\ 0 \in 0..MaxVersion /\ 0 \in 0..MaxFaults
  BY PlatformAssumption DEF Optional
<1> QED BY <1>1, <1>2 DEF Init, TypeOK

\* Every step keeps the types.
LEMMA NextType == TypeOK /\ [Next]_vars => TypeOK'
<1> SUFFICES ASSUME TypeOK, [Next]_vars PROVE TypeOK'
  OBVIOUS
<1> USE DEF TypeOK, platform, cr, copy, history
<1>1. CASE Begin
  BY <1>1 DEF Begin
<1>2. CASE UpgradeIfNeeded
  <2>1. upgraded' \subseteq 1..MaxVersion
    <3>1. CASE \E v \in mem : running > v.n
      <4>1. PICK v \in mem : running > v.n
        BY <3>1
      <4>2. v.n \in 1..MaxVersion
        BY DEF Optional, Versions
      <4>3. running \in 1..MaxVersion
        BY <4>1, <4>2, PlatformAssumption
      <4> QED BY <1>2, <4>3 DEF UpgradeIfNeeded
    <3>2. CASE ~\E v \in mem : running > v.n
      BY <1>2, <3>2 DEF UpgradeIfNeeded
    <3> QED BY <3>1, <3>2
  <2> QED BY <1>2, <2>1 DEF UpgradeIfNeeded, Error
<1>3. CASE SetKustomizedParams
  BY <1>3 DEF SetKustomizedParams, Error
<1>4. CASE ReconcileObjects
  BY <1>4 DEF ReconcileObjects
<1>5. CASE ReleasesAction
  BY <1>5 DEF ReleasesAction, Optional
<1>6. CASE ReconcilePlatformVersion
  BY <1>6 DEF ReconcilePlatformVersion
<1>7. CASE Rest
  BY <1>7 DEF Rest
<1>8. CASE UpdateStatus
  BY <1>8 DEF UpdateStatus
<1>9. CASE CallFails
  BY <1>9, PlatformAssumption DEF CallFails, Error
<1>10. CASE StatusFails
  BY <1>10, PlatformAssumption DEF StatusFails
<1>11. CASE Crash
  BY <1>11, ReleaseType, PlatformAssumption DEF Crash, Restarted
<1>12. CASE RollOut
  BY <1>12, ReleaseType DEF RollOut, Restarted
<1>13. CASE Publish
  BY <1>13 DEF Publish, Published, Optional
<1>14. CASE Withdraw
  BY <1>14 DEF Withdraw, Optional
<1>15. CASE EditCR
  BY <1>15 DEF EditCR
<1>16. CASE OtherEvent
  BY <1>16 DEF OtherEvent
<1>17. CASE UNCHANGED vars
  BY <1>17 DEF vars
<1> QED
  BY <1>1, <1>2, <1>3, <1>4, <1>5, <1>6, <1>7, <1>8, <1>9, <1>10, <1>11, <1>12, <1>13, <1>14,
     <1>15, <1>16, <1>17
  DEF Next, Reconcile, Faults

\* The entry of the last reconcile is gone from the copy whenever the handshake
\* runs, so that handlePlatformUpgrade always sees a first version; and versions
\* stay in their range.
THEOREM HandshakeTypes == Spec => []TypeOK
  BY InitType, NextType, PTL DEF Spec

-----------------------------------------------------------------------------

\* From the handshake to the status write, the copy holds what is published or
\* the event of the change is still queued; a reconcile that failed goes to the
\* status write at once, and is queued again with it.
Handled ==
  /\ pc \notin {"idle", "status"} => ~failed
  /\ pc = "rest" \/ (pc = "status" /\ ~failed) => pending \/ mem = published

\* The inductive form of RecordedAtRest.
RecordInvariant == TypeOK /\ Handled /\ RecordedAtRest

\* At first the CR is queued.
LEMMA InitRecord == Init => RecordInvariant
  BY InitType DEF Init, RecordInvariant, Handled, RecordedAtRest

\* What changes the published version queues the CR; only a status write that
\* succeeds lets the controller rest.
LEMMA NextRecord == RecordInvariant /\ [Next]_vars => RecordInvariant'
<1> SUFFICES ASSUME RecordInvariant, [Next]_vars PROVE Handled' /\ RecordedAtRest'
  BY NextType DEF RecordInvariant
<1>1. Handled /\ RecordedAtRest /\ (pc = "handshake" => mem = {})
  BY DEF RecordInvariant, TypeOK
<1> USE <1>1 DEF Handled, RecordedAtRest, platform, cr, copy, history
<1>2. CASE Reconcile
  <2>1. CASE Begin \/ SetKustomizedParams \/ ReconcileObjects \/ ReleasesAction \/ Rest
    BY <2>1 DEF Begin, SetKustomizedParams, ReconcileObjects, ReleasesAction, Rest, Error
  <2>2. CASE UpgradeIfNeeded
    BY <2>2 DEF UpgradeIfNeeded, Error
  <2>3. CASE ReconcilePlatformVersion
    BY <2>3 DEF ReconcilePlatformVersion
  <2>4. CASE UpdateStatus
    BY <2>4 DEF UpdateStatus
  <2> QED BY <1>2, <2>1, <2>2, <2>3, <2>4 DEF Reconcile
<1>3. CASE Faults
  BY <1>3 DEF Faults, CallFails, StatusFails, Crash, Restarted, Error
<1>4. CASE RollOut \/ Publish \/ Withdraw \/ EditCR \/ OtherEvent
  BY <1>4 DEF RollOut, Restarted, Publish, Published, Withdraw, EditCR, OtherEvent
<1>5. CASE UNCHANGED vars
  BY <1>5 DEF vars
<1> QED BY <1>2, <1>3, <1>4, <1>5 DEF Next

\* A controller at rest has recorded what odh-data-config says, whatever failed,
\* crashed or was refused before, and whenever it was published or withdrawn.
THEOREM RestIsRecorded == Spec => []RecordedAtRest
<1>1. RecordInvariant => RecordedAtRest
  BY DEF RecordInvariant
<1> QED BY <1>1, InitRecord, NextRecord, PTL DEF Spec

===============================================================================
