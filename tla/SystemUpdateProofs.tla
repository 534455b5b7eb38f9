-------------------------- MODULE SystemUpdateProofs --------------------------
(***************************************************************************)
(* Proofs about updates and rollbacks, for any number of releases, tags    *)
(* and faults, and any set of good releases.  The invariant says of each   *)
(* step of the lock's holder what the files and tags it works on hold:     *)
(* HolderOK which steps an operation has, PointOK that the rollback point  *)
(* and what is becoming or was one name images that are there, HalvesOK    *)
(* where a deletion has the compose file of the point, and UpdateOK what   *)
(* an update from the command line can still go back to.                   *)
(***************************************************************************)
EXTENDS SystemUpdate, TLAPS

DeleteSteps == {"stage", "stageCompose", "remove", "keepCompose", "keepImage", "clean"}
UpdateSteps == {"manager", "backup", "tag", "point", "compose", "refresh", "pull", "up", "health",
                "restore", "watchtower", "read", "switch", "recheck"}

\* Who holds the lock is at a step of what it does.
HolderOK ==
    /\ lock = "free" <=> doing = "nothing"
    /\ doing = "nothing" => step = "done" /\ ~hasPoint
    /\ lock = "deleter" <=> doing = "delete"
    /\ doing = "delete" => step \in DeleteSteps
    /\ doing \in {"update", "rollback"} => step \in UpdateSteps
    /\ doing = "rollback" => step \in {"backup", "read", "switch", "recheck"}
    /\ step = "switch" => target # None

\* What is named is there: the point, the tag that is about to become one, and the one that is
\* being deleted, which no other file names.
PointOK ==
    /\ PointHasImage
    /\ step = "point" => target # None /\ tagged[target] # None
    /\ step = "stage" => pointImage # None
    /\ step \in {"stageCompose", "remove", "keepCompose", "keepImage"} =>
          target # None /\ asideImage = target /\ tagged[target] # None /\ pointImage = None

\* The remembered compose file is in its place or, while the point is being deleted, aside.
HalvesOK ==
    /\ step \in {"stage", "stageCompose"} => asideCompose = None /\ pointCompose = before.point
    /\ step \in {"remove", "keepCompose", "keepImage"} =>
          \/ asideCompose = None /\ pointCompose = before.point
          \/ asideCompose = before.point /\ pointCompose = None
    /\ step = "keepImage" /\ faults = 0 => asideCompose = None

\* The compose file is the old one, or remembered, or the old one again.
ComposeOK ==
    /\ before.compose \in Versions
    /\ step \in {"manager", "backup", "tag", "point", "compose", "switch", "recheck"} =>
          compose = before.compose
    /\ step \in {"refresh", "pull", "up", "health", "restore", "read"} =>
          pointCompose = before.compose

\* The point has been written, and a failed update goes back to it.
HasPointOK ==
    /\ step \in {"manager", "backup", "tag", "point", "restore"} => ~hasPoint
    /\ step = "read" => hasPoint
    /\ hasPoint => target # None /\ pointImage = target

\* Without faults the old release runs, has its tag, or runs again.
ReleaseOK ==
    /\ step \in {"manager", "backup", "tag", "point", "compose", "refresh", "pull"} =>
          running = before.image
    /\ step = "point" \/ hasPoint => tagged[target] = before.image
    /\ hasPoint /\ step = "recheck" => running = before.image

UpdateOK ==
    /\ late => faults > 0
    /\ lock = "cli" /\ doing = "update" => ComposeOK /\ HasPointOK /\ (faults = 0 => ReleaseOK)

Steps == UpdateSteps \cup DeleteSteps \cup {"done"}
WorldType   == latest \in Versions /\ manager \in Versions /\ saved \subseteq {"image", "compose"}
ServiceType == running \in NoVersion /\ pulled \in Versions /\ compose \in Versions
PointType   == /\ tagged \in [Tags -> NoVersion] /\ pointImage \in NoTag /\ asideImage \in NoTag
               /\ pointCompose \in NoVersion /\ asideCompose \in NoVersion
HolderType  == /\ lock \in {"free", "cli", "operator", "deleter"}
               /\ doing \in {"nothing", "update", "rollback", "delete"}
               /\ step \in Steps /\ hasPoint \in BOOLEAN /\ target \in NoTag
               /\ before \in [image : NoVersion, compose : NoVersion, point : NoVersion]
OpType      == /\ thread \in {"none", "update", "rollback", "working", "completed", "failed"}
               /\ phase \in {"idle", "preparing", "running", "completed", "failed"}
               /\ late \in BOOLEAN
Types == WorldType /\ ServiceType /\ PointType /\ HolderType /\ OpType /\ faults \in 0..MaxFaults

IInv == Types /\ HolderOK /\ PointOK /\ HalvesOK /\ UpdateOK

------------------------------------------------------------------------------
\* A tag is free, so that the one taken is well defined.
LEMMA NewTag ==
  ASSUME NEW a, NEW b
  PROVE  (CHOOSE t \in Tags \ {a, b} : \A u \in Tags \ {a, b} : t <= u) \in Tags \ {a, b}
<1> DEFINE S == Tags \ {a, b}
           P(t) == \A u \in S : t <= u
<1>1. \E t \in S : P(t)
  <2>1. {1, 2, 3} \subseteq Tags /\ \A u \in Tags : u \in Nat /\ u >= 1
    BY BoundsAssumption, TagsAssumption DEF Tags
  <2>2. CASE 1 \in S
    BY <2>1, <2>2
  <2>3. CASE 1 \notin S /\ 2 \in S
    BY <2>1, <2>3
  <2>4. CASE 1 \notin S /\ 2 \notin S
    <3>1. 3 \in S
      BY <2>1, <2>4
    <3> QED
      BY <2>1, <2>4, <3>1
  <2> QED
    BY <2>2, <2>3, <2>4
<1> HIDE DEF S, P
<1>2. (CHOOSE t \in S : P(t)) \in S
  BY <1>1
<1> QED
  BY <1>2 DEF S, P

LEMMA TagTakesNewTag ==
  Tag => target' \in Tags \ {pointImage, asideImage}
<1> DEFINE new == CHOOSE t \in Tags \ {pointImage, asideImage} : \A u \in Tags \ {pointImage, asideImage} : t <= u
<1>1. new \in Tags \ {pointImage, asideImage}
  BY NewTag
<1>2. Tag => target' = new
  BY DEF Tag
<1> HIDE DEF new
<1> QED
  BY <1>1, <1>2

------------------------------------------------------------------------------
(* Types, by the parts of the state. *)

LEMMA TypesAreTypeOK == TypeOK <=> Types
  BY DEF TypeOK, Types, WorldType, ServiceType, PointType, HolderType, OpType, Steps, UpdateSteps, DeleteSteps

LEMMA RestingTypes ==
  /\ WorldType /\ UNCHANGED world => WorldType'
  /\ ServiceType /\ UNCHANGED service => ServiceType'
  /\ PointType /\ UNCHANGED point => PointType'
  /\ HolderType /\ UNCHANGED holder => HolderType'
  /\ OpType /\ UNCHANGED op => OpType'
  BY DEF WorldType, ServiceType, PointType, HolderType, OpType, world, service, point, holder, op

LEMMA FaultType == faults \in 0..MaxFaults /\ (Fault \/ UNCHANGED faults) => faults' \in 0..MaxFaults
  BY BoundsAssumption DEF Fault

\* What steps do to the locals of the holder and to the operator's state.
LEMMA GoType ==
  ASSUME HolderType, NEW s \in Steps, Go(s)
  PROVE  HolderType'
  BY DEF Go, HolderType
LEMMA BeginType ==
  ASSUME ServiceType, PointType, HolderType, NEW who \in {"cli", "operator", "deleter"},
         NEW what \in {"update", "rollback", "delete"}, NEW first \in Steps, Begin(who, what, first)
  PROVE  HolderType'
<1>1. [image |-> running, compose |-> compose, point |-> pointCompose]
         \in [image : NoVersion, compose : NoVersion, point : NoVersion]
  BY DEF ServiceType, PointType, NoVersion
<1> QED
  BY <1>1 DEF Begin, HolderType
LEMMA ReleaseType == Release => HolderType'
<1>1. Nowhere \in [image : NoVersion, compose : NoVersion, point : NoVersion]
  BY DEF Nowhere, NoVersion
<1> QED
  BY <1>1 DEF Release, HolderType, Steps, NoTag
LEMMA ReturnType ==
  ASSUME OpType, NEW result \in {"completed", "failed"}, Return(result)
  PROVE  HolderType' /\ OpType'
  BY ReleaseType DEF Return, OpType

\* Without a remembered file the compose file stays as it is.
LEMMA RestoredType == ServiceType /\ PointType => Restored \in Versions
  BY DEF ServiceType, PointType, Restored, NoVersion

LEMMA OperatorKeepsTypes ==
  ASSUME Types, OperatorTurn \/ (\E what \in {"update", "rollback"} : OperatorStart(what)) \/ OperatorKilled
  PROVE  Types'
<1> USE RestingTypes, FaultType DEF Types
<1>1. CASE OperatorLocks
  <2>1. PICK what \in {"update", "rollback"} : what = thread
    BY <1>1 DEF OperatorLocks
  <2>2. "backup" \in Steps /\ "operator" \in {"cli", "operator", "deleter"} /\ what \in {"update", "rollback", "delete"}
    BY DEF Steps, UpdateSteps
  <2>3. HolderType'
    BY <1>1, <2>1, <2>2, BeginType DEF OperatorLocks
  <2> QED
    BY <1>1, <2>3 DEF OperatorLocks, OpType
<1>2. CASE OperatorLockedOut
  BY <1>2 DEF OperatorLockedOut, OpType
<1>3. CASE OperatorFinishes
  BY <1>3 DEF OperatorFinishes, OpType
<1>4. ASSUME NEW what \in {"update", "rollback"}, OperatorStart(what) PROVE Types'
  BY <1>4 DEF OperatorStart, OpType
<1>5. CASE OperatorKilled
  <2>1. HolderType'
    BY <1>5, ReleaseType DEF OperatorKilled
  <2> QED
    BY <1>5, <2>1 DEF OperatorKilled, OpType
<1> QED
  BY <1>1, <1>2, <1>3, <1>4, <1>5 DEF OperatorTurn

LEMMA AroundKeepsTypes ==
  ASSUME Types, \/ CliUpdate \/ CliRollback \/ CliKilled \/ Delete \/ EarlyFailure \/ SwitchFails
                \/ WatchtowerTimesOut \/ WatchtowerLate \/ Publish \/ Stop \/ Start
  PROVE  Types'
<1> USE RestingTypes, FaultType DEF Types
<1>1. CASE CliUpdate
  <2>1. "manager" \in Steps
    BY DEF Steps, UpdateSteps
  <2>2. HolderType'
    BY <1>1, <2>1, BeginType DEF CliUpdate
  <2> QED
    BY <1>1, <2>2 DEF CliUpdate
<1>2. CASE CliRollback
  <2>1. "read" \in Steps
    BY DEF Steps, UpdateSteps
  <2>2. HolderType'
    BY <1>2, <2>1, BeginType DEF CliRollback
  <2> QED
    BY <1>2, <2>2 DEF CliRollback
<1>3. CASE Delete
  <2>1. "stage" \in Steps
    BY DEF Steps, DeleteSteps
  <2>2. HolderType'
    BY <1>3, <2>1, BeginType DEF Delete
  <2> QED
    BY <1>3, <2>2 DEF Delete
<1>4. CASE CliKilled
  BY <1>4, ReleaseType DEF CliKilled
<1>5. CASE EarlyFailure
  <2>1. HolderType' /\ OpType'
    BY <1>5, ReturnType DEF EarlyFailure
  <2>2. ServiceType'
    BY <1>5 DEF EarlyFailure, ServiceType, WorldType
  <2> QED
    BY <1>5, <2>1, <2>2 DEF EarlyFailure
<1>6. CASE SwitchFails
  <2>1. HolderType' /\ OpType'
    BY <1>6, ReturnType DEF SwitchFails
  <2>2. ServiceType'
    BY <1>6 DEF SwitchFails, ServiceType, NoVersion
  <2> QED
    BY <1>6, <2>1, <2>2 DEF SwitchFails
<1>7. CASE WatchtowerTimesOut
  <2>1. HolderType' /\ OpType'
    BY <1>7, ReleaseType DEF WatchtowerTimesOut, OpType
  <2> QED
    BY <1>7, <2>1 DEF WatchtowerTimesOut
<1>8. CASE WatchtowerLate
  BY <1>8 DEF WatchtowerLate, OpType, ServiceType, WorldType, NoVersion
<1>9. CASE Publish
  <2>1. WorldType'
    BY <1>9, ReleaseAssumption DEF Publish, WorldType, Versions
  <2> QED
    BY <1>9, <2>1 DEF Publish
<1>10. CASE Stop
  BY <1>10 DEF Stop, ServiceType, NoVersion
<1>11. CASE Start
  BY <1>11 DEF Start, ServiceType, NoVersion
<1> QED
  BY <1>1, <1>2, <1>3, <1>4, <1>5, <1>6, <1>7, <1>8, <1>9, <1>10, <1>11

LEMMA UpdateStepsKeepTypes ==
  ASSUME Types, \/ SelfUpdate \/ Backup \/ Tag \/ NothingToTag \/ WritePoint \/ RememberCompose
                \/ RefreshAssets \/ Pull \/ PullFails \/ Up \/ UpFails \/ Healthy \/ Unhealthy
                \/ RestoreOnly \/ Watchtower
  PROVE  Types'
<1> USE RestingTypes, FaultType DEF Types
<1>0. /\ {"backup", "tag", "read", "refresh", "watchtower", "pull", "up", "health", "restore", "compose"}
            \subseteq Steps
      /\ "point" \in Steps
  BY DEF Steps, UpdateSteps
<1>1. CASE SelfUpdate
  <2>1. HolderType'
    BY <1>0, <1>1, GoType DEF SelfUpdate
  <2> QED
    BY <1>1, <2>1 DEF SelfUpdate, WorldType
<1>2. CASE Backup
  <2>1. (IF doing = "update" THEN "tag" ELSE "read") \in Steps
    BY <1>0
  <2>2. HolderType'
    BY <1>2, <2>1, GoType DEF Backup
  <2> QED
    BY <1>2, <2>2 DEF Backup
<1>3. CASE Tag
  <2>1. \A new : [t \in Tags |-> IF t = new THEN running
                                 ELSE IF t \in {pointImage, asideImage} THEN tagged[t] ELSE None]
                   \in [Tags -> NoVersion]
    BY DEF PointType, ServiceType, NoVersion
  <2>2. target' \in Tags
    BY <1>3, TagTakesNewTag
  <2>3. PointType'
    BY <1>3, <2>1 DEF Tag, PointType
  <2>4. HolderType'
    BY <1>0, <1>3, <2>2 DEF Tag, HolderType, NoTag
  <2> QED
    BY <1>3, <2>3, <2>4 DEF Tag, WorldType
<1>4. CASE NothingToTag
  <2>1. HolderType' /\ OpType'
    BY <1>0, <1>4, GoType, ReturnType DEF NothingToTag
  <2> QED
    BY <1>4, <2>1 DEF NothingToTag, WorldType
<1>5. CASE WritePoint
  <2>1. HolderType' /\ PointType'
    BY <1>0, <1>5 DEF WritePoint, HolderType, PointType
  <2> QED
    BY <1>5, <2>1 DEF WritePoint, WorldType
<1>6. CASE RememberCompose
  <2>1. (IF lock = "operator" THEN "watchtower" ELSE "refresh") \in Steps
    BY <1>0
  <2>2. HolderType'
    BY <1>6, <2>1, GoType DEF RememberCompose
  <2>3. PointType'
    BY <1>6 DEF RememberCompose, PointType, ServiceType, NoVersion
  <2> QED
    BY <1>6, <2>2, <2>3 DEF RememberCompose, WorldType
<1>7. CASE RefreshAssets
  <2>1. HolderType'
    BY <1>0, <1>7, GoType DEF RefreshAssets
  <2> QED
    BY <1>7, <2>1 DEF RefreshAssets, ServiceType, WorldType
<1>8. CASE Pull
  <2>1. HolderType'
    BY <1>0, <1>8, GoType DEF Pull
  <2> QED
    BY <1>8, <2>1 DEF Pull, ServiceType, WorldType
<1>9. CASE PullFails \/ RestoreOnly
  <2>1. HolderType' /\ OpType'
    BY <1>9, ReturnType DEF PullFails, RestoreOnly
  <2>2. ServiceType'
    BY <1>9, RestoredType DEF PullFails, RestoreOnly, ServiceType
  <2> QED
    BY <1>9, <2>1, <2>2 DEF PullFails, RestoreOnly
<1>10. CASE Up
  <2>1. HolderType'
    BY <1>0, <1>10, GoType DEF Up
  <2> QED
    BY <1>10, <2>1 DEF Up, ServiceType, NoVersion
<1>11. CASE UpFails \/ Unhealthy
  <2>1. HolderType'
    BY <1>0, <1>11, GoType DEF UpFails, Unhealthy, GiveUp
  <2>2. ServiceType'
    BY <1>11 DEF UpFails, Unhealthy, ServiceType, NoVersion, service
  <2> QED
    BY <1>11, <2>1, <2>2 DEF UpFails, Unhealthy
<1>12. CASE Healthy
  <2>1. HolderType' /\ OpType'
    BY <1>12, ReturnType DEF Healthy
  <2> QED
    BY <1>12, <2>1 DEF Healthy
<1>13. CASE Watchtower
  <2>1. HolderType' /\ OpType'
    BY <1>13, ReturnType DEF Watchtower
  <2>2. ServiceType'
    BY <1>13 DEF Watchtower, ServiceType, WorldType, NoVersion
  <2> QED
    BY <1>13, <2>1, <2>2 DEF Watchtower
<1> QED
  BY <1>1, <1>2, <1>3, <1>4, <1>5, <1>6, <1>7, <1>8, <1>9, <1>10, <1>11, <1>12, <1>13

LEMMA RollbackKeepsTypes ==
  ASSUME Types, step = "switch" => target # None,
         NoPoint \/ ReadPoint \/ Switch \/ Rechecked \/ DeleterStep \/ DeletionFails
  PROVE  Types'
<1> USE RestingTypes, FaultType DEF Types
<1>0. {"switch", "recheck", "remove", "stageCompose", "keepCompose", "keepImage", "clean"} \subseteq Steps
  BY DEF Steps, UpdateSteps, DeleteSteps
<1>1. CASE NoPoint
  <2>1. HolderType' /\ OpType'
    BY <1>1, ReturnType DEF NoPoint
  <2> QED
    BY <1>1, <2>1 DEF NoPoint
<1>2. CASE ReadPoint
  <2>1. HolderType'
    BY <1>0, <1>2 DEF ReadPoint, HolderType, PointType
  <2>2. ServiceType'
    BY <1>2, RestoredType DEF ReadPoint, ServiceType
  <2> QED
    BY <1>2, <2>1, <2>2 DEF ReadPoint
<1>3. CASE Switch
  <2>1. HolderType'
    BY <1>0, <1>3, GoType DEF Switch
  <2>2. tagged[target] \in NoVersion
    BY <1>3 DEF Switch, PointType, HolderType, NoTag
  <2> QED
    BY <1>3, <2>1, <2>2 DEF Switch, ServiceType
<1>4. CASE Rechecked
  <2>1. HolderType' /\ OpType'
    BY <1>4, ReturnType DEF Rechecked
  <2> QED
    BY <1>4, <2>1 DEF Rechecked
<1>5. CASE StageImage
  <2>1. HolderType' /\ PointType'
    BY <1>0, <1>5 DEF StageImage, HolderType, PointType, NoTag
  <2> QED
    BY <1>5, <2>1 DEF StageImage
<1>6. CASE StageCompose
  <2>1. HolderType' /\ PointType'
    BY <1>0, <1>6, GoType DEF StageCompose, PointType, NoVersion
  <2> QED
    BY <1>6, <2>1 DEF StageCompose
<1>7. CASE RemoveImage
  <2>1. HolderType'
    BY <1>0, <1>7, GoType DEF RemoveImage
  <2>2. PointType'
    BY <1>7 DEF RemoveImage, PointType, NoVersion
  <2> QED
    BY <1>7, <2>1, <2>2 DEF RemoveImage
<1>8. CASE KeepImage
  <2>1. HolderType' /\ OpType'
    BY <1>8, ReturnType DEF KeepImage
  <2>2. PointType'
    BY <1>8 DEF KeepImage, PointType, NoVersion, NoTag
  <2> QED
    BY <1>8, <2>1, <2>2 DEF KeepImage
<1>9. CASE Clean
  <2>1. HolderType' /\ OpType'
    BY <1>9, ReturnType DEF Clean
  <2>2. PointType'
    BY <1>9 DEF Clean, PointType, NoVersion, NoTag
  <2> QED
    BY <1>9, <2>1, <2>2 DEF Clean
<1>10. CASE RemoveRefused \/ KeepCompose
  <2>1. HolderType'
    BY <1>0, <1>10, GoType DEF RemoveRefused, KeepCompose
  <2>2. PointType'
    BY <1>10 DEF RemoveRefused, KeepCompose, point, PointType, NoVersion
  <2> QED
    BY <1>10, <2>1, <2>2 DEF RemoveRefused, KeepCompose
<1>11. CASE DeletionFails
  <2>1. HolderType' /\ OpType'
    BY <1>0, <1>11, GoType, ReturnType DEF DeletionFails
  <2> QED
    BY <1>11, <2>1 DEF DeletionFails
<1> QED
  BY <1>1, <1>2, <1>3, <1>4, <1>5, <1>6, <1>7, <1>8, <1>9, <1>10, <1>11 DEF DeleterStep

LEMMA StepKeepsTypes ==
  Types /\ (step = "switch" => target # None) /\ [Next]_vars => Types'
<1> SUFFICES ASSUME Types, step = "switch" => target # None, [Next]_vars PROVE Types'
  OBVIOUS
<1>1. CASE UNCHANGED vars
  BY <1>1, RestingTypes, FaultType DEF Types, vars
<1>2. CASE Next
  BY <1>2, OperatorKeepsTypes, AroundKeepsTypes, UpdateStepsKeepTypes, RollbackKeepsTypes DEF Next, Work
<1> QED
  BY <1>1, <1>2

LEMMA InitIInv == Init => IInv
<1> SUFFICES ASSUME Init PROVE IInv
  OBVIOUS
<1>1. Types
  <2>1. 1 \in Versions /\ 0 \in 0..MaxFaults
    BY ReleaseAssumption, BoundsAssumption DEF Versions
  <2>2. tagged \in [Tags -> NoVersion]
    BY DEF Init, NoVersion
  <2>3. before \in [image : NoVersion, compose : NoVersion, point : NoVersion]
    BY DEF Init, NoVersion, Nowhere
  <2> QED
    BY <2>1, <2>2, <2>3
    DEF Init, Types, WorldType, ServiceType, PointType, HolderType, OpType, Steps, NoVersion, NoTag
<1>2. HolderOK /\ PointOK /\ HalvesOK /\ UpdateOK
  BY DEF Init, HolderOK, PointOK, PointHasImage, HalvesOK, UpdateOK
<1> QED
  BY <1>1, <1>2 DEF IInv

LEMMA StepKeepsHolderOK == IInv /\ [Next]_vars => HolderOK'
<1> SUFFICES ASSUME Types, HolderOK, [Next]_vars PROVE HolderOK'
  BY DEF IInv
<1> USE DEF HolderOK, UpdateSteps, DeleteSteps, holder
<1>0. HolderType
  BY DEF Types
<1>1. CASE UNCHANGED vars
  BY <1>1 DEF vars
<1>2. ASSUME UNCHANGED holder PROVE HolderOK'
  BY <1>2
<1>3. CASE Release
  BY <1>3 DEF Release
<1>4. CASE OperatorTurn \/ OperatorKilled \/ \E what \in {"update", "rollback"} : OperatorStart(what)
  BY <1>0, <1>2, <1>3, <1>4
  DEF OperatorTurn, OperatorLocks, OperatorLockedOut, OperatorFinishes, OperatorKilled, OperatorStart, Begin, HolderType
<1>5. CASE CliUpdate \/ CliRollback \/ Delete
  BY <1>0, <1>5 DEF CliUpdate, CliRollback, Delete, Begin
<1>6. CASE CliKilled \/ EarlyFailure \/ SwitchFails \/ WatchtowerTimesOut
  BY <1>3, <1>6 DEF CliKilled, EarlyFailure, SwitchFails, WatchtowerTimesOut, Return
<1>7. CASE WatchtowerLate \/ Publish \/ Stop \/ Start
  BY <1>2, <1>7 DEF WatchtowerLate, Publish, Stop, Start
<1>8. CASE SelfUpdate \/ Backup \/ RefreshAssets \/ Pull \/ Up
  BY <1>0, <1>8 DEF SelfUpdate, Backup, RefreshAssets, Pull, Up, Go, HolderType
<1>9. CASE Tag \/ WritePoint \/ RememberCompose
  BY <1>0, <1>9 DEF Tag, WritePoint, RememberCompose, Go, HolderType
<1>10. CASE NothingToTag
  BY <1>0, <1>3, <1>10 DEF NothingToTag, Return, Go, HolderType
<1>11. CASE PullFails \/ Healthy \/ RestoreOnly \/ Watchtower \/ NoPoint \/ Rechecked
  BY <1>3, <1>11 DEF PullFails, Healthy, RestoreOnly, Watchtower, NoPoint, Rechecked, Return
<1>12. CASE UpFails \/ Unhealthy
  BY <1>0, <1>12 DEF UpFails, Unhealthy, GiveUp, Go, HolderType
<1>13. CASE ReadPoint \/ Switch
  BY <1>0, <1>13 DEF ReadPoint, Switch, Go, HolderType
<1>14. CASE StageImage \/ StageCompose \/ RemoveImage \/ RemoveRefused \/ KeepCompose
  BY <1>0, <1>14 DEF StageImage, StageCompose, RemoveImage, RemoveRefused, KeepCompose, Go, HolderType
<1>15. CASE KeepImage \/ Clean
  BY <1>2, <1>3, <1>15 DEF KeepImage, Clean, Return
<1>16. CASE DeletionFails
  BY <1>0, <1>3, <1>16 DEF DeletionFails, Return, Go, HolderType
<1> QED
  BY <1>1, <1>4, <1>5, <1>6, <1>7, <1>8, <1>9, <1>10, <1>11, <1>12, <1>13, <1>14, <1>15, <1>16
  DEF Next, Work, DeleterStep

------------------------------------------------------------------------------
(* The rollback point. *)

\* Where the files and tags rest, a step to one that promises nothing keeps the promise.
PlainSteps == Steps \ {"point", "stage", "stageCompose", "remove", "keepCompose", "keepImage"}

LEMMA StepKeepsPointOK == IInv /\ [Next]_vars => PointOK'
<1> SUFFICES ASSUME Types, HolderOK, PointOK, [Next]_vars PROVE PointOK'
  BY DEF IInv
<1> USE DEF PointOK, PointHasImage
<1>0. HolderType /\ PointType
  BY DEF Types
<1>1. ASSUME UNCHANGED point, UNCHANGED <<step, target>> PROVE PointOK'
  BY <1>1 DEF point
<1>2. ASSUME UNCHANGED point, step' \in PlainSteps PROVE PointOK'
  BY <1>2 DEF point, PlainSteps
<1>3. /\ {"done", "manager", "read", "backup", "tag", "compose", "refresh", "watchtower", "pull", "up", "health",
           "restore"} \subseteq PlainSteps
      /\ "switch" \in PlainSteps /\ "recheck" \in PlainSteps /\ "clean" \in PlainSteps
  BY DEF PlainSteps, Steps, UpdateSteps, DeleteSteps
<1>4. ASSUME UNCHANGED point, UNCHANGED holder PROVE PointOK'
  BY <1>1, <1>4 DEF holder
<1>5. ASSUME UNCHANGED point, Release PROVE PointOK'
  BY <1>2, <1>3, <1>5 DEF Release
<1>6. CASE UNCHANGED vars
  BY <1>4, <1>6 DEF vars
<1>7. CASE OperatorTurn \/ OperatorKilled \/ \E what \in {"update", "rollback"} : OperatorStart(what)
  <2>1. CASE OperatorLocks
    BY <1>2, <1>3, <2>1 DEF OperatorLocks, Begin
  <2>2. CASE OperatorLockedOut \/ OperatorFinishes \/ \E what \in {"update", "rollback"} : OperatorStart(what)
    BY <1>4, <2>2 DEF OperatorLockedOut, OperatorFinishes, OperatorStart
  <2>3. CASE OperatorKilled
    BY <1>4, <1>5, <2>3 DEF OperatorKilled
  <2> QED
    BY <1>7, <2>1, <2>2, <2>3 DEF OperatorTurn
<1>8. CASE CliUpdate \/ CliRollback
  BY <1>2, <1>3, <1>8 DEF CliUpdate, CliRollback, Begin
<1>9. CASE Delete
  BY <1>9 DEF Delete, Begin, point
<1>10. CASE CliKilled \/ EarlyFailure \/ SwitchFails \/ WatchtowerTimesOut
  BY <1>5, <1>10 DEF CliKilled, EarlyFailure, SwitchFails, WatchtowerTimesOut, Return
<1>11. CASE WatchtowerLate \/ Publish \/ Stop \/ Start
  BY <1>4, <1>11 DEF WatchtowerLate, Publish, Stop, Start
<1>12. CASE SelfUpdate \/ Backup \/ RefreshAssets \/ Pull \/ Up
  BY <1>2, <1>3, <1>12 DEF SelfUpdate, Backup, RefreshAssets, Pull, Up, Go
<1>13. CASE Tag
  <2>1. target' \in Tags \ {pointImage, asideImage}
    BY <1>13, TagTakesNewTag
  <2>2. tagged' = [t \in Tags |-> IF t = target' THEN running
                                  ELSE IF t \in {pointImage, asideImage} THEN tagged[t] ELSE None]
        /\ running # None /\ pointImage' = pointImage /\ step' = "point"
    BY <1>13 DEF Tag
  <2>3. pointImage # None => tagged'[pointImage] = tagged[pointImage]
    BY <1>0, <2>1, <2>2 DEF PointType, NoTag
  <2>4. tagged'[target'] # None /\ target' # None
    BY <2>1, <2>2, TagsAssumption
  <2> QED
    BY <2>2, <2>3, <2>4
<1>14. CASE NothingToTag
  BY <1>2, <1>3, <1>5, <1>14 DEF NothingToTag, Return, Go
<1>15. CASE WritePoint
  BY <1>15 DEF WritePoint
<1>16. CASE RememberCompose
  BY <1>16 DEF RememberCompose, Go
<1>17. CASE PullFails \/ Healthy \/ RestoreOnly \/ Watchtower \/ NoPoint \/ Rechecked
  BY <1>5, <1>17 DEF PullFails, Healthy, RestoreOnly, Watchtower, NoPoint, Rechecked, Return
<1>18. CASE UpFails \/ Unhealthy
  BY <1>2, <1>3, <1>18 DEF UpFails, Unhealthy, GiveUp, Go
<1>19. CASE ReadPoint \/ Switch
  BY <1>2, <1>3, <1>19 DEF ReadPoint, Switch, Go
<1>20. CASE StageImage
  BY <1>20 DEF StageImage
<1>21. CASE StageCompose
  BY <1>21 DEF StageCompose, Go
<1>22. CASE RemoveImage
  BY <1>22 DEF RemoveImage, Go
<1>23. CASE KeepImage
  BY <1>23 DEF KeepImage, Return, Release
<1>24. CASE Clean
  BY <1>24 DEF Clean, Return, Release, holder
<1>25. CASE RemoveRefused
  BY <1>25 DEF RemoveRefused, point, Go
<1>26. CASE KeepCompose
  BY <1>26 DEF KeepCompose, Go
<1>27. CASE DeletionFails
  BY <1>5, <1>27 DEF DeletionFails, point, Return, Go
<1> QED
  BY <1>6, <1>7, <1>8, <1>9, <1>10, <1>11, <1>12, <1>13, <1>14, <1>15, <1>16, <1>17, <1>18, <1>19, <1>20,
     <1>21, <1>22, <1>23, <1>24, <1>25, <1>26, <1>27 DEF Next, Work, DeleterStep

\* Only the deletion moves the compose file of the point aside and back.
LEMMA StepKeepsHalvesOK == IInv /\ [Next]_vars => HalvesOK'
<1> SUFFICES ASSUME Types, HolderOK, HalvesOK, [Next]_vars PROVE HalvesOK'
  BY DEF IInv
<1> USE DEF HalvesOK
<1> DEFINE Moved == {"stage", "stageCompose", "remove", "keepCompose", "keepImage"}
<1>0. faults \in Nat /\ (Fault => faults' \in Nat /\ faults' > 0)
  BY BoundsAssumption DEF Types, Fault
<1>1. ASSUME step' \notin Moved PROVE HalvesOK'
  BY <1>1
<1>2. ASSUME UNCHANGED <<step, before, asideCompose, pointCompose>>, Fault \/ UNCHANGED faults PROVE HalvesOK'
  BY <1>0, <1>2
<1>3. CASE Delete
  BY <1>3 DEF Delete, Begin, point
<1>4. CASE StageImage \/ StageCompose \/ RemoveRefused \/ KeepCompose
  BY <1>4 DEF StageImage, StageCompose, RemoveRefused, KeepCompose, Go, point
<1>5. CASE DeletionFails
  BY <1>0, <1>1, <1>5 DEF DeletionFails, point, Return, Release, Go
<1>6. CASE RemoveImage \/ KeepImage \/ Clean
  <2>1. step' \in {"clean", "done"}
    BY <1>6 DEF RemoveImage, KeepImage, Clean, Return, Release, Go, holder
  <2> QED
    BY <1>1, <2>1
<1>7. CASE UNCHANGED vars
  BY <1>2, <1>7 DEF vars, holder, point
<1>8. CASE OperatorTurn \/ OperatorKilled \/ \E what \in {"update", "rollback"} : OperatorStart(what)
  BY <1>1, <1>2, <1>8 DEF OperatorTurn, OperatorLocks, OperatorLockedOut, OperatorFinishes, OperatorKilled,
     OperatorStart, Begin, Release, holder, point
<1>9. CASE CliUpdate \/ CliRollback
  BY <1>1, <1>9 DEF CliUpdate, CliRollback, Begin
<1>10. CASE CliKilled \/ EarlyFailure \/ SwitchFails \/ WatchtowerTimesOut
  BY <1>1, <1>10 DEF CliKilled, EarlyFailure, SwitchFails, WatchtowerTimesOut, Return, Release
<1>11. CASE WatchtowerLate \/ Publish \/ Stop \/ Start
  BY <1>2, <1>11 DEF WatchtowerLate, Publish, Stop, Start, holder, point
<1>12. CASE Work /\ ~DeleterStep
  <2>1. step' \notin Moved
    BY <1>12 DEF Work, SelfUpdate, Backup, Tag, NothingToTag, WritePoint, RememberCompose, RefreshAssets, Pull,
       PullFails, Up, UpFails, Healthy, Unhealthy, RestoreOnly, Watchtower, NoPoint, ReadPoint, Switch, Rechecked,
       Return, Release, Go, GiveUp
  <2> QED
    BY <1>1, <2>1
<1> QED
  BY <1>3, <1>4, <1>5, <1>6, <1>7, <1>8, <1>9, <1>10, <1>11, <1>12 DEF Next, Work, DeleterStep

------------------------------------------------------------------------------
(* What a failed update goes back to. *)

LEMMA StepKeepsUpdateOK == IInv /\ [Next]_vars => UpdateOK'
<1> SUFFICES ASSUME Types, HolderOK, PointOK, UpdateOK, [Next]_vars PROVE UpdateOK'
  BY DEF IInv
<1>0. faults \in Nat /\ (Fault => faults' \in Nat /\ faults' > 0)
  BY BoundsAssumption DEF Types, Fault
<1>1. CASE UNCHANGED vars
  BY <1>1 DEF vars, world, service, point, holder, op, UpdateOK, ComposeOK, HasPointOK, ReleaseOK
<1> DEFINE Updating == lock = "cli" /\ doing = "update"
\* Steps of nobody's update from the command line.
<1>2. ASSUME late' => late \/ Fault, faults' = faults \/ Fault, ~Updating' PROVE UpdateOK'
  BY <1>0, <1>2 DEF UpdateOK
<1>11. CASE DeletionFails
  <2>1. ~Updating' /\ late' = late
    BY <1>11 DEF DeletionFails, HolderOK, UpdateSteps, Return, Release, Go, op
  <2> QED
    BY <1>2, <1>11, <2>1 DEF DeletionFails
<1>3. CASE OperatorKilled \/ CliKilled \/ EarlyFailure \/ SwitchFails \/ WatchtowerTimesOut
  <2>1. CASE Release
    BY <1>2, <1>3, <2>1 DEF OperatorKilled, CliKilled, EarlyFailure, SwitchFails, WatchtowerTimesOut, Return, Release, op
  <2>2. CASE OperatorKilled /\ UNCHANGED holder
    BY <1>0, <2>2 DEF OperatorKilled, service, point, holder, UpdateOK, ComposeOK, HasPointOK
  <2> QED
    BY <1>3, <2>1, <2>2 DEF OperatorKilled, CliKilled, EarlyFailure, SwitchFails, WatchtowerTimesOut, Return
<1>4. CASE OperatorTurn \/ \E what \in {"update", "rollback"} : OperatorStart(what)
  <2>1. CASE OperatorLocks
    BY <1>2, <2>1 DEF OperatorLocks, Begin
  <2>2. UNCHANGED <<service, point, holder, late, faults>> => UpdateOK'
    BY DEF service, point, holder, UpdateOK, ComposeOK, HasPointOK, ReleaseOK
  <2> QED
    BY <1>4, <2>1, <2>2 DEF OperatorTurn, OperatorLockedOut, OperatorFinishes, OperatorStart
<1>5. CASE CliUpdate
  BY <1>5 DEF Types, ServiceType, CliUpdate, Begin, service, point, op, HolderOK, UpdateOK, ComposeOK, HasPointOK, ReleaseOK
<1>6. CASE CliRollback \/ Delete
  BY <1>2, <1>6 DEF CliRollback, Delete, Begin, op
<1>7. CASE WatchtowerLate
  BY <1>0, <1>7 DEF WatchtowerLate, point, holder, UpdateOK, ComposeOK, HasPointOK
<1>8. CASE Publish
  BY <1>8 DEF Publish, service, point, holder, op, UpdateOK, ComposeOK, HasPointOK, ReleaseOK
<1>9. CASE Stop \/ Start
  BY <1>2, <1>9 DEF Stop, Start, holder, op
<1>10. CASE Work
  <2>1. ASSUME ~Updating PROVE UpdateOK'
    <3>1. UNCHANGED <<late, faults>>
      BY <1>10 DEF Work, SelfUpdate, Backup, Tag, NothingToTag, WritePoint, RememberCompose, RefreshAssets, Pull,
         PullFails, Up, UpFails, Healthy, Unhealthy, RestoreOnly, Watchtower, NoPoint, ReadPoint, Switch, Rechecked,
         DeleterStep, StageImage, StageCompose, RemoveImage, RemoveRefused, KeepCompose, KeepImage, Clean, Return, op
    <3>2. UNCHANGED <<lock, doing>> \/ lock' = "free"
      BY <1>10 DEF Work, SelfUpdate, Backup, Tag, NothingToTag, WritePoint, RememberCompose, RefreshAssets, Pull,
         PullFails, Up, UpFails, Healthy, Unhealthy, RestoreOnly, Watchtower, NoPoint, ReadPoint, Switch, Rechecked,
         DeleterStep, StageImage, StageCompose, RemoveImage, RemoveRefused, KeepCompose, KeepImage, Clean, Return, Release, Go, GiveUp, holder
    <3> QED
      BY <1>2, <2>1, <3>1, <3>2
  <2>2. ASSUME Updating PROVE UpdateOK'
    <3> USE <2>2
    <3>1. ComposeOK /\ HasPointOK /\ (faults = 0 => ReleaseOK) /\ (late => faults > 0)
      BY DEF UpdateOK
    <3>2. step \in UpdateSteps /\ HolderType /\ PointType /\ ServiceType
      BY DEF HolderOK, Types
    <3>3. CASE SelfUpdate \/ Backup
      BY <3>1, <3>3 DEF SelfUpdate, Backup, Go, service, point, op, UpdateOK, ComposeOK, HasPointOK, ReleaseOK
    <3>4. CASE Tag
      <4>1. target' \in Tags \ {pointImage, asideImage}
        BY <3>4, TagTakesNewTag
      <4>2. tagged' = [t \in Tags |-> IF t = target' THEN running
                                      ELSE IF t \in {pointImage, asideImage} THEN tagged[t] ELSE None]
            /\ step = "tag" /\ step' = "point"
            /\ UNCHANGED <<service, pointImage, pointCompose, lock, doing, hasPoint, before, op, faults>>
        BY <3>4 DEF Tag
      <4>3. tagged'[target'] = running
        BY <4>1, <4>2
      <4> QED
        BY <3>1, <4>2, <4>3 DEF service, op, UpdateOK, ComposeOK, HasPointOK, ReleaseOK
    <3>5. CASE NothingToTag
      BY <3>1, <3>5 DEF NothingToTag, Go, service, point, op, UpdateOK, ComposeOK, HasPointOK, ReleaseOK
    <3>6. CASE WritePoint
      BY <3>1, <3>6 DEF WritePoint, PointOK, service, op, UpdateOK, ComposeOK, HasPointOK, ReleaseOK
    <3>7. CASE RememberCompose
      BY <3>1, <3>7 DEF RememberCompose, Go, service, op, UpdateOK, ComposeOK, HasPointOK, ReleaseOK
    <3>8. CASE RefreshAssets \/ Pull
      BY <3>1, <3>8 DEF RefreshAssets, Pull, Go, point, op, UpdateOK, ComposeOK, HasPointOK, ReleaseOK
    <3>9. CASE Up
      BY <3>1, <3>9 DEF Up, Go, point, op, UpdateOK, ComposeOK, HasPointOK, ReleaseOK
    <3>10. CASE UpFails \/ Unhealthy
      BY <3>1, <3>10 DEF UpFails, Unhealthy, GiveUp, Go, service, point, op, UpdateOK, ComposeOK, HasPointOK, ReleaseOK
    <3>11. CASE PullFails \/ Healthy \/ RestoreOnly \/ Watchtower \/ NoPoint \/ Rechecked
      BY <3>1, <3>11 DEF PullFails, Healthy, RestoreOnly, Watchtower, NoPoint, Rechecked, Return, Release, UpdateOK
    <3>12. CASE ReadPoint
      <4>1. compose' = before.compose
        BY <3>1, <3>2, <3>12, TagsAssumption DEF ReadPoint, Restored, ComposeOK, ServiceType, UpdateOK
      <4> QED
        BY <3>1, <3>12, <4>1 DEF ReadPoint, point, op, UpdateOK, ComposeOK, HasPointOK, ReleaseOK
    <3>13. CASE Switch
      BY <3>1, <3>13 DEF Switch, Go, point, op, UpdateOK, ComposeOK, HasPointOK, ReleaseOK
    <3>14. CASE DeleterStep
      BY <3>2, <3>14 DEF DeleterStep, StageImage, StageCompose, RemoveImage, RemoveRefused, KeepCompose, KeepImage, Clean, UpdateSteps
    <3> QED
      BY <1>10, <3>3, <3>4, <3>5, <3>6, <3>7, <3>8, <3>9, <3>10, <3>11, <3>12, <3>13, <3>14 DEF Work
  <2> QED
    BY <2>1, <2>2
<1> QED
  BY <1>1, <1>3, <1>4, <1>5, <1>6, <1>7, <1>8, <1>9, <1>10, <1>11 DEF Next

------------------------------------------------------------------------------
LEMMA Invariance == Spec => []IInv
<1>1. IInv /\ [Next]_vars => IInv'
  <2>1. IInv => Types /\ (step = "switch" => target # None)
    BY DEF IInv, HolderOK
  <2> QED
    BY <2>1, StepKeepsTypes, StepKeepsHolderOK, StepKeepsPointOK, StepKeepsHalvesOK,
       StepKeepsUpdateOK DEF IInv
<1> QED
  BY <1>1, InitIInv, PTL DEF Spec

(***************************************************************************)
(* Every variable has its type, whichever operations are begun, fail and   *)
(* are killed.                                                             *)
(***************************************************************************)
THEOREM TypeCorrect == Spec => []TypeOK
<1>1. IInv => TypeOK
  BY TypesAreTypeOK DEF IInv
<1> QED
  BY <1>1, Invariance, PTL

(***************************************************************************)
(* The rollback point can be gone back to at all times: whatever is killed *)
(* between the writing of its two files, or between the steps of its       *)
(* deletion, it names an image that is there, and a deletion that docker   *)
(* refuses, or that cannot move the compose file aside, leaves it as it    *)
(* was unless a renaming back fails too (remember_current_image,           *)
(* delete_rollback_point and restore_staged_rollback).                     *)
(***************************************************************************)
THEOREM PointKept == Spec => PointIsKept
<1>1. IInv => PointHasImage
  BY DEF IInv, PointOK
<1>2. IInv /\ [Next]_vars =>
        [doing = "delete" /\ step = "keepImage" /\ lock' = "free" /\ faults' = faults
         => /\ pointImage' = target /\ tagged'[pointImage'] # None /\ asideImage' = None
            /\ \/ pointCompose' = before.point /\ asideCompose' = None
               \/ faults > 0 /\ pointCompose' = None /\ asideCompose' = before.point]_vars
  <2> SUFFICES ASSUME IInv, Next, doing = "delete", step = "keepImage", lock' = "free", faults' = faults
               PROVE  /\ pointImage' = target /\ tagged'[pointImage'] # None /\ asideImage' = None
                      /\ \/ pointCompose' = before.point /\ asideCompose' = None
                         \/ faults > 0 /\ pointCompose' = None /\ asideCompose' = before.point
    OBVIOUS
  <2>1. lock = "deleter" /\ faults \in Nat
    BY BoundsAssumption DEF IInv, HolderOK, Types
  <2>2. ~Fault
    BY <2>1 DEF Fault
  <2>3. ~(\/ CliUpdate \/ CliRollback \/ CliKilled \/ (\E what \in {"update", "rollback"} : OperatorStart(what))
          \/ OperatorTurn \/ Delete \/ OperatorKilled \/ EarlyFailure \/ SwitchFails \/ WatchtowerTimesOut
          \/ WatchtowerLate \/ Publish \/ Stop \/ Start \/ DeletionFails)
    BY <2>1, <2>2 DEF CliUpdate, CliRollback, CliKilled, OperatorStart, OperatorTurn, OperatorLocks, OperatorLockedOut,
       OperatorFinishes, Delete, OperatorKilled, EarlyFailure, SwitchFails, WatchtowerTimesOut, WatchtowerLate,
       Publish, Stop, Start, DeletionFails, Begin, holder
  <2>4. KeepImage
    BY <2>3 DEF Next, Work, SelfUpdate, Backup, Tag, NothingToTag, WritePoint, RememberCompose, RefreshAssets, Pull,
       PullFails, Up, UpFails, Healthy, Unhealthy, RestoreOnly, Watchtower, NoPoint, ReadPoint, Switch, Rechecked,
       DeleterStep, StageImage, StageCompose, RemoveImage, RemoveRefused, KeepCompose, Clean
  <2> QED
    BY <2>1, <2>4 DEF KeepImage, IInv, PointOK, HalvesOK
<1> QED
  BY <1>1, <1>2, Invariance, PTL DEF Spec, PointIsKept, RefusedDeletionKeepsPoint

(***************************************************************************)
(* An update from the command line that ends without success, and neither  *)
(* was killed nor met a command that cannot be run at all, puts the        *)
(* compose file back, and the release too if it had a rollback point and   *)
(* nothing unexpected happened (do_update,                                 *)
(* rollback_failed_update and do_rollback), for any releases and any       *)
(* number of earlier operations.                                           *)
(***************************************************************************)
THEOREM FailedUpdateRestores == Spec => UpdateFailureRestores
<1>1. IInv /\ [Next]_vars =>
        [lock = "cli" /\ doing = "update" /\ step \in {"pull", "read", "recheck", "restore"}
           /\ lock' = "free" /\ faults' = faults
         => /\ compose' = before.compose
            /\ hasPoint /\ faults = 0 => running' = before.image]_vars
  <2> SUFFICES ASSUME IInv, Next, lock = "cli", doing = "update", step \in {"pull", "read", "recheck", "restore"},
                      lock' = "free", faults' = faults
               PROVE  /\ compose' = before.compose
                      /\ hasPoint /\ faults = 0 => running' = before.image
    OBVIOUS
  <2>1. ComposeOK /\ HasPointOK /\ (faults = 0 => ReleaseOK) /\ PointHasImage /\ faults \in Nat
    BY BoundsAssumption DEF IInv, UpdateOK, PointOK, Types
  <2>2. ~Fault
    BY <2>1 DEF Fault
  <2>3. ~(\/ CliUpdate \/ CliRollback \/ CliKilled \/ (\E what \in {"update", "rollback"} : OperatorStart(what))
          \/ OperatorTurn \/ Delete \/ OperatorKilled \/ EarlyFailure \/ SwitchFails \/ WatchtowerTimesOut
          \/ WatchtowerLate \/ Publish \/ Stop \/ Start \/ DeletionFails)
    BY <2>1, <2>2 DEF CliUpdate, CliRollback, CliKilled, OperatorStart, OperatorTurn, OperatorLocks, OperatorLockedOut,
       OperatorFinishes, Delete, OperatorKilled, EarlyFailure, SwitchFails, WatchtowerTimesOut, WatchtowerLate,
       Publish, Stop, Start, DeletionFails, Begin, holder
  <2>4. PullFails \/ RestoreOnly \/ NoPoint \/ Rechecked
    BY <2>3 DEF Next, Work, SelfUpdate, Backup, Tag, NothingToTag, WritePoint, RememberCompose, RefreshAssets, Pull,
       Up, UpFails, Healthy, Unhealthy, Watchtower, ReadPoint, Switch, Go, GiveUp,
       DeleterStep, StageImage, StageCompose, RemoveImage, RemoveRefused, KeepCompose, KeepImage, Clean
  <2>5. CASE PullFails
    BY <2>1, <2>5, TagsAssumption DEF PullFails, Restored, ComposeOK, ReleaseOK
  <2>6. CASE RestoreOnly
    BY <2>1, <2>6, TagsAssumption DEF RestoreOnly, Restored, ComposeOK, HasPointOK
  <2>7. CASE NoPoint
    BY <2>1, <2>7 DEF NoPoint, HasPointOK, PointHasImage
  <2>8. CASE Rechecked
    BY <2>1, <2>8 DEF Rechecked, service, ComposeOK, ReleaseOK
  <2> QED
    BY <2>4, <2>5, <2>6, <2>7, <2>8
<1> QED
  BY <1>1, Invariance, PTL DEF Spec, UpdateFailureRestores
=============================================================================
