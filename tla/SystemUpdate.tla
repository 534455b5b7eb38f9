----------------------------- MODULE SystemUpdate -----------------------------
(***************************************************************************)
(* Updating the deployment and rolling it back (apps/manager/src): the     *)
(* command line manager, the operator service that does the same for the   *)
(* administration page, and the rollback point the two share.              *)
(*                                                                         *)
(* A rollback point is two files, .rollback-image (a docker tag) and       *)
(* .rollback-compose.yml, written one after the other.  Deleting it moves  *)
(* both aside, removes the docker image and then the moved files.  All     *)
(* operations take the lock file /run/lock/imyemail.lock without waiting,  *)
(* so that what a running operation keeps in its locals is modelled once,  *)
(* for the holder of the lock.                                             *)
(***************************************************************************)
EXTENDS Naturals

CONSTANTS
    None,
    LastVersion,   \* bounds of the model: releases 1..LastVersion,
    MaxTags,       \* names of rollback tags,
    MaxFaults,     \* processes killed, writes and commands that fail unexpectedly
    Good           \* the releases that pass the health check

ASSUME ReleaseAssumption == LastVersion \in Nat \ {0} /\ Good \subseteq 1..LastVersion
ASSUME BoundsAssumption  == MaxTags \in Nat /\ MaxFaults \in Nat

Versions == 1..LastVersion
Tags     == 1..MaxTags

\* Two files name a tag each, and there is always another one.
ASSUME TagsAssumption == MaxTags >= 3 /\ None \notin Versions \cup Tags

VARIABLES
    latest,         \* the newest release published
    manager,        \* release of the installed manager, whose compose file is embedded
    running,        \* release the service's container runs, None if it does not run
    pulled,         \* release the image tag "latest" stands for locally
    compose,        \* release docker-compose.yml comes from
    tagged,         \* release a rollback tag stands for, None if there is no such tag
    pointImage,     \* tag in .rollback-image, None if there is no file
    pointCompose,   \* release in .rollback-compose.yml, None if there is no file
    asideImage, asideCompose, \* the same with the suffix .deleting
    lock,           \* "cli", "operator" or "deleter" holds the lock, or "free"
    doing, step,    \* the holder's operation and its next step
    hasPoint,       \* its rollback_available
    target,         \* the tag it works on
    before,         \* the model's own: release, compose file and remembered one when it began
    thread,         \* the operator's worker thread
    phase,          \* phase of the operator's OperationState
    late,           \* Watchtower is still at work for an update that gave up on it
    saved,          \* the model's own: the halves of the point the last update has saved
    faults

service == <<running, pulled, compose>>
point   == <<pointImage, pointCompose, asideImage, asideCompose, tagged>>
holder  == <<lock, doing, step, hasPoint, target, before>>
op      == <<thread, phase, late>>
world   == <<latest, manager, saved>>
vars    == <<world, service, point, holder, op, faults>>

Busy      == phase \in {"preparing", "running"}
Fault     == faults < MaxFaults /\ faults' = faults + 1
Nowhere   == [image |-> None, compose |-> None, point |-> None]
Go(s)     == step' = s /\ UNCHANGED <<lock, doing, hasPoint, target, before>>
\* Bug: a file that is not there is restored.
RestoredBlindly == pointCompose
\* assets::restore_compose: without a remembered file nothing is done.
Restored  == IF pointCompose = None THEN compose ELSE pointCompose

Init ==
    /\ latest = 1 /\ manager = 1 /\ running = 1 /\ pulled = 1 /\ compose = 1
    /\ tagged = [t \in Tags |-> None]
    /\ pointImage = None /\ pointCompose = None /\ asideImage = None /\ asideCompose = None
    /\ lock = "free" /\ doing = "nothing" /\ step = "done"
    /\ hasPoint = FALSE /\ target = None /\ before = Nowhere
    /\ thread = "none" /\ phase = "idle" /\ late = FALSE
    /\ saved = {} /\ faults = 0

------------------------------------------------------------------------------
(* Beginning and ending an operation. *)

\* acquire_operation_lock, which does not wait.
Begin(who, what, first) ==
    /\ lock = "free"
    /\ lock' = who /\ doing' = what /\ step' = first
    /\ before' = [image |-> running, compose |-> compose, point |-> pointCompose]
    /\ UNCHANGED <<hasPoint, target>>

\* The operation returns and the lock file is closed; the operator's thread has still to note
\* the result.
Release == lock' = "free" /\ doing' = "nothing" /\ step' = "done" /\ hasPoint' = FALSE
           /\ target' = None /\ before' = Nowhere
Return(result) ==
    /\ Release
    /\ thread' = IF lock = "operator" THEN result ELSE thread
    /\ UNCHANGED <<phase, late>>

\* An install on top of an existing deployment repairs it with the steps of an update.
CliUpdate   == Begin("cli", "update", "manager") /\ UNCHANGED <<world, service, point, op, faults>>
CliRollback == Begin("cli", "rollback", "read") /\ UNCHANGED <<world, service, point, op, faults>>

\* start_operation: refused while busy, and requests are handled one by one; the thread it
\* starts sleeps before it does anything.
OperatorStart(what) ==
    /\ lock # "deleter" /\ ~Busy
    /\ phase' = "preparing" /\ thread' = what
    /\ UNCHANGED <<world, service, point, holder, late, faults>>

\* set_running and the beginning of run_operation.
OperatorLocks ==
    /\ thread \in {"update", "rollback"} /\ Begin("operator", thread, "backup")
    /\ phase' = "running" /\ thread' = "working"
    /\ UNCHANGED <<world, service, point, late, faults>>

OperatorLockedOut ==
    /\ thread \in {"update", "rollback"} /\ lock # "free"
    /\ phase' = "running" /\ thread' = "failed"
    /\ UNCHANGED <<world, service, point, holder, late, faults>>

\* Bug: only success is noted.
FinishOnlySuccess ==
    /\ thread \in {"completed", "failed"}
    /\ phase' = (IF thread = "completed" THEN thread ELSE phase) /\ thread' = "none"
    /\ UNCHANGED <<world, service, point, holder, late, faults>>

\* finish_operation.
OperatorFinishes ==
    /\ thread \in {"completed", "failed"}
    /\ phase' = thread /\ thread' = "none"
    /\ UNCHANGED <<world, service, point, holder, late, faults>>

------------------------------------------------------------------------------
(* The steps of an update. *)

\* self_update: the manager's binary is replaced and run anew as a child that takes no lock of
\* its own; or it is skipped, or already the newest.
SelfUpdate ==
    /\ step = "manager" /\ Go("backup")
    /\ manager' \in {manager, latest}
    /\ UNCHANGED <<latest, saved, service, point, op, faults>>

\* backup_database: a copy of the SQLite file, which nothing else here looks at.
Backup ==
    /\ step = "backup" /\ Go(IF doing = "update" THEN "tag" ELSE "read")
    /\ UNCHANGED <<world, service, point, op, faults>>

\* A step fails with an error that the operation hands on as it is: before anything was
\* switched, or because the docker command cannot be run at all.  The embedded files are several,
\* the compose file is the first.
EarlyFailure ==
    /\ step \in {"manager", "backup", "tag", "point", "compose", "refresh", "pull", "up",
                 "watchtower"}
    /\ Fault
    /\ Return("failed")
    /\ compose' \in {compose} \cup (IF step = "refresh" THEN {manager} ELSE {})
    /\ UNCHANGED <<world, running, pulled, point>>

\* remember_current_image, first half: docker image tag, with the time in the name.  Tags that
\* no file names any more stay behind in docker; the model drops them.
Tag ==
    /\ step = "tag" /\ running # None
    /\ LET used == {pointImage, asideImage}
           new  == CHOOSE t \in Tags \ used : \A u \in Tags \ used : t <= u
       IN /\ tagged' = [t \in Tags |-> IF t = new THEN running
                                       ELSE IF t \in used THEN tagged[t] ELSE None]
          /\ target' = new
    /\ step' = "point" /\ saved' = {}
    /\ UNCHANGED <<latest, manager, service, pointImage, pointCompose, asideImage, asideCompose,
                   lock, doing, hasPoint, before, op, faults>>

\* There is no container: the command line goes on without an image, the operator gives up.
NothingToTag ==
    /\ step = "tag" /\ running = None
    /\ IF lock = "operator" THEN Return("failed") ELSE Go("compose") /\ UNCHANGED op
    /\ saved' = {}
    /\ UNCHANGED <<latest, manager, service, point, faults>>

\* Second half: .rollback-image is replaced.
WritePoint ==
    /\ step = "point" /\ step' = "compose"
    /\ pointImage' = target /\ hasPoint' = TRUE
    /\ saved' = saved \cup {"image"}
    /\ UNCHANGED <<latest, manager, service, pointCompose, asideImage, asideCompose, tagged, lock,
                   doing, target, before, op, faults>>

\* Bug: the file that is remembered is the new one.
RememberComposeLate ==
    /\ step = "compose" /\ Go(IF lock = "operator" THEN "watchtower" ELSE "refresh")
    /\ pointCompose' = manager /\ saved' = saved \cup {"compose"}
    /\ UNCHANGED <<latest, manager, service, pointImage, asideImage, asideCompose, tagged, op,
                   faults>>

\* assets::remember_compose.
RememberCompose ==
    /\ step = "compose" /\ Go(IF lock = "operator" THEN "watchtower" ELSE "refresh")
    /\ pointCompose' = compose /\ saved' = saved \cup {"compose"}
    /\ UNCHANGED <<latest, manager, service, pointImage, asideImage, asideCompose, tagged, op,
                   faults>>

\* refresh_embedded_assets.
RefreshAssets ==
    /\ step = "refresh" /\ Go("pull")
    /\ compose' = manager
    /\ UNCHANGED <<world, running, pulled, point, op, faults>>

Pull ==
    /\ step = "pull" /\ Go("up")
    /\ pulled' = latest
    /\ UNCHANGED <<world, running, compose, point, op, faults>>

\* Bug: a failed pull leaves the new compose file in place.
PullFailsForgetting ==
    /\ step = "pull" /\ Return("failed")
    /\ UNCHANGED <<world, service, point, faults>>

PullFails ==
    /\ step = "pull" /\ Return("failed")
    /\ compose' = Restored
    /\ UNCHANGED <<world, running, pulled, point, faults>>

Up ==
    /\ step = "up" /\ Go("health")
    /\ running' = pulled
    /\ UNCHANGED <<world, pulled, compose, point, op, faults>>

Healthy ==
    /\ step = "health" /\ running \in Good /\ Return("completed")
    /\ UNCHANGED <<world, service, point, faults>>

\* rollback_failed_update: to the rollback point, or without one to the old compose file.
GiveUp == Go(IF hasPoint THEN "read" ELSE "restore")

\* compose up fails, with the old container still there, gone, or replaced but not started.
UpFails ==
    /\ step = "up" /\ GiveUp
    /\ running' \in {running, None}
    /\ UNCHANGED <<world, pulled, compose, point, op, faults>>

Unhealthy ==
    /\ step = "health" /\ GiveUp
    /\ UNCHANGED <<world, service, point, op, faults>>

RestoreOnly ==
    /\ step = "restore" /\ Return("failed")
    /\ compose' = Restored
    /\ UNCHANGED <<world, running, pulled, point, faults>>

\* The operator's update: Watchtower pulls and, if there is something new, recreates the
\* container.
Watchtower ==
    /\ step = "watchtower" /\ Return("completed")
    /\ pulled' = latest /\ running' \in {running, latest}
    /\ UNCHANGED <<world, compose, point, faults>>

\* The request to Watchtower times out after 120 seconds; Watchtower goes on.
WatchtowerTimesOut ==
    /\ step = "watchtower" /\ Fault
    /\ Release /\ thread' = "failed" /\ late' = TRUE
    /\ UNCHANGED <<world, service, point, phase>>

WatchtowerLate ==
    /\ late /\ late' = FALSE
    /\ pulled' = latest /\ running' = latest
    /\ UNCHANGED <<world, compose, point, holder, thread, phase, faults>>

------------------------------------------------------------------------------
(* do_rollback: on its own and at the end of a failed update. *)

NoPoint ==
    /\ step = "read"
    /\ IF pointImage = None THEN TRUE ELSE tagged[pointImage] = None
    /\ Return("failed")
    /\ UNCHANGED <<world, service, point, faults>>

ReadPoint ==
    /\ step = "read" /\ pointImage # None /\ tagged[pointImage] # None
    /\ target' = pointImage
    /\ compose' = Restored
    /\ step' = "switch"
    /\ UNCHANGED <<world, running, pulled, point, lock, doing, hasPoint, before, op, faults>>

Switch ==
    /\ step = "switch" /\ Go("recheck")
    /\ running' = tagged[target]
    /\ UNCHANGED <<world, pulled, compose, point, op, faults>>

SwitchFails ==
    /\ step = "switch" /\ Fault /\ Return("failed")
    /\ running' \in {running, None}
    /\ UNCHANGED <<world, pulled, compose, point>>

\* The health check after a rollback asks 127.0.0.1, where in the operator's own container
\* nothing listens: there it always fails.
Rechecked ==
    /\ step = "recheck"
    /\ \/ lock # "operator" /\ running \in Good /\ Return("completed")
       \/ Return("failed")
    /\ UNCHANGED <<world, service, point, faults>>

------------------------------------------------------------------------------
(* delete_rollback_point, in the request thread of the operator. *)

Delete ==
    /\ ~Busy /\ pointImage # None /\ asideImage = None /\ asideCompose = None
    /\ Begin("deleter", "delete", "stage")
    /\ UNCHANGED <<world, service, point, op, faults>>

\* Bug: the image's file is copied, not moved.
StageCopy ==
    /\ step = "stage" /\ step' = IF pointCompose = None THEN "remove" ELSE "stageCompose"
    /\ target' = pointImage /\ asideImage' = pointImage
    /\ UNCHANGED <<world, service, pointImage, pointCompose, asideCompose, tagged, lock, doing,
                   hasPoint, before, op, faults>>

StageImage ==
    /\ step = "stage" /\ step' = IF pointCompose = None THEN "remove" ELSE "stageCompose"
    /\ target' = pointImage
    /\ asideImage' = pointImage /\ pointImage' = None
    /\ UNCHANGED <<world, service, pointCompose, asideCompose, tagged, lock, doing, hasPoint,
                   before, op, faults>>

StageCompose ==
    /\ step = "stageCompose" /\ Go("remove")
    /\ asideCompose' = pointCompose /\ pointCompose' = None
    /\ UNCHANGED <<world, service, pointImage, asideImage, tagged, op, faults>>

\* docker image rm.
RemoveImage ==
    /\ step = "remove" /\ Go("clean")
    /\ tagged' = [tagged EXCEPT ![target] = None]
    /\ UNCHANGED <<world, service, pointImage, pointCompose, asideImage, asideCompose, op, faults>>

\* Bug: only the image's file is moved back.
RemoveRefusedKeepingImage ==
    /\ step = "remove" /\ Go("keepImage")
    /\ UNCHANGED <<world, service, point, op, faults>>

\* Docker refuses.
RemoveRefused ==
    /\ step = "remove" /\ Go("keepCompose")
    /\ UNCHANGED <<world, service, point, op, faults>>

\* restore_staged_rollback: the compose file, if it was moved, and the image's file are moved
\* back.
KeepCompose ==
    /\ step = "keepCompose" /\ Go("keepImage")
    /\ pointCompose' = (IF asideCompose = None THEN pointCompose ELSE asideCompose)
    /\ asideCompose' = None
    /\ UNCHANGED <<world, service, pointImage, asideImage, tagged, op, faults>>

KeepImage ==
    /\ step = "keepImage" /\ Return("failed")
    /\ pointImage' = asideImage /\ asideImage' = None
    /\ UNCHANGED <<world, service, pointCompose, asideCompose, tagged, faults>>

\* remove_file of the two moved files, the compose file first.
Clean ==
    /\ step = "clean"
    /\ IF asideCompose # None
       THEN asideCompose' = None /\ UNCHANGED <<asideImage, holder, op>>
       ELSE asideImage' = None /\ Return("completed") /\ UNCHANGED asideCompose
    /\ UNCHANGED <<world, service, pointImage, pointCompose, tagged, faults>>

\* A file cannot be moved or removed.  When the compose file cannot be moved aside, the image's
\* file is moved back; when it cannot be moved back, the image's file still is.
DeletionFails ==
    /\ step \in {"stage", "stageCompose", "keepCompose", "keepImage", "clean"} /\ Fault
    /\ IF step \in {"stageCompose", "keepCompose"} THEN Go("keepImage") /\ UNCHANGED op ELSE Return("failed")
    /\ UNCHANGED <<world, service, point>>

------------------------------------------------------------------------------
(* Around them. *)

Publish ==
    /\ latest < LastVersion /\ latest' = latest + 1
    /\ UNCHANGED <<manager, saved, service, point, holder, op, faults>>

\* imyemail stop and imyemail start, under the lock from beginning to end.
Stop  == lock = "free" /\ running' = None
         /\ UNCHANGED <<world, pulled, compose, point, holder, op, faults>>
Start == lock = "free" /\ running' = pulled
         /\ UNCHANGED <<world, pulled, compose, point, holder, op, faults>>

\* A manager is killed; the kernel frees its lock.
CliKilled ==
    /\ lock = "cli" /\ Fault /\ Release
    /\ UNCHANGED <<world, service, point, op>>

\* The operator's container is killed and restarted: its OperationState is lost.
OperatorKilled ==
    /\ Fault
    /\ IF lock = "cli" THEN UNCHANGED holder ELSE Release
    /\ phase' = "idle" /\ thread' = "none"
    /\ UNCHANGED <<world, service, point, late>>

DeleterStep == StageImage \/ StageCompose \/ RemoveImage \/ RemoveRefused \/ KeepCompose \/ KeepImage
               \/ Clean
Work ==
    \/ SelfUpdate \/ Backup \/ Tag \/ NothingToTag \/ WritePoint \/ RememberCompose
    \/ RefreshAssets \/ Pull \/ PullFails \/ Up \/ UpFails \/ Healthy \/ Unhealthy \/ RestoreOnly
    \/ Watchtower \/ NoPoint \/ ReadPoint \/ Switch \/ Rechecked \/ DeleterStep
OperatorTurn == OperatorLocks \/ OperatorLockedOut \/ OperatorFinishes

Next ==
    \/ CliUpdate \/ CliRollback \/ CliKilled
    \/ \E what \in {"update", "rollback"} : OperatorStart(what)
    \/ OperatorTurn \/ Delete \/ OperatorKilled
    \/ Work \/ EarlyFailure \/ SwitchFails \/ DeletionFails \/ WatchtowerTimesOut \/ WatchtowerLate
    \/ Publish \/ Stop \/ Start

Spec == Init /\ [][Next]_vars

\* Processes that are not killed go on: a docker command or an HTTP request comes back.
FairSpec == Spec /\ WF_vars(OperatorTurn) /\ WF_vars(Work)

------------------------------------------------------------------------------
(* Properties. *)

NoVersion == Versions \cup {None}
NoTag     == Tags \cup {None}
TypeOK ==
    /\ latest \in Versions /\ manager \in Versions /\ pulled \in Versions /\ compose \in Versions
    /\ running \in NoVersion /\ tagged \in [Tags -> NoVersion]
    /\ pointImage \in NoTag /\ asideImage \in NoTag
    /\ pointCompose \in NoVersion /\ asideCompose \in NoVersion
    /\ lock \in {"free", "cli", "operator", "deleter"}
    /\ doing \in {"nothing", "update", "rollback", "delete"}
    /\ step \in {"done", "manager", "backup", "tag", "point", "compose", "refresh", "pull", "up",
                 "health", "restore", "watchtower", "read", "switch", "recheck", "stage",
                 "stageCompose", "remove", "keepCompose", "keepImage", "clean"}
    /\ hasPoint \in BOOLEAN /\ target \in NoTag
    /\ before \in [image : NoVersion, compose : NoVersion, point : NoVersion]
    /\ thread \in {"none", "update", "rollback", "working", "completed", "failed"}
    /\ phase \in {"idle", "preparing", "running", "completed", "failed"}
    /\ late \in BOOLEAN /\ saved \subseteq {"image", "compose"} /\ faults \in 0..MaxFaults

\* The rollback point, when there is one, names an image that exists, whatever is killed in the
\* middle of an update or a deletion.
PointHasImage == pointImage # None => tagged[pointImage] # None

\* An update from the command line that ends without success, without being killed and without
\* Watchtower at work beside it, puts the compose file back, and the release too if it had a
\* rollback point and docker could start it.  An update that ends because a command cannot be
\* run at all (EarlyFailure, counted in faults) puts nothing back.
UpdateFailureRestores ==
    [][lock = "cli" /\ doing = "update" /\ step \in {"pull", "read", "recheck", "restore"}
         /\ lock' = "free" /\ faults' = faults
       => /\ compose' = before.compose
          /\ hasPoint /\ faults = 0 => running' = before.image]_vars

\* A deletion that docker refuses, or that cannot move the compose file aside, leaves the
\* rollback point as it was; its compose file stays aside only if moving it back failed too.
RefusedDeletionKeepsPoint ==
    [][doing = "delete" /\ step = "keepImage" /\ lock' = "free" /\ faults' = faults
         => /\ pointImage' = target /\ tagged'[pointImage'] # None /\ asideImage' = None
            /\ \/ pointCompose' = before.point /\ asideCompose' = None
               \/ faults > 0 /\ pointCompose' = None /\ asideCompose' = before.point]_vars

\* The rollback point can be gone back to at all times: it names an image that is there, and a
\* deletion that is refused half-way leaves it as it was.
PointIsKept == []PointHasImage /\ RefusedDeletionKeepsPoint

\* What the administration page is told has no end otherwise: an operation does not stay busy.
OperationEnds == Busy ~> ~Busy

\* Two promises the code does not keep: TLC refutes either with MCSystemUpdate.cfg.
\* main.rs: a rollback goes back to the image and the compose file of before the last update.
RollbackRestoresOneUpdate ==
    [][doing = "rollback" /\ step = "switch" /\ step' = "recheck" /\ "compose" \in saved
         => "image" \in saved]_vars

\* operator.rs: an operator's rollback that switches to a healthy release is completed.
SwitchedRollbackCompletes ==
    [][doing = "rollback" /\ lock = "operator" /\ step = "recheck" /\ running \in Good
       => thread' # "failed"]_vars
=============================================================================
