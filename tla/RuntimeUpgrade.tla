--------------------------- MODULE RuntimeUpgrade ---------------------------
(***************************************************************************)
(* The upgrade of the managed Python runtime, in place or by a rebuild of  *)
(* the virtual environment, its commit, its rollbacks, and the recovery at *)
(* the next launch from an upgrade that was interrupted (tool_manager.rs,  *)
(* state.rs).                                                              *)
(*                                                                         *)
(* The state is what is on the disk: the live environment and its backup,  *)
(* the receipt that says what is installed, the dependency lock, a backup  *)
(* of each, the marker of an upgrade in progress and the launch profile.   *)
(* A step changes one file or runs one command; the process may be killed  *)
(* between two steps and inside the ones that are not atomic (pip, the     *)
(* removal of a directory, the copy of a receipt).  There are two versions *)
(* of headroom-ai, the one installed at first and the one this app version *)
(* pins, and likewise two dependency locks.                                *)
(***************************************************************************)
EXTENDS Naturals

CONSTANTS
    NoFile,
    MaxAttempts,    \* MAX_UPGRADE_AUTO_RETRIES
    Faults,         \* the kinds of faults that may occur
    MaxFaults       \* bound on their number

ASSUME UpgradeAssumption ==
    /\ Faults \subseteq {"crash", "tear", "offline", "smoke", "boot", "io", "user"}
    /\ MaxFaults \in Nat /\ MaxAttempts \in Nat \ {0}

VARIABLES
    venv, backup,               \* venv/ and venv.backup/
    receipt, receiptBackup,     \* headroom.json and its backup
    lock, lockBackup,           \* headroom-requirements.lock and its backup
    marker,                     \* upgrade.in_progress.json
    stamped,                    \* last_launched_app_version is this app's
    failure,                    \* attempts of last_runtime_upgrade_failure
    pc,
    mode,                       \* what is being undone, and for whom
    how,                        \* the kind of maintenance under way
    intact,                     \* no step of the undoing failed so far
    online, faults,
    belowFloor,                 \* the version installed at first needs a rebuild
    before                      \* history: what the upgrade found

files == <<receipt, receiptBackup, lock, lockBackup, marker>>
disk == <<venv, backup, files>>
profile == <<stamped, failure>>
vars == <<disk, profile, pc, mode, how, intact, online, faults, belowFloor, before>>

Absent == [app |-> "none", deps |-> "none", ready |-> FALSE]
Present(v) == v.app # "none"

\* What a removal leaves that is cut short or fails half-way.
Remains(v) == {[app |-> "torn", deps |-> "mixed", ready |-> r] : r \in {v.ready, FALSE}}

\* A receipt that was cut short while it was copied, and that does not parse.
Torn == [version |-> "torn", lock |-> "torn"]

\* Nothing in it is half installed or half removed.
Sound(v) == v.app \in {"old", "new"} /\ v.deps \in {"old", "new"}

Init ==
    /\ \E app, deps \in {"old", "new"} :
          /\ <<app, deps>> # <<"new", "new">>
          /\ venv = [app |-> app, deps |-> deps, ready |-> TRUE]
          /\ receipt = [version |-> app, lock |-> deps]
          /\ lock = deps
    /\ belowFloor \in BOOLEAN
    /\ backup = Absent
    /\ receiptBackup = NoFile /\ lockBackup = NoFile /\ marker = NoFile
    /\ stamped = FALSE /\ failure = NoFile
    /\ pc = "off" /\ mode = "launch" /\ how = "inPlace" /\ intact = TRUE
    /\ online = TRUE /\ faults = [count |-> 0, kinds |-> {}]
    /\ before = [venv |-> Absent, receipt |-> NoFile, lock |-> NoFile]

At(step) == pc = step
Go(step) == pc' = step
Fault(kind) ==
    /\ kind \in Faults /\ faults.count < MaxFaults
    /\ faults' = [count |-> faults.count + 1, kinds |-> faults.kinds \cup {kind}]
Only(kinds) == faults.kinds \subseteq kinds

locals == <<mode, how, intact, before>>
world == <<online, belowFloor>>

MarkedAs(kind) == marker # NoFile /\ marker.kind = kind
-----------------------------------------------------------------------------
\* What has to be done for this app version (the receipt is all it looks at).
InstalledOld == receipt # NoFile /\ receipt.version = "old"
RequirementsStale == receipt = NoFile \/ receipt.lock # "new"
\* Mutant: one automatic retry too many.
ExhaustedLate == failure # NoFile /\ failure > MaxAttempts

Exhausted == failure # NoFile /\ failure >= MaxAttempts

Plan ==
    IF stamped \/ Exhausted THEN "none"
    ELSE IF InstalledOld THEN "upgrade"
    ELSE IF RequirementsStale THEN "repair" ELSE "none"

\* warm_runtime_on_launch: recovery first, then the maintenance.
Launch ==
    /\ At("off")
    /\ Go("recover") /\ mode' = "launch"
    /\ UNCHANGED <<disk, profile, how, intact, before, world, faults>>

Launched ==
    /\ At("launched")
    /\ IF ~venv.ready
       THEN Go("running") /\ UNCHANGED <<stamped, how>>
       ELSE \/ /\ Plan = "none"
               /\ stamped' = (stamped \/ failure = NoFile)
               /\ Go("running") /\ UNCHANGED how
            \/ /\ Plan = "upgrade"
               /\ how' = "inPlace" /\ Go("upgrade") /\ UNCHANGED stamped
            \/ /\ Plan = "repair"
               /\ how' = "repair" /\ Go("putLock") /\ UNCHANGED stamped
    /\ UNCHANGED <<disk, failure, mode, intact, before, world, faults>>

\* request_runtime_upgrade, retry_runtime_upgrade ("with full rebuild" too) and
\* dismiss_upgrade_failure.  Without a usable environment the setup wizard has
\* the window.
User == At("running") /\ venv.ready /\ Fault("user")

RequestUpgrade ==
    /\ User
    /\ stamped' = FALSE
    /\ IF InstalledOld /\ ~Exhausted
       THEN how' = "inPlace" /\ Go("upgrade")
       ELSE UNCHANGED <<how, pc>>
    /\ UNCHANGED <<disk, failure, mode, intact, before, world>>

RetryUpgrade ==
    /\ User /\ failure # NoFile
    /\ failure' = 0
    /\ \/ /\ ~stamped /\ InstalledOld
          /\ how' \in {"inPlace", "rebuild"} /\ Go("upgrade") /\ UNCHANGED stamped
       \/ /\ ~stamped /\ ~InstalledOld /\ RequirementsStale
          /\ how' = "repair" /\ Go("putLock") /\ UNCHANGED stamped
       \/ /\ stamped \/ (~InstalledOld /\ ~RequirementsStale)
          /\ stamped' = TRUE
          /\ UNCHANGED <<how, pc>>
    /\ UNCHANGED <<disk, mode, intact, before, world>>

DismissFailure ==
    /\ User /\ failure # NoFile
    /\ failure' = NoFile
    /\ UNCHANGED <<disk, stamped, pc, locals, world>>

Quit ==
    /\ At("running")
    /\ Go("off")
    /\ UNCHANGED <<disk, profile, locals, world, faults>>
-----------------------------------------------------------------------------
\* Undoing.  recover_from_interrupted_upgrade (at launch, or first thing in an
\* upgrade), rollback_in_place_upgrade_inner and rollback_partial_upgrade (a
\* failed install) and rollback_headroom_upgrade (a failed boot) undo the same
\* things; mode says for whom, and where they differ.
Recovering == mode \in {"launch", "resume"}
HasLock == marker.kind = "inPlace" /\ marker.lock

\* Where the caller goes on.
Back ==
    IF mode = "launch" THEN "launched" ELSE IF mode = "resume" THEN "prepare" ELSE "failed"

\* A step that fails ends the undoing, except in the rollback of a failed
\* in-place install, which goes on with the rest.
Give(next) ==
    /\ intact' = FALSE
    /\ Go(IF mode = "inner" THEN next ELSE Back)

UndoInPlace == Go(IF HasLock THEN "undoDeps" ELSE "undoWheel")
UndoRebuild == Go(IF Present(venv) THEN "undoRemove" ELSE "undoRename")

Recover ==
    /\ At("recover")
    /\ intact' = TRUE
    /\ \/ marker = NoFile /\ Go(Back)
       \/ MarkedAs("inPlace") /\ UndoInPlace
       \/ MarkedAs("rebuild") /\ Present(backup) /\ UndoRebuild
       \/ MarkedAs("rebuild") /\ ~Present(backup) /\ Go(Back)
    /\ UNCHANGED <<disk, profile, mode, how, before, world, faults>>

Rollback ==
    /\ At("rollback")
    /\ mode' = "rollback" /\ intact' = TRUE
    /\ \/ MarkedAs("inPlace") /\ UndoInPlace
       \/ ~(MarkedAs("inPlace"))
          /\ IF Present(backup) THEN UndoRebuild ELSE Go("failed")
    /\ UNCHANGED <<disk, profile, how, before, world, faults>>

\* pip_restore_deps_from_backup: pip reads the lock backup.
UndoDeps ==
    /\ At("undoDeps")
    /\ \/ /\ online /\ lockBackup # NoFile
          /\ venv' = [venv EXCEPT !.deps = lockBackup]
          /\ Go(IF Recovering THEN "undoWheel" ELSE "undoLock")
          /\ UNCHANGED intact
       \/ /\ ~online /\ lockBackup # NoFile
          /\ venv' \in {venv, [venv EXCEPT !.deps = "mixed"]}
          /\ Give("undoLock")
       \/ /\ lockBackup = NoFile
          /\ UNCHANGED venv
          /\ Give("undoLock")
    /\ UNCHANGED <<backup, files, profile, mode, how, before, world, faults>>

\* pip_force_reinstall_headroom_version.
UndoWheel ==
    /\ At("undoWheel")
    /\ \/ /\ online
          /\ venv' = [venv EXCEPT !.app = marker.version]
          /\ Go(IF Recovering /\ HasLock THEN "undoLock" ELSE "undoReceipt")
          /\ UNCHANGED intact
       \/ /\ ~online
          /\ UNCHANGED venv
          /\ Give("undoReceipt")
    /\ UNCHANGED <<backup, files, profile, mode, how, before, world, faults>>

\* The lock snapshot goes back and, unless the dependencies could not be
\* restored, is removed.
AfterLock == IF Recovering THEN "undoReceipt" ELSE "undoWheel"

UndoLock ==
    /\ At("undoLock")
    /\ \/ /\ lockBackup # NoFile
          /\ lock' = lockBackup
          /\ Go(IF intact THEN "dropLockBackup" ELSE AfterLock)
          /\ UNCHANGED <<intact, faults>>
       \/ /\ lockBackup = NoFile
          /\ Give(AfterLock)
          /\ UNCHANGED <<lock, faults>>
       \/ /\ Fault("io")
          /\ Give(AfterLock)
          /\ UNCHANGED lock
    /\ UNCHANGED <<venv, backup, receipt, receiptBackup, lockBackup, marker, profile,
                   mode, how, before, world>>

DropLockBackup ==
    /\ At("dropLockBackup")
    /\ \/ lockBackup' = NoFile /\ Go(AfterLock) /\ UNCHANGED <<intact, faults>>
       \/ Fault("io") /\ Give(AfterLock) /\ UNCHANGED lockBackup
    /\ UNCHANGED <<venv, backup, receipt, receiptBackup, lock, marker, profile, mode, how,
                   before, world>>

\* The rebuilt environment is removed and the one moved aside comes back.
UndoRemove ==
    /\ At("undoRemove")
    /\ \/ venv' = Absent /\ Go("undoRename") /\ UNCHANGED <<intact, faults>>
       \/ Fault("io") /\ Give("undoRename") /\ venv' \in {venv} \cup Remains(venv)
    /\ UNCHANGED <<backup, files, profile, mode, how, before, world>>

UndoRename ==
    /\ At("undoRename")
    /\ \/ /\ Present(backup)
          /\ venv' = backup /\ backup' = Absent
          /\ Go("undoReceipt")
          /\ UNCHANGED <<intact, faults>>
       \/ /\ Present(backup)
          /\ Fault("io") /\ Give("undoReceipt")
          /\ UNCHANGED <<venv, backup>>
       \/ /\ ~Present(backup)
          /\ Go("undoReceipt")
          /\ UNCHANGED <<venv, backup, intact, faults>>
    /\ UNCHANGED <<files, profile, mode, how, before, world>>

UndoReceipt ==
    /\ At("undoReceipt")
    /\ \/ /\ receiptBackup # NoFile
          /\ receipt' = receiptBackup
          /\ Go("dropReceiptBackup")
          /\ UNCHANGED <<intact, faults>>
       \/ /\ receiptBackup # NoFile
          /\ Fault("io") /\ Give("clearMarker")
          /\ receipt' \in {receipt, Torn}
       \/ /\ receiptBackup = NoFile
          /\ Go("clearMarker")
          /\ UNCHANGED <<receipt, intact, faults>>
    /\ UNCHANGED <<venv, backup, receiptBackup, lock, lockBackup, marker, profile, mode,
                   how, before, world>>

DropReceiptBackup ==
    /\ At("dropReceiptBackup")
    /\ \/ receiptBackup' = NoFile /\ Go("clearMarker") /\ UNCHANGED <<intact, faults>>
       \/ /\ Fault("io") /\ UNCHANGED receiptBackup
          /\ IF mode = "rollback" /\ MarkedAs("inPlace")
             THEN Go("clearMarker") /\ UNCHANGED intact
             ELSE Give("clearMarker")
    /\ UNCHANGED <<venv, backup, receipt, lock, lockBackup, marker, profile, mode, how,
                   before, world>>

\* Mutant: the marker goes although a step of the undoing failed.
ClearMarkerAnyway ==
    /\ At("clearMarker")
    /\ marker' = NoFile
    /\ Go(Back)
    /\ UNCHANGED <<venv, backup, receipt, receiptBackup, lock, lockBackup, profile,
                   locals, world, faults>>

ClearMarker ==
    /\ At("clearMarker")
    /\ marker' = IF intact THEN NoFile ELSE marker
    /\ Go(Back)
    /\ UNCHANGED <<venv, backup, receipt, receiptBackup, lock, lockBackup, profile,
                   locals, world, faults>>

Undo ==
    \/ Recover \/ Rollback \/ UndoDeps \/ UndoWheel \/ UndoLock \/ DropLockBackup
    \/ UndoRemove \/ UndoRename \/ UndoReceipt \/ DropReceiptBackup \/ ClearMarker
-----------------------------------------------------------------------------
\* atomic_upgrade_headroom: what recovery answers is not looked at.
Upgrade ==
    /\ At("upgrade")
    /\ Go("recover") /\ mode' = "resume"
    /\ UNCHANGED <<disk, profile, how, intact, before, world, faults>>

LockDiffers == receipt.lock # "new"

\* prepare_in_place_upgrade.
Prepare ==
    /\ At("prepare")
    /\ before' = [venv |-> venv, receipt |-> receipt, lock |-> lock]
    /\ intact' = TRUE
    /\ \/ /\ how = "inPlace" /\ receipt \notin {NoFile, Torn}
          /\ ~(belowFloor /\ receipt.version = "old")
          /\ IF LockDiffers
             THEN lockBackup' = NoFile /\ Go("snapshotLock")
             ELSE UNCHANGED lockBackup /\ Go("snapshotReceipt")
          /\ UNCHANGED how
       \/ /\ \/ how = "rebuild" \/ receipt \in {NoFile, Torn}
             \/ belowFloor /\ receipt.version = "old"
          /\ how' = "rebuild" /\ Go("purge")
          /\ UNCHANGED lockBackup
    /\ UNCHANGED <<venv, backup, receipt, receiptBackup, lock, marker, profile, mode,
                   world, faults>>

SnapshotLock ==
    /\ At("snapshotLock")
    /\ \/ lockBackup' = lock /\ Go("snapshotReceipt") /\ UNCHANGED <<how, faults>>
       \/ Fault("io") /\ how' = "rebuild" /\ Go("purge") /\ UNCHANGED lockBackup
    /\ UNCHANGED <<venv, backup, receipt, receiptBackup, lock, marker, profile, mode,
                   intact, before, world>>

\* in_place_upgrade_headroom up to the marker.
SnapshotReceipt ==
    /\ At("snapshotReceipt")
    /\ \/ /\ receiptBackup' = receipt
          /\ Go("mark")
          /\ UNCHANGED <<lockBackup, faults>>
       \/ /\ Fault("io")
          /\ receiptBackup' = NoFile
          /\ lockBackup' = IF LockDiffers THEN NoFile ELSE lockBackup
          /\ Go("failed")
    /\ UNCHANGED <<venv, backup, receipt, lock, marker, profile, locals, world>>

\* Mutant: the marker does not say that the dependencies change too.
MarkForgetsLock ==
    /\ At("mark")
    /\ marker' = [kind |-> "inPlace", version |-> receipt.version, lock |-> FALSE]
    /\ Go(IF LockDiffers THEN "putLock" ELSE "wheel")
    /\ UNCHANGED <<venv, backup, receipt, receiptBackup, lock, lockBackup, profile,
                   locals, world, faults>>

Mark ==
    /\ At("mark")
    /\ \/ /\ marker' = [kind |-> "inPlace", version |-> receipt.version,
                        lock |-> LockDiffers]
          /\ Go(IF LockDiffers THEN "putLock" ELSE "wheel")
          /\ UNCHANGED <<receiptBackup, lockBackup, faults>>
       \/ /\ Fault("io")
          /\ receiptBackup' = NoFile
          /\ lockBackup' = IF LockDiffers THEN NoFile ELSE lockBackup
          /\ Go("failed")
          /\ UNCHANGED marker
    /\ UNCHANGED <<venv, backup, receipt, lock, profile, locals, world>>

\* The rebuild up to the fresh environment.
Purge ==
    /\ At("purge")
    /\ \/ /\ backup' = Absent /\ receiptBackup' = NoFile
          /\ Go(IF Present(venv) THEN "markRebuild" ELSE "snapshot")
          /\ UNCHANGED <<intact, faults>>
       \/ /\ Fault("io")                                     \* the disk is full
          /\ backup' = Absent /\ receiptBackup' = NoFile
          /\ Go("failed") /\ intact' = FALSE
       \/ /\ Present(backup) /\ Fault("io")                  \* the old backup stays
          /\ backup' \in {backup} \cup Remains(backup)
          /\ Go("failed") /\ intact' = FALSE
          /\ UNCHANGED receiptBackup
    /\ UNCHANGED <<venv, receipt, lock, lockBackup, marker, profile, mode, how, before,
                   world>>

\* Mutant: no marker before the environment is moved aside.
MarkRebuildNever ==
    /\ At("markRebuild")
    /\ Go("aside")
    /\ UNCHANGED <<disk, profile, locals, world, faults>>

MarkRebuild ==
    /\ At("markRebuild")
    /\ \/ /\ marker' = [kind |-> "rebuild", version |-> "new", lock |-> FALSE]
          /\ Go("aside")
          /\ UNCHANGED <<intact, faults>>
       \/ /\ Fault("io") /\ intact' = FALSE
          /\ Go("failed")
          /\ UNCHANGED marker
    /\ UNCHANGED <<venv, backup, receipt, receiptBackup, lock, lockBackup, profile, mode,
                   how, before, world>>

MoveAside ==
    /\ At("aside")
    /\ \/ /\ backup' = venv /\ venv' = Absent
          /\ Go("snapshot")
          /\ UNCHANGED <<marker, intact, faults>>
       \/ /\ Fault("io") /\ marker' = NoFile /\ intact' = FALSE
          /\ Go("failed")
          /\ UNCHANGED <<venv, backup>>
    /\ UNCHANGED <<receipt, receiptBackup, lock, lockBackup, profile, mode, how, before,
                   world>>

Snapshot ==
    /\ At("snapshot")
    /\ \/ /\ receiptBackup' = receipt
          /\ Go("create")
          /\ UNCHANGED <<venv, backup, faults>>
       \/ /\ Fault("io")
          /\ venv' = backup /\ backup' = Absent
          /\ receiptBackup' \in {receiptBackup, Torn}
          /\ Go("failed")
    /\ UNCHANGED <<receipt, lock, lockBackup, marker, profile, locals, world>>

\* A failed install is undone in place or by the backup; a failed repair is not.
UndoInstall ==
    /\ intact' = (how # "repair")
    /\ \/ how = "inPlace" /\ mode' = "inner" /\ UndoInPlace
       \/ how = "rebuild" /\ mode' = "partial" /\ UndoRebuild
       \/ how = "repair" /\ UNCHANGED mode /\ Go("failed")

Create ==
    /\ At("create")
    /\ venv' = [app |-> "torn", deps |-> "mixed", ready |-> FALSE]
    /\ \/ Go("putLock") /\ UNCHANGED <<mode, intact, faults>>
       \/ Fault("io") /\ UndoInstall
    /\ UNCHANGED <<backup, files, profile, how, before, world>>

\* The install itself: lock, dependencies, wheel, smoke test, receipt, in an
\* order that depends on the way taken.
PutLock ==
    /\ At("putLock")
    /\ \/ lock' = "new" /\ Go("deps") /\ UNCHANGED <<mode, intact, faults>>
       \/ Fault("io") /\ UndoInstall /\ UNCHANGED lock
    /\ UNCHANGED <<venv, backup, receipt, receiptBackup, lockBackup, marker, profile,
                   how, before, world>>

InstallDeps ==
    /\ At("deps")
    /\ \/ /\ online
          /\ venv' = [venv EXCEPT !.deps = "new"]
          /\ Go(IF how = "repair" THEN "putReceipt" ELSE "wheel")
          /\ UNCHANGED <<mode, intact>>
       \/ /\ ~online
          /\ venv' \in {venv, [venv EXCEPT !.deps = "mixed"]}
          /\ UndoInstall
    /\ UNCHANGED <<backup, files, profile, how, before, world, faults>>

InstallWheel ==
    /\ At("wheel")
    /\ \/ /\ online
          /\ venv' = [venv EXCEPT !.app = "new"]
          /\ Go(IF how = "inPlace" THEN "smoke" ELSE "putReceipt")
          /\ UNCHANGED <<mode, intact>>
       \/ /\ ~online
          /\ UNCHANGED venv
          /\ UndoInstall
    /\ UNCHANGED <<backup, files, profile, how, before, world, faults>>

SmokeTest ==
    /\ At("smoke")
    /\ \/ /\ Go(IF how = "inPlace" THEN "putReceipt" ELSE "stampReady")
          /\ UNCHANGED <<mode, intact, faults>>
       \/ Fault("smoke") /\ UndoInstall
    /\ UNCHANGED <<disk, profile, how, before, world>>

\* update_headroom_receipt_after_requirements_repair passes over what does not parse.
Repaired(r) == IF r = Torn THEN r ELSE [r EXCEPT !.lock = "new"]

PutReceipt ==
    /\ At("putReceipt")
    /\ \/ /\ receipt' = IF how = "repair" THEN Repaired(receipt)
                                          ELSE [version |-> "new", lock |-> "new"]
          /\ Go(IF how = "rebuild" THEN "smoke" ELSE "boot")
          /\ UNCHANGED <<mode, intact, faults>>
       \/ Fault("io") /\ UndoInstall /\ UNCHANGED receipt
    /\ UNCHANGED <<venv, backup, receiptBackup, lock, lockBackup, marker, profile, how,
                   before, world>>

StampReady ==
    /\ At("stampReady")
    /\ \/ venv' = [venv EXCEPT !.ready = TRUE] /\ Go("boot") /\ UNCHANGED <<mode, intact, faults>>
       \/ Fault("io") /\ UndoInstall /\ UNCHANGED venv
    /\ UNCHANGED <<backup, files, profile, how, before, world>>

Install ==
    \/ Upgrade \/ Prepare \/ SnapshotLock \/ SnapshotReceipt \/ Mark \/ Purge
    \/ MarkRebuild \/ MoveAside \/ Snapshot \/ Create \/ PutLock \/ InstallDeps
    \/ InstallWheel \/ SmokeTest \/ PutReceipt \/ StampReady
-----------------------------------------------------------------------------
\* Boot validation, and what follows it.
BootValidation ==
    /\ At("boot")
    /\ \/ /\ Go(IF how = "repair" THEN "done" ELSE "commitBackup")
          /\ UNCHANGED <<intact, faults>>
       \/ /\ Fault("boot")
          /\ IF how = "repair" THEN Go("failed") /\ intact' = FALSE
                               ELSE Go("rollback") /\ UNCHANGED intact
    /\ UNCHANGED <<disk, profile, mode, how, before, world>>

\* commit_headroom_upgrade: four removals in this order.
CommitBackup ==
    /\ At("commitBackup")
    /\ \/ backup' = Absent /\ UNCHANGED faults
       \/ Present(backup) /\ Fault("io") /\ UNCHANGED backup
    /\ Go("commitReceipt")
    /\ UNCHANGED <<venv, files, profile, locals, world>>

CommitReceipt ==
    /\ At("commitReceipt")
    /\ receiptBackup' = NoFile
    /\ Go("commitLock")
    /\ UNCHANGED <<venv, backup, receipt, lock, lockBackup, marker, profile, locals,
                   world, faults>>

CommitLock ==
    /\ At("commitLock")
    /\ lockBackup' = NoFile
    /\ Go("commitMarker")
    /\ UNCHANGED <<venv, backup, receipt, receiptBackup, lock, marker, profile, locals,
                   world, faults>>

CommitMarker ==
    /\ At("commitMarker")
    /\ marker' = NoFile
    /\ Go("done")
    /\ UNCHANGED <<venv, backup, receipt, receiptBackup, lock, lockBackup, profile,
                   locals, world, faults>>

\* stamp_app_version and clear_upgrade_failure.
Done ==
    /\ At("done")
    /\ stamped' = TRUE /\ failure' = NoFile
    /\ Go("running")
    /\ UNCHANGED <<disk, locals, world, faults>>

\* Mutant: every failure is recorded as the first.
FailedAfresh ==
    /\ At("failed")
    /\ failure' = 1
    /\ Go("running")
    /\ UNCHANGED <<disk, stamped, locals, world, faults>>

\* record_upgrade_failure.
Failed ==
    /\ At("failed")
    /\ failure' = IF failure = NoFile THEN 1 ELSE failure + 1
    /\ Go("running")
    /\ UNCHANGED <<disk, stamped, locals, world, faults>>

Finish ==
    \/ BootValidation \/ CommitBackup \/ CommitReceipt \/ CommitLock \/ CommitMarker
    \/ Done \/ Failed
-----------------------------------------------------------------------------
\* The network goes and comes back.
GoOffline ==
    /\ online /\ Fault("offline")
    /\ online' = FALSE
    /\ UNCHANGED <<disk, profile, pc, locals, belowFloor>>

GoOnline ==
    /\ ~online
    /\ online' = TRUE
    /\ UNCHANGED <<disk, profile, pc, locals, belowFloor, faults>>

\* The process is killed.  pip is atomic for each package, not for a set of
\* them, and a package that it was replacing may be gone.
Crash ==
    /\ pc # "off"
    /\ Fault("crash")
    /\ \/ UNCHANGED venv
       \/ /\ pc = "deps" \/ (pc = "undoDeps" /\ lockBackup # NoFile)
          /\ venv' = [venv EXCEPT !.deps = "mixed"]
       \/ pc \in {"wheel", "undoWheel"} /\ venv' = [venv EXCEPT !.app = "torn"]
       \/ pc = "undoRemove" /\ venv' \in Remains(venv)
    /\ Go("off")
    /\ UNCHANGED <<backup, files, profile, locals, world>>

\* It is killed inside the removal of a backup, or inside the copy of a receipt, and
\* what it leaves is taken for the whole.
Tear ==
    /\ Fault("tear")
    /\ \/ /\ pc \in {"commitBackup", "purge"} /\ Present(backup)
          /\ backup' \in Remains(backup)
          /\ UNCHANGED <<receipt, receiptBackup>>
       \/ /\ pc \in {"snapshotReceipt", "snapshot"}
          /\ receiptBackup' = Torn
          /\ UNCHANGED <<backup, receipt>>
       \/ /\ pc = "undoReceipt" /\ receiptBackup # NoFile
          /\ receipt' = Torn
          /\ UNCHANGED <<backup, receiptBackup>>
    /\ Go("off")
    /\ UNCHANGED <<venv, lock, lockBackup, marker, profile, locals, world>>

Next ==
    \/ Launch \/ Launched \/ RequestUpgrade \/ RetryUpgrade \/ DismissFailure \/ Quit
    \/ Undo \/ Install \/ Finish
    \/ GoOffline \/ GoOnline \/ Crash \/ Tear

Spec == Init /\ [][Next]_vars

\* Each step of the code runs on to its end, since every command that it waits
\* for ends.  Nothing is asked of the user, of the network or of the faults.
FairSpec == Spec /\ WF_vars(Launched \/ Undo \/ Install \/ Finish)
-----------------------------------------------------------------------------
Venvs == [app : {"none", "old", "new", "torn"}, deps : {"none", "old", "new", "mixed"},
          ready : BOOLEAN]
Receipts == [version : {"old", "new"}, lock : {"old", "new"}] \cup {Torn, NoFile}
Locks == {"old", "new", NoFile}
Markers == [kind : {"inPlace", "rebuild"}, version : {"old", "new"}, lock : BOOLEAN]

\* A file that is there is not the one that is not.
ASSUME FileAssumption ==
    NoFile \notin Nat \cup {"old", "new", Torn} \cup Markers
                 \cup [version : {"old", "new"}, lock : {"old", "new"}]

\* The types, and a bound: no more automatic attempts than MaxAttempts are made.
TypeOK ==
    /\ venv \in Venvs /\ backup \in Venvs
    /\ receipt \in Receipts /\ receiptBackup \in Receipts
    /\ lock \in Locks /\ lockBackup \in Locks
    /\ marker \in Markers \cup {NoFile}
    /\ stamped \in BOOLEAN /\ failure \in 0..MaxAttempts \cup {NoFile}
    /\ mode \in {"launch", "resume", "inner", "partial", "rollback"}
    /\ how \in {"inPlace", "rebuild", "repair"}
    /\ intact \in BOOLEAN /\ online \in BOOLEAN /\ belowFloor \in BOOLEAN
    /\ faults.count \in 0..MaxFaults /\ faults.kinds \subseteq Faults

\* What the live environment needs to be started, and what the recovery that the
\* marker plans needs to succeed: the snapshot of the lock, if it says that there is
\* one, or a sound environment put aside.
Whole == Sound(venv) /\ venv.ready
CanRecover ==
    \/ MarkedAs("inPlace") /\ venv.ready /\ (marker.lock => lockBackup # NoFile)
    \/ MarkedAs("rebuild") /\ Sound(backup) /\ backup.ready

\* The receipt has the next launch install again what is half installed: the
\* dependencies of an app that is current, or both.
RepairHeals ==
    RequirementsStale /\ ~InstalledOld /\ venv.ready /\ receipt.version = venv.app
UpgradeHeals ==
    InstalledOld /\ venv.ready /\ (receipt.lock = "old" \/ venv.deps \in {"old", "new"})

\* The disk holds a way back to a runtime that works: wherever the app is killed, and
\* however often, if the network is there and the new version is good; and whatever
\* the network and the new version do, if it is not killed, but for the moment in
\* which the snapshot of the lock is taken anew.  That is, the recovery of the next
\* launch finds all that it needs (recover_from_interrupted_upgrade).  If it is killed
\* and offline, too, there is a way back or a way on, by the upgrade that is due.
\* Killed after a failed boot it may have neither (see the README), nor where a file
\* operation fails or is cut short, or the user forces a rebuild.
WayBack ==
    /\ \/ Only({"crash"})
       \/ Only({"offline", "smoke", "boot"}) /\ ~At("snapshotLock")
       => Whole \/ CanRecover \/ RepairHeals
    /\ Only({"crash", "offline", "smoke"}) =>
          Whole \/ CanRecover \/ RepairHeals \/ UpgradeHeals

\* An undoing of which every step succeeded leaves what the upgrade found, as
\* atomic_upgrade_headroom promises ("restoring the previous venv + receipt
\* byte-for-byte"), if receipt, lock and environment agreed to begin with.
RollbackRestores ==
    /\ pc = "failed" /\ intact /\ how # "repair"
    /\ before.lock = before.venv.deps
    /\ before.receipt = [version |-> before.venv.app, lock |-> before.lock]
    => venv = before.venv /\ receipt = before.receipt

\* What the app comes up with, unless a file operation failed or was cut short: an
\* environment with its ready receipt, so that the user is not sent to the setup
\* wizard; after kills alone, one with nothing half installed; without a kill, one
\* whose app is whole, though pip may have left its dependencies mixed; and in any
\* case of these one whose app is whole, or a marker that asks for a recovery.
RuntimeUsable ==
    pc = "running" =>
        /\ Only({"crash", "offline", "smoke", "boot", "user"}) => venv.ready
        /\ Only({"crash"}) => Sound(venv)
        /\ Only({"offline", "smoke", "boot"}) => venv.app \in {"old", "new"}
        /\ Only({"crash", "offline", "smoke", "boot"}) =>
              venv.app \in {"old", "new"} \/ MarkedAs("inPlace")

\* An app that is launched again and again stops retrying, whether the upgrade
\* succeeds or not: its attempts are counted across launches.
RetriesEnd == []<>At("launched") => <>[](Plan = "none" \/ ~venv.ready)

\* recover_from_interrupted_upgrade: with the marker gone, the receipt names the
\* version that is installed, so that check_headroom_upgrade decides rightly
\* whether to upgrade again.
ReceiptTruthful ==
    pc = "running" /\ marker = NoFile /\ venv.ready => receipt.version = venv.app
=============================================================================
