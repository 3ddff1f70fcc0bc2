------------------------ MODULE RuntimeUpgradeProofs ------------------------
(***************************************************************************)
(* Proofs about RuntimeUpgrade, for any number of faults and any bound on  *)
(* the automatic attempts: where the disk holds what the next recovery     *)
(* needs, what the app comes up with, and that an undoing restores what    *)
(* the upgrade found.                                                      *)
(*                                                                         *)
(* The invariants go from the weaker to the stronger fault model.  Control *)
(* holds whatever fails: an undoing in place runs under the marker of an   *)
(* upgrade in place, and a failure is counted only by who had an attempt   *)
(* left.  Startable holds unless a file operation failed or was cut short: *)
(* the environment has its ready receipt, or the one moved aside has.      *)
(* Repairable holds unless the user steps in, too, and says which files    *)
(* are half installed, and what the receipt and the marker then still say. *)
(* WaysBack says, for kills alone, for everything but kills, and for kills *)
(* without a failed boot, when the environment is sound though the         *)
(* snapshot of the lock is gone.                                           *)
(***************************************************************************)
EXTENDS RuntimeUpgrade, TLAPS

UndoingInPlace == {"undoDeps", "undoWheel", "undoLock", "dropLockBackup"}
UndoingRebuild == {"undoRemove", "undoRename"}
UndoingRest == {"undoReceipt", "dropReceiptBackup", "clearMarker"}
Undoing == UndoingInPlace \cup UndoingRebuild \cup UndoingRest
Starting == {"snapshotLock", "snapshotReceipt", "mark"}
Rebuilding == {"purge", "markRebuild", "aside", "snapshot", "create", "stampReady"}
Installing == {"putLock", "deps", "wheel", "putReceipt", "smoke"}
Committing == {"commitBackup", "commitReceipt", "commitLock", "commitMarker"}

\* The steps of each way, and the marker that an upgrade in place leaves.
WayTaken ==
    /\ pc \in UndoingInPlace => MarkedAs("inPlace")
    /\ pc = "undoDeps" => marker.lock
    /\ pc = "recover" => mode \in {"launch", "resume"}
    /\ pc \in Starting => how = "inPlace" /\ receipt # Torn
    /\ pc \in Rebuilding => how = "rebuild"
    /\ pc = "aside" => MarkedAs("rebuild")
    /\ pc \in {"putLock", "deps"} /\ how = "inPlace" => marker.lock
    /\ pc \in {"wheel", "smoke", "rollback"} \cup Committing => how # "repair"
    /\ pc \in Installing \cup {"boot", "rollback"} /\ how = "inPlace" => MarkedAs("inPlace")

\* Who is counted as failed had an attempt left.
AttemptLeft ==
    \/ pc \in {"off", "launched", "running", "done"}
    \/ mode = "launch" /\ pc \in {"recover"} \cup Undoing
    \/ ~Exhausted

\* TypeOK in parts; the receipt and the lock are never missing.
FilesOK ==
    /\ venv \in Venvs /\ backup \in Venvs
    /\ receipt \in Receipts \ {NoFile} /\ receiptBackup \in Receipts
    /\ lock \in Locks \ {NoFile} /\ lockBackup \in Locks
    /\ marker \in Markers \cup {NoFile}

RestOK ==
    /\ stamped \in BOOLEAN
    /\ mode \in {"launch", "resume", "inner", "partial", "rollback"}
    /\ how \in {"inPlace", "rebuild", "repair"}
    /\ intact \in BOOLEAN /\ online \in BOOLEAN /\ belowFloor \in BOOLEAN

FaultsOK == faults.count \in 0..MaxFaults /\ faults.kinds \subseteq Faults
FailureOK == failure \in 0..MaxAttempts \cup {NoFile}

Control == FilesOK /\ RestOK /\ FaultsOK /\ FailureOK /\ WayTaken /\ AttemptLeft
-----------------------------------------------------------------------------
\* The fresh environment is being built, and the one that was there is aside.
Fresh ==
    \/ pc \in {"snapshot", "create", "stampReady"}
    \/ how = "rebuild" /\ pc \in Installing
Aside ==
    \/ Fresh
    \/ pc \in UndoingRebuild
    \/ how = "rebuild" /\ pc \in {"boot", "rollback"}

\* Without a failed file operation: one of the two environments can be started, and
\* the live one unless the other is aside.
Startable ==
    /\ venv.ready => Present(venv)
    /\ Present(backup) <=> backup.ready
    /\ Fresh /\ pc \notin {"snapshot", "create"} => Present(venv)
    /\ Aside => MarkedAs("rebuild") /\ backup.ready
    /\ venv.ready \/ (MarkedAs("rebuild") /\ backup.ready)
    /\ ~Fresh /\ pc \notin {"off", "recover"} \cup UndoingRebuild => venv.ready

NoIo == Only({"crash", "offline", "smoke", "boot", "user"})
-----------------------------------------------------------------------------
Calm == Only({"crash", "offline", "smoke", "boot"})

SoundDeps == venv.deps \in {"old", "new"}
SoundApp == venv.app \in {"old", "new"}

\* The receipt of an app that is up to date with dependencies that are not.
RepairDue == receipt.version = "new" /\ receipt.lock = "old"

\* What the receipt, and its backup, say under the marker of an upgrade in place.
FoundBy(r) == r.version = "old" /\ (r.lock = "old" <=> marker.lock)

\* The version is the old one from the start of an upgrade to its receipt, so that
\* every attempt goes the same way.
OneWay ==
    /\ receipt # Torn /\ receiptBackup # Torn
    /\ pc \in {"upgrade", "prepare"} \cup Starting \cup (Rebuilding \ {"create", "stampReady"}) =>
          receipt.version = "old"
    /\ mode = "resume" /\ pc \in {"recover"} \cup Undoing => receipt.version = "old"
    /\ pc \in {"upgrade", "prepare"} => how = "inPlace"
    /\ mode = "resume" /\ pc \in {"recover"} \cup Undoing => how = "inPlace"
    /\ receiptBackup # NoFile => receiptBackup.version = "old"
    /\ RepairDue => marker = NoFile /\ venv.app = "new"
    /\ pc \in Installing /\ how = "repair" => RepairDue
    /\ pc \in Starting => ~belowFloor
    /\ pc \in Rebuilding => belowFloor
    /\ pc \in Installing \cup {"boot", "rollback"} /\ how = "rebuild" => belowFloor

\* What each marker says of the files.
MarkerMeans ==
    /\ MarkedAs("inPlace") =>
          /\ ~belowFloor
          /\ marker.version = "old"
          /\ FoundBy(receipt) \/ (receipt.version = "new" /\ receipt.lock = "new")
          /\ receiptBackup # NoFile => FoundBy(receiptBackup)
          /\ marker.lock \/ SoundDeps
    /\ MarkedAs("rebuild") => belowFloor /\ (Present(backup) \/ Sound(venv))
    /\ marker = NoFile => Sound(venv) \/ RepairDue
    /\ Present(backup) => Sound(backup)

\* How far the install, or the undoing, has got.
Progress ==
    /\ pc \in {"purge", "markRebuild", "aside"} => Sound(venv)
    /\ pc = "prepare" /\ MarkedAs("rebuild") => ~Present(backup)
    /\ pc = "mark" => receiptBackup = receipt
    /\ pc = "wheel" => SoundDeps
    /\ pc \in {"smoke", "putReceipt", "stampReady", "boot", "rollback"} \cup Committing =>
          Sound(venv)
    /\ pc \in Undoing => marker # NoFile
    /\ pc \in Undoing /\ MarkedAs("rebuild") => intact
    /\ pc \in UndoingRest /\ MarkedAs("rebuild") => Sound(venv)
    /\ pc \in Undoing /\ MarkedAs("inPlace") /\ intact =>
          /\ pc # "undoDeps" => SoundDeps
          /\ pc \in UndoingRest \/ (Recovering /\ pc \in {"undoLock", "dropLockBackup"}) =>
                SoundApp

\* Where nothing is being changed.
Standing == {"launched", "running", "upgrade", "prepare", "failed", "done"}

\* What a recovery will need is there: the snapshot of the lock, from the moment it is
\* taken, and the environment moved aside, while the marker speaks of it.
Snapshots ==
    /\ pc \in {"snapshotReceipt", "mark"} /\ LockDiffers => lockBackup # NoFile
    /\ pc \in Installing \cup {"boot"} /\ how = "inPlace" /\ marker.lock =>
          lockBackup # NoFile
    /\ pc \in Installing /\ how = "inPlace" => receipt.version = "old"
    /\ pc \in {"undoWheel", "undoLock"} /\ Recovering /\ marker.lock => lockBackup # NoFile
    /\ pc \in Undoing /\ Recovering => intact
    /\ pc = "dropLockBackup" => intact
    /\ pc \in {"undoLock", "dropLockBackup"} => marker.lock
    /\ pc \in Standing /\ MarkedAs("rebuild") => ~Present(backup)
    /\ pc = "boot" /\ how = "repair" => marker = NoFile
    /\ pc = "done" => marker = NoFile

Repairable == OneWay /\ MarkerMeans /\ Progress /\ Snapshots
-----------------------------------------------------------------------------
\* The marker speaks of a snapshot of the lock that is gone.
Unsnapped == MarkedAs("inPlace") /\ marker.lock /\ lockBackup = NoFile
UpToDate == receipt.version = "new" /\ receipt.lock = "new"

\* Killed, but online and with a good new version, the app never has a failed install
\* to undo, and what it runs is whole.
OnlyKilled ==
    /\ online /\ failure = NoFile /\ Recovering /\ pc \notin {"rollback", "failed"}
    /\ Unsnapped => Sound(venv)
    /\ pc \in Standing /\ MarkedAs("inPlace") => Unsnapped
    /\ pc \in Starting \cup {"running", "done"} => Sound(venv)
    /\ pc \in {"stampReady", "boot", "done"} \cup Committing => UpToDate
    /\ pc = "smoke" /\ how = "rebuild" => UpToDate
    /\ stamped =>
          /\ UpToDate /\ Sound(venv)
          /\ pc \in {"off", "recover", "undoDeps", "launched", "running"}
          /\ marker = NoFile \/ (MarkedAs("rebuild") /\ ~Present(backup)) \/ Unsnapped

\* Not killed, it tears no app, and keeps the snapshot while the dependencies are mixed.
NeverKilled ==
    /\ SoundApp \/ Aside
    /\ Unsnapped => SoundDeps \/ pc = "snapshotLock"

\* No boot failed: the new receipt is not rolled back.
NoRollback ==
    /\ pc # "rollback"
    /\ pc \in Undoing /\ MarkedAs("inPlace") /\ receipt.version = "new" => Recovering
    /\ Unsnapped /\ receipt.version = "new" => Sound(venv)

WaysBack ==
    /\ Only({"crash"}) => OnlyKilled
    /\ Only({"offline", "smoke", "boot"}) => NeverKilled
    /\ Only({"crash", "offline", "smoke"}) => NoRollback
-----------------------------------------------------------------------------
\* The upgrade found receipt, lock and environment in agreement.
Agreed ==
    /\ before.lock = before.venv.deps
    /\ before.receipt = [version |-> before.venv.app, lock |-> before.lock]

\* What the undoing puts back: in place, with what the marker says; or the
\* environment that was moved aside.
InPlaceKept ==
    /\ MarkedAs("inPlace")
    /\ marker.version = before.receipt.version
    /\ marker.lock <=> before.receipt.lock # "new"
    /\ receiptBackup = before.receipt
    /\ venv.ready = before.venv.ready
    /\ marker.lock \/ venv.deps = before.venv.deps
RebuildKept ==
    /\ MarkedAs("rebuild")
    /\ backup = before.venv
    /\ receiptBackup = before.receipt

ForUpgrade == mode \in {"inner", "partial", "rollback"}

Found ==
    /\ before.venv \in Venvs /\ before.receipt \in Receipts
    /\ \/ pc \in Starting \cup Rebuilding
       \/ how # "repair" /\ pc \in Installing \cup {"boot", "rollback"}
       \/ ForUpgrade
       => before.receipt # NoFile

Kept ==
    /\ pc \in Starting \cup {"purge", "markRebuild", "aside"} =>
          venv = before.venv /\ receipt = before.receipt /\ lock = before.lock
    /\ pc \in {"snapshotReceipt", "mark"} /\ before.receipt.lock # "new" =>
          lockBackup = before.lock
    /\ pc = "mark" => receiptBackup = before.receipt
    /\ pc = "snapshot" =>
          MarkedAs("rebuild") /\ backup = before.venv /\ receipt = before.receipt
    /\ pc \in {"create", "stampReady"} => RebuildKept
    /\ pc \in Installing \cup {"boot", "rollback"} =>
          /\ how = "inPlace" => InPlaceKept /\ (marker.lock => lockBackup = before.lock)
          /\ how = "rebuild" => RebuildKept

\* How much of it the undoing has put back.
PutBack ==
    /\ ForUpgrade /\ pc \in UndoingInPlace /\ intact =>
          /\ InPlaceKept
          /\ pc = "undoDeps" => lockBackup = before.lock
          /\ pc # "undoDeps" => venv.deps = before.venv.deps
    /\ ForUpgrade /\ pc \in UndoingRebuild /\ intact => RebuildKept
    /\ ForUpgrade /\ pc \in UndoingRest /\ intact => venv = before.venv
    /\ ForUpgrade /\ pc = "undoReceipt" /\ intact => receiptBackup = before.receipt
    /\ ForUpgrade /\ pc \in {"dropReceiptBackup", "clearMarker"} /\ intact =>
          receipt = before.receipt
    /\ pc = "failed" /\ intact =>
          how = "repair" \/ (venv = before.venv /\ receipt = before.receipt)

Restorable == Agreed => Kept /\ PutBack

UpgradeInv ==
    /\ Control /\ Found /\ Restorable
    /\ NoIo => Startable
    /\ Calm => Repairable
    /\ WaysBack
-----------------------------------------------------------------------------
LEMMA FaultsGrow ==
  ASSUME [Next]_vars
  PROVE  faults' = faults \/ \E kind : Fault(kind)
<1> USE DEF User, UndoInstall, Give, locals, world
<1>1. CASE Undo
  <2>1. CASE Recover
    BY <2>1 DEF Recover
  <2>2. CASE Rollback
    BY <2>2 DEF Rollback
  <2>3. CASE UndoDeps
    BY <2>3 DEF UndoDeps
  <2>4. CASE UndoWheel
    BY <2>4 DEF UndoWheel
  <2>5. CASE UndoLock
    BY <2>5 DEF UndoLock
  <2>6. CASE DropLockBackup
    BY <2>6 DEF DropLockBackup
  <2>7. CASE UndoRemove
    BY <2>7 DEF UndoRemove
  <2>8. CASE UndoRename
    BY <2>8 DEF UndoRename
  <2>9. CASE UndoReceipt
    BY <2>9 DEF UndoReceipt
  <2>10. CASE DropReceiptBackup
    BY <2>10 DEF DropReceiptBackup
  <2>11. CASE ClearMarker
    BY <2>11 DEF ClearMarker
  <2>12. QED
    BY <1>1, <2>1, <2>2, <2>3, <2>4, <2>5, <2>6, <2>7, <2>8, <2>9, <2>10, <2>11 DEF Undo
<1>2. CASE Install
  <2>1. CASE Upgrade
    BY <2>1 DEF Upgrade
  <2>2. CASE Prepare
    BY <2>2 DEF Prepare
  <2>3. CASE SnapshotLock
    BY <2>3 DEF SnapshotLock
  <2>4. CASE SnapshotReceipt
    BY <2>4 DEF SnapshotReceipt
  <2>5. CASE Mark
    BY <2>5 DEF Mark
  <2>6. CASE Purge
    BY <2>6 DEF Purge
  <2>7. CASE MarkRebuild
    BY <2>7 DEF MarkRebuild
  <2>8. CASE MoveAside
    BY <2>8 DEF MoveAside
  <2>9. CASE Snapshot
    BY <2>9 DEF Snapshot
  <2>10. CASE Create
    BY <2>10 DEF Create
  <2>11. CASE PutLock
    BY <2>11 DEF PutLock
  <2>12. CASE InstallDeps
    BY <2>12 DEF InstallDeps
  <2>13. CASE InstallWheel
    BY <2>13 DEF InstallWheel
  <2>14. CASE SmokeTest
    BY <2>14 DEF SmokeTest
  <2>15. CASE PutReceipt
    BY <2>15 DEF PutReceipt
  <2>16. CASE StampReady
    BY <2>16 DEF StampReady
  <2>17. QED
    BY <1>2, <2>1, <2>2, <2>3, <2>4, <2>5, <2>6, <2>7, <2>8, <2>9, <2>10, <2>11, <2>12,
       <2>13, <2>14, <2>15, <2>16 DEF Install
<1>3. CASE Finish
  BY <1>3 DEF Finish, BootValidation, CommitBackup, CommitReceipt, CommitLock, CommitMarker,
      Done, Failed
<1>4. CASE UNCHANGED vars
  BY <1>4 DEF vars
<1>5. CASE Launch \/ Launched
  BY <1>5 DEF Launch, Launched
<1>6. CASE RequestUpgrade \/ RetryUpgrade \/ DismissFailure \/ Quit
  BY <1>6 DEF RequestUpgrade, RetryUpgrade, DismissFailure, Quit
<1>7. CASE GoOffline \/ GoOnline \/ Crash \/ Tear
  BY <1>7 DEF GoOffline, GoOnline, Crash, Tear
<1>8. QED
  BY <1>1, <1>2, <1>3, <1>4, <1>5, <1>6, <1>7 DEF Next

LEMMA FaultsInductive ==
  ASSUME FaultsOK, [Next]_vars
  PROVE  FaultsOK'
<1>1. CASE faults' = faults
  BY <1>1 DEF FaultsOK
<1>2. CASE \E kind : Fault(kind)
  <2>1. PICK kind : Fault(kind)
    BY <1>2
  <2>2. QED
    BY <2>1, UpgradeAssumption DEF Fault, FaultsOK
<1>3. QED
  BY <1>1, <1>2, FaultsGrow
LEMMA AbsentTyped == Absent \in Venvs /\ ~Absent.ready /\ Absent.app = "none"
BY DEF Absent, Venvs

LEMMA StampTyped ==
  ASSUME NEW v \in Venvs
  PROVE  /\ [v EXCEPT !.ready = TRUE] \in Venvs
         /\ [v EXCEPT !.ready = TRUE].ready
         /\ [v EXCEPT !.ready = TRUE].app = v.app
         /\ [v EXCEPT !.ready = TRUE].deps = v.deps
BY DEF Venvs

LEMMA WheelBack ==
  ASSUME NEW v \in Venvs, NEW w \in Venvs, v.deps = w.deps, v.ready = w.ready
  PROVE  [v EXCEPT !.app = w.app] = w
BY DEF Venvs

LEMMA DepsBack ==
  ASSUME NEW v \in Venvs, NEW d
  PROVE  /\ [v EXCEPT !.deps = d].deps = d
         /\ [v EXCEPT !.deps = d].app = v.app
         /\ [v EXCEPT !.deps = d].ready = v.ready
BY DEF Venvs

LEMMA AppBack ==
  ASSUME NEW v \in Venvs, NEW a
  PROVE  /\ [v EXCEPT !.app = a].app = a
         /\ [v EXCEPT !.app = a].deps = v.deps
         /\ [v EXCEPT !.app = a].ready = v.ready
BY DEF Venvs

LEMMA ReceiptsTyped ==
  /\ [version |-> "new", lock |-> "new"] \in Receipts \ {NoFile}
  /\ Torn \in Receipts \ {NoFile}
  /\ \A r \in Receipts \ {NoFile} : Repaired(r) \in Receipts \ {NoFile}
<1> DEFINE Parsed == [version : {"old", "new"}, lock : {"old", "new"}]
<1>1. NoFile \notin Parsed /\ NoFile # Torn
  BY FileAssumption
<1>2. Receipts \ {NoFile} = Parsed \cup {Torn}
  BY <1>1 DEF Receipts
<1>3. ASSUME NEW r \in Parsed \cup {Torn}
      PROVE  Repaired(r) \in Parsed \cup {Torn}
  <2>1. CASE r = Torn
    BY <2>1 DEF Repaired
  <2>2. CASE r # Torn
    <3>1. r \in Parsed
      BY <2>2
    <3>2. [r EXCEPT !.lock = "new"] \in Parsed
      BY <3>1
    <3>3. QED
      BY <2>2, <3>2 DEF Repaired
  <2>3. QED
    BY <2>1, <2>2
<1>4. QED
  BY <1>2, <1>3

LEMMA RemainsTyped ==
  ASSUME NEW v \in Venvs, NEW r \in Remains(v)
  PROVE  r \in Venvs /\ r.app = "torn" /\ (r.ready => v.ready)
<1>1. PICK b \in {v.ready, FALSE} : r = [app |-> "torn", deps |-> "mixed", ready |-> b]
  BY DEF Remains
<1>2. b \in BOOLEAN /\ v.ready \in BOOLEAN
  BY <1>1 DEF Venvs
<1>3. QED
  BY <1>1, <1>2 DEF Venvs

LEMMA MarkersTyped ==
  /\ [kind |-> "rebuild", version |-> "new", lock |-> FALSE] \in Markers
  /\ \A v \in {"old", "new"}, l \in BOOLEAN :
        [kind |-> "inPlace", version |-> v, lock |-> l] \in Markers
  /\ NoFile \notin Markers
BY FileAssumption DEF Markers

\* The marker of an upgrade in place names the version and whether the lock changes.
LEMMA MarkMarks ==
  ASSUME FilesOK, WayTaken, Mark
  PROVE  \/ /\ marker' \in Markers /\ MarkedAs("inPlace")'
            /\ marker'.version = receipt.version
            /\ marker'.lock <=> LockDiffers
         \/ marker' = marker /\ pc' = "failed"
<1>1. receipt.version \in {"old", "new"}
  BY FileAssumption DEF FilesOK, Receipts, WayTaken, Starting, Mark, At
<1>2. LockDiffers \in BOOLEAN
  BY DEF LockDiffers
<1>3. CASE marker' = [kind |-> "inPlace", version |-> receipt.version, lock |-> LockDiffers]
  <2>1. ASSUME NEW l \in BOOLEAN,
               marker' = [kind |-> "inPlace", version |-> receipt.version, lock |-> l]
        PROVE  /\ marker' \in Markers /\ MarkedAs("inPlace")'
               /\ marker'.version = receipt.version /\ marker'.lock = l
    BY <1>1, <2>1, MarkersTyped DEF MarkedAs
  <2>2. CASE LockDiffers
    <3>1. marker' = [kind |-> "inPlace", version |-> receipt.version, lock |-> TRUE]
      BY <1>3, <2>2, Zenon
    <3>2. QED
      BY <2>1, <2>2, <3>1
  <2>3. CASE ~LockDiffers
    <3>1. LockDiffers = FALSE
      BY <1>2, <2>3
    <3>2. marker' = [kind |-> "inPlace", version |-> receipt.version, lock |-> FALSE]
      BY <1>3, <3>1, Zenon
    <3>3. QED
      BY <2>1, <2>3, <3>2
  <2>4. QED
    BY <2>2, <2>3
<1>4. CASE marker' = marker /\ Go("failed")
  BY <1>4 DEF Go
<1>5. QED
  BY <1>3, <1>4 DEF Mark

LEMMA FilesInductive ==
  ASSUME FilesOK, WayTaken, [Next]_vars
  PROVE  FilesOK'
<1> USE FileAssumption
<1> USE DEF Fault, FilesOK, Venvs, Receipts, Locks, Markers, files, disk
<1>1. CASE Launch
  BY <1>1 DEF Launch
<1>2. CASE Launched
  BY <1>2 DEF Launched
<1>3. CASE RequestUpgrade
  BY <1>3 DEF RequestUpgrade
<1>4. CASE RetryUpgrade
  BY <1>4 DEF RetryUpgrade
<1>5. CASE DismissFailure
  BY <1>5 DEF DismissFailure
<1>6. CASE Quit
  BY <1>6 DEF Quit
<1>7. CASE Recover
  BY <1>7 DEF Recover
<1>8. CASE Rollback
  BY <1>8 DEF Rollback
<1>9. CASE UndoDeps
  BY <1>9 DEF UndoDeps
<1>10. CASE UndoWheel
  BY <1>10 DEF UndoWheel, WayTaken, MarkedAs, UndoingInPlace, At
<1>11. CASE UndoLock
  BY <1>11 DEF UndoLock
<1>12. CASE DropLockBackup
  BY <1>12 DEF DropLockBackup
<1>13. CASE UndoRemove
  BY <1>13, AbsentTyped, RemainsTyped DEF UndoRemove
<1>14. CASE UndoRename
  BY <1>14, AbsentTyped DEF UndoRename
<1>15. CASE UndoReceipt
  <2> HIDE DEF Venvs, Markers, Receipts, Locks
  <2>1. QED
    BY <1>15, ReceiptsTyped DEF UndoReceipt
<1>16. CASE DropReceiptBackup
  BY <1>16 DEF DropReceiptBackup
<1>17. CASE ClearMarker
  BY <1>17 DEF ClearMarker
<1>18. CASE Upgrade
  BY <1>18 DEF Upgrade
<1>19. CASE Prepare
  BY <1>19 DEF Prepare, LockDiffers
<1>20. CASE SnapshotLock
  BY <1>20 DEF SnapshotLock
<1>21. CASE SnapshotReceipt
  <2> HIDE DEF Venvs, Markers
  <2>0. NoFile \in Receipts /\ NoFile \in Locks
    OBVIOUS
  <2> HIDE DEF Receipts, Locks
  <2>1. QED
    BY <1>21, <2>0, ReceiptsTyped DEF SnapshotReceipt
<1>22. CASE Mark
  <2> HIDE DEF Venvs, Markers
  <2>1. marker' \in Markers \cup {NoFile}
    BY <1>22, MarkMarks, MarkersTyped DEF FilesOK
  <2>2. QED
    BY <1>22, <2>1 DEF Mark, LockDiffers
<1>23. CASE Purge
  BY <1>23, AbsentTyped, RemainsTyped DEF Purge
<1>24. CASE MarkRebuild
  <2> HIDE DEF Venvs, Markers
  <2>1. QED
    BY <1>24, MarkersTyped DEF MarkRebuild
<1>25. CASE MoveAside
  BY <1>25, AbsentTyped DEF MoveAside
<1>26. CASE Snapshot
  <2> HIDE DEF Venvs, Markers, Receipts, Locks
  <2>1. QED
    BY <1>26, AbsentTyped, ReceiptsTyped DEF Snapshot
<1>27. CASE Create
  BY <1>27 DEF Create
<1>28. CASE PutLock
  BY <1>28 DEF PutLock
<1>29. CASE InstallDeps
  BY <1>29 DEF InstallDeps
<1>30. CASE InstallWheel
  BY <1>30 DEF InstallWheel
<1>31. CASE SmokeTest
  BY <1>31 DEF SmokeTest
<1>32. CASE PutReceipt
  <2> HIDE DEF Venvs, Markers, Receipts, Locks
  <2>1. QED
    BY <1>32, ReceiptsTyped DEF PutReceipt
<1>33. CASE StampReady
  <2> HIDE DEF Venvs, Markers, Receipts, Locks
  <2>1. QED
    BY <1>33, StampTyped DEF StampReady
<1>34. CASE BootValidation
  BY <1>34 DEF BootValidation
<1>35. CASE CommitBackup
  <2> HIDE DEF Venvs, Markers
  <2>1. QED
    BY <1>35, AbsentTyped DEF CommitBackup
<1>36. CASE CommitReceipt
  BY <1>36 DEF CommitReceipt
<1>37. CASE CommitLock
  BY <1>37 DEF CommitLock
<1>38. CASE CommitMarker
  BY <1>38 DEF CommitMarker
<1>39. CASE Done
  BY <1>39 DEF Done
<1>40. CASE Failed
  BY <1>40 DEF Failed
<1>41. CASE GoOffline
  BY <1>41 DEF GoOffline
<1>42. CASE GoOnline
  BY <1>42 DEF GoOnline
<1>43. CASE Crash
  BY <1>43, RemainsTyped DEF Crash
<1>44. CASE Tear
  <2> HIDE DEF Venvs, Markers, Receipts, Locks
  <2>1. QED
    BY <1>44, RemainsTyped, ReceiptsTyped DEF Tear
<1>45. CASE UNCHANGED vars
  BY <1>45 DEF vars
<1>46. QED
  BY <1>1, <1>2, <1>3, <1>4, <1>5, <1>6, <1>7, <1>8, <1>9, <1>10, <1>11, <1>12, <1>13, <1>14,
      <1>15, <1>16, <1>17, <1>18, <1>19, <1>20, <1>21, <1>22, <1>23, <1>24, <1>25, <1>26, <1>27,
          <1>28, <1>29, <1>30, <1>31, <1>32, <1>33, <1>34, <1>35, <1>36, <1>37, <1>38, <1>39,
              <1>40, <1>41, <1>42, <1>43, <1>44, <1>45 DEF Next, Undo, Install, Finish

LEMMA WayInductive ==
  ASSUME FilesOK, how \in {"inPlace", "rebuild", "repair"}, WayTaken, [Next]_vars
  PROVE  WayTaken'
<1> USE DEF Fault, WayTaken, MarkedAs, At, Go, Undoing, UndoingInPlace,
            UndoingRebuild, UndoingRest, Starting, Rebuilding, Installing, Committing, files,
            disk, profile, locals, world
<1>1. CASE Launch
  BY <1>1 DEF Launch
<1>2. CASE Launched
  BY <1>2 DEF Launched, Plan
<1>3. CASE RequestUpgrade
  BY <1>3 DEF RequestUpgrade, User
<1>4. CASE RetryUpgrade
  BY <1>4 DEF RetryUpgrade, User
<1>5. CASE DismissFailure
  BY <1>5 DEF DismissFailure, User
<1>6. CASE Quit
  BY <1>6 DEF Quit
<1>7. CASE Recover
  BY <1>7 DEF Recover, Back, UndoInPlace, UndoRebuild, HasLock
<1>8. CASE Rollback
  BY <1>8 DEF Rollback, Back, UndoInPlace, UndoRebuild, HasLock
<1>9. CASE UndoDeps
  BY <1>9 DEF UndoDeps, Give, Back, AfterLock, HasLock, Recovering
<1>10. CASE UndoWheel
  BY <1>10 DEF UndoWheel, Give, Back, AfterLock, HasLock, Recovering
<1>11. CASE UndoLock
  BY <1>11 DEF UndoLock, Give, Back, AfterLock, HasLock, Recovering
<1>12. CASE DropLockBackup
  BY <1>12 DEF DropLockBackup, Give, Back, AfterLock, HasLock, Recovering
<1>13. CASE UndoRemove
  BY <1>13 DEF UndoRemove, Give, Back, AfterLock, HasLock, Recovering
<1>14. CASE UndoRename
  BY <1>14 DEF UndoRename, Give, Back, AfterLock, HasLock, Recovering
<1>15. CASE UndoReceipt
  BY <1>15 DEF UndoReceipt, Give, Back, AfterLock, HasLock, Recovering
<1>16. CASE DropReceiptBackup
  BY <1>16 DEF DropReceiptBackup, Give, Back, AfterLock, HasLock, Recovering
<1>17. CASE ClearMarker
  BY <1>17 DEF ClearMarker, Back
<1>18. CASE Upgrade
  BY <1>18 DEF Upgrade
<1>19. CASE Prepare
  BY <1>19 DEF Prepare, LockDiffers
<1>20. CASE SnapshotLock
  BY <1>20 DEF SnapshotLock
<1>21. CASE SnapshotReceipt
  BY <1>21 DEF SnapshotReceipt, LockDiffers
<1>22. CASE Mark
  <2>1. CASE MarkedAs("inPlace")' /\ (marker'.lock <=> LockDiffers)
    BY <1>22, <2>1 DEF Mark
  <2>2. CASE marker' = marker /\ pc' = "failed"
    BY <1>22, <2>2 DEF Mark
  <2>3. QED
    BY <1>22, <2>1, <2>2, MarkMarks
<1>23. CASE Purge
  BY <1>23 DEF Purge
<1>24. CASE MarkRebuild
  <2>1. CASE marker' = [kind |-> "rebuild", version |-> "new", lock |-> FALSE] /\ Go("aside")
    <3>1. MarkedAs("rebuild")'
      BY <2>1, MarkersTyped
    <3>2. QED
      BY <1>24, <2>1, <3>1 DEF MarkRebuild
  <2>2. CASE Go("failed")
    BY <1>24, <2>2 DEF MarkRebuild
  <2>3. QED
    BY <1>24, <2>1, <2>2 DEF MarkRebuild
<1>25. CASE MoveAside
  BY <1>25 DEF MoveAside
<1>26. CASE Snapshot
  BY <1>26 DEF Snapshot
<1>27. CASE Create
  BY <1>27 DEF Create, UndoInstall, UndoInPlace, UndoRebuild, HasLock
<1>28. CASE PutLock
  BY <1>28 DEF PutLock, UndoInstall, UndoInPlace, UndoRebuild, HasLock
<1>29. CASE InstallDeps
  BY <1>29 DEF InstallDeps, UndoInstall, UndoInPlace, UndoRebuild, HasLock
<1>30. CASE InstallWheel
  BY <1>30 DEF InstallWheel, UndoInstall, UndoInPlace, UndoRebuild, HasLock
<1>31. CASE SmokeTest
  BY <1>31 DEF SmokeTest, UndoInstall, UndoInPlace, UndoRebuild, HasLock
<1>32. CASE PutReceipt
  BY <1>32 DEF PutReceipt, UndoInstall, UndoInPlace, UndoRebuild, HasLock
<1>33. CASE StampReady
  BY <1>33 DEF StampReady, UndoInstall, UndoInPlace, UndoRebuild, HasLock
<1>34. CASE BootValidation
  BY <1>34 DEF BootValidation
<1>35. CASE CommitBackup
  BY <1>35 DEF CommitBackup
<1>36. CASE CommitReceipt
  BY <1>36 DEF CommitReceipt
<1>37. CASE CommitLock
  BY <1>37 DEF CommitLock
<1>38. CASE CommitMarker
  BY <1>38 DEF CommitMarker
<1>39. CASE Done
  BY <1>39 DEF Done
<1>40. CASE Failed
  BY <1>40 DEF Failed
<1>41. CASE GoOffline
  BY <1>41 DEF GoOffline
<1>42. CASE GoOnline
  BY <1>42 DEF GoOnline
<1>43. CASE Crash
  BY <1>43 DEF Crash
<1>44. CASE Tear
  BY <1>44 DEF Tear
<1>45. CASE UNCHANGED vars
  BY <1>45 DEF vars
<1>46. QED
  BY <1>1, <1>2, <1>3, <1>4, <1>5, <1>6, <1>7, <1>8, <1>9, <1>10, <1>11, <1>12, <1>13, <1>14,
      <1>15, <1>16, <1>17, <1>18, <1>19, <1>20, <1>21, <1>22, <1>23, <1>24, <1>25, <1>26, <1>27,
          <1>28, <1>29, <1>30, <1>31, <1>32, <1>33, <1>34, <1>35, <1>36, <1>37, <1>38, <1>39,
              <1>40, <1>41, <1>42, <1>43, <1>44, <1>45 DEF Next, Undo, Install, Finish

LEMMA AttemptsInductive ==
  ASSUME FailureOK, AttemptLeft, [Next]_vars
  PROVE  FailureOK' /\ AttemptLeft'
<1> USE UpgradeAssumption, FileAssumption
<1> USE DEF Fault, FailureOK, AttemptLeft, Exhausted, At, Go, Undoing, UndoingInPlace,
            UndoingRebuild, UndoingRest, files, disk, profile, locals, world
<1>1. CASE Launch
  BY <1>1 DEF Launch
<1>2. CASE Launched
  BY <1>2 DEF Launched, Plan
<1>3. CASE RequestUpgrade
  BY <1>3 DEF RequestUpgrade, User
<1>4. CASE RetryUpgrade
  BY <1>4 DEF RetryUpgrade, User
<1>5. CASE DismissFailure
  BY <1>5 DEF DismissFailure, User
<1>6. CASE Quit
  BY <1>6 DEF Quit
<1>7. CASE Recover
  BY <1>7 DEF Recover, Back, UndoInPlace, UndoRebuild, HasLock
<1>8. CASE Rollback
  BY <1>8 DEF Rollback, Back, UndoInPlace, UndoRebuild, HasLock
<1>9. CASE UndoDeps
  BY <1>9 DEF UndoDeps, Give, Back, AfterLock, HasLock, Recovering
<1>10. CASE UndoWheel
  BY <1>10 DEF UndoWheel, Give, Back, AfterLock, HasLock, Recovering
<1>11. CASE UndoLock
  BY <1>11 DEF UndoLock, Give, Back, AfterLock, HasLock, Recovering
<1>12. CASE DropLockBackup
  BY <1>12 DEF DropLockBackup, Give, Back, AfterLock, HasLock, Recovering
<1>13. CASE UndoRemove
  BY <1>13 DEF UndoRemove, Give, Back, AfterLock, HasLock, Recovering
<1>14. CASE UndoRename
  BY <1>14 DEF UndoRename, Give, Back, AfterLock, HasLock, Recovering
<1>15. CASE UndoReceipt
  BY <1>15 DEF UndoReceipt, Give, Back, AfterLock, HasLock, Recovering
<1>16. CASE DropReceiptBackup
  BY <1>16 DEF DropReceiptBackup, Give, Back, AfterLock, HasLock, Recovering
<1>17. CASE ClearMarker
  BY <1>17 DEF ClearMarker, Back
<1>18. CASE Upgrade
  BY <1>18 DEF Upgrade
<1>19. CASE Prepare
  BY <1>19 DEF Prepare, LockDiffers
<1>20. CASE SnapshotLock
  BY <1>20 DEF SnapshotLock
<1>21. CASE SnapshotReceipt
  BY <1>21 DEF SnapshotReceipt, LockDiffers
<1>22. CASE Mark
  BY <1>22 DEF Mark, LockDiffers
<1>23. CASE Purge
  BY <1>23 DEF Purge
<1>24. CASE MarkRebuild
  BY <1>24 DEF MarkRebuild
<1>25. CASE MoveAside
  BY <1>25 DEF MoveAside
<1>26. CASE Snapshot
  BY <1>26 DEF Snapshot
<1>27. CASE Create
  BY <1>27 DEF Create, UndoInstall, UndoInPlace, UndoRebuild, HasLock
<1>28. CASE PutLock
  BY <1>28 DEF PutLock, UndoInstall, UndoInPlace, UndoRebuild, HasLock
<1>29. CASE InstallDeps
  BY <1>29 DEF InstallDeps, UndoInstall, UndoInPlace, UndoRebuild, HasLock
<1>30. CASE InstallWheel
  BY <1>30 DEF InstallWheel, UndoInstall, UndoInPlace, UndoRebuild, HasLock
<1>31. CASE SmokeTest
  BY <1>31 DEF SmokeTest, UndoInstall, UndoInPlace, UndoRebuild, HasLock
<1>32. CASE PutReceipt
  BY <1>32 DEF PutReceipt, UndoInstall, UndoInPlace, UndoRebuild, HasLock
<1>33. CASE StampReady
  BY <1>33 DEF StampReady, UndoInstall, UndoInPlace, UndoRebuild, HasLock
<1>34. CASE BootValidation
  BY <1>34 DEF BootValidation
<1>35. CASE CommitBackup
  BY <1>35 DEF CommitBackup
<1>36. CASE CommitReceipt
  BY <1>36 DEF CommitReceipt
<1>37. CASE CommitLock
  BY <1>37 DEF CommitLock
<1>38. CASE CommitMarker
  BY <1>38 DEF CommitMarker
<1>39. CASE Done
  BY <1>39 DEF Done
<1>40. CASE Failed
  BY <1>40 DEF Failed
<1>41. CASE GoOffline
  BY <1>41 DEF GoOffline
<1>42. CASE GoOnline
  BY <1>42 DEF GoOnline
<1>43. CASE Crash
  BY <1>43 DEF Crash
<1>44. CASE Tear
  BY <1>44 DEF Tear
<1>45. CASE UNCHANGED vars
  BY <1>45 DEF vars
<1>46. QED
  BY <1>1, <1>2, <1>3, <1>4, <1>5, <1>6, <1>7, <1>8, <1>9, <1>10, <1>11, <1>12, <1>13, <1>14,
      <1>15, <1>16, <1>17, <1>18, <1>19, <1>20, <1>21, <1>22, <1>23, <1>24, <1>25, <1>26, <1>27,
          <1>28, <1>29, <1>30, <1>31, <1>32, <1>33, <1>34, <1>35, <1>36, <1>37, <1>38, <1>39,
              <1>40, <1>41, <1>42, <1>43, <1>44, <1>45 DEF Next, Undo, Install, Finish

LEMMA RestInductive ==
  ASSUME RestOK, [Next]_vars
  PROVE  RestOK'
<1> USE DEF RestOK, User, UndoInstall, Give, profile, locals, world
<1>1. CASE Undo
  <2>1. CASE Recover
    BY <2>1 DEF Recover
  <2>2. CASE Rollback
    BY <2>2 DEF Rollback
  <2>3. CASE UndoDeps
    BY <2>3 DEF UndoDeps
  <2>4. CASE UndoWheel
    BY <2>4 DEF UndoWheel
  <2>5. CASE UndoLock
    BY <2>5 DEF UndoLock
  <2>6. CASE DropLockBackup
    BY <2>6 DEF DropLockBackup
  <2>7. CASE UndoRemove
    BY <2>7 DEF UndoRemove
  <2>8. CASE UndoRename
    BY <2>8 DEF UndoRename
  <2>9. CASE UndoReceipt
    BY <2>9 DEF UndoReceipt
  <2>10. CASE DropReceiptBackup
    BY <2>10 DEF DropReceiptBackup
  <2>11. CASE ClearMarker
    BY <2>11 DEF ClearMarker
  <2>12. QED
    BY <1>1, <2>1, <2>2, <2>3, <2>4, <2>5, <2>6, <2>7, <2>8, <2>9, <2>10, <2>11 DEF Undo
<1>2. CASE Install
  <2>1. CASE Upgrade
    BY <2>1 DEF Upgrade
  <2>2. CASE Prepare
    BY <2>2 DEF Prepare
  <2>3. CASE SnapshotLock
    BY <2>3 DEF SnapshotLock
  <2>4. CASE SnapshotReceipt
    BY <2>4 DEF SnapshotReceipt
  <2>5. CASE Mark
    BY <2>5 DEF Mark
  <2>6. CASE Purge
    BY <2>6 DEF Purge
  <2>7. CASE MarkRebuild
    BY <2>7 DEF MarkRebuild
  <2>8. CASE MoveAside
    BY <2>8 DEF MoveAside
  <2>9. CASE Snapshot
    BY <2>9 DEF Snapshot
  <2>10. CASE Create
    BY <2>10 DEF Create
  <2>11. CASE PutLock
    BY <2>11 DEF PutLock
  <2>12. CASE InstallDeps
    BY <2>12 DEF InstallDeps
  <2>13. CASE InstallWheel
    BY <2>13 DEF InstallWheel
  <2>14. CASE SmokeTest
    BY <2>14 DEF SmokeTest
  <2>15. CASE PutReceipt
    BY <2>15 DEF PutReceipt
  <2>16. CASE StampReady
    BY <2>16 DEF StampReady
  <2>17. QED
    BY <1>2, <2>1, <2>2, <2>3, <2>4, <2>5, <2>6, <2>7, <2>8, <2>9, <2>10, <2>11, <2>12,
       <2>13, <2>14, <2>15, <2>16 DEF Install
<1>3. CASE Finish
  BY <1>3 DEF Finish, BootValidation, CommitBackup, CommitReceipt, CommitLock, CommitMarker,
      Done, Failed
<1>4. CASE UNCHANGED vars
  BY <1>4 DEF vars
<1>5. CASE Launch \/ Launched
  BY <1>5 DEF Launch, Launched
<1>6. CASE RequestUpgrade \/ RetryUpgrade \/ DismissFailure \/ Quit
  BY <1>6 DEF RequestUpgrade, RetryUpgrade, DismissFailure, Quit
<1>7. CASE GoOffline \/ GoOnline \/ Crash \/ Tear
  BY <1>7 DEF GoOffline, GoOnline, Crash, Tear
<1>8. QED
  BY <1>1, <1>2, <1>3, <1>4, <1>5, <1>6, <1>7 DEF Next
-----------------------------------------------------------------------------
\* What an upgrade found is what its undoing puts back.
LEMMA FoundInductive ==
  ASSUME FilesOK, WayTaken, how \in {"inPlace", "rebuild", "repair"}, Found, [Next]_vars
  PROVE  Found'
<1> USE DEF WayTaken, Found, ForUpgrade, MarkedAs, At, Go, Undoing, UndoingInPlace,
            UndoingRebuild, UndoingRest, Starting, Rebuilding, Installing, Committing, files,
            disk, profile, locals, world
<1>1. CASE Launch
  BY <1>1 DEF Launch
<1>2. CASE Launched
  BY <1>2 DEF Launched, Plan
<1>3. CASE RequestUpgrade
  BY <1>3 DEF RequestUpgrade, User
<1>4. CASE RetryUpgrade
  BY <1>4 DEF RetryUpgrade, User
<1>5. CASE DismissFailure
  BY <1>5 DEF DismissFailure, User
<1>6. CASE Quit
  BY <1>6 DEF Quit
<1>7. CASE Recover
  BY <1>7 DEF Recover, Back, UndoInPlace, UndoRebuild, HasLock
<1>8. CASE Rollback
  BY <1>8 DEF Rollback, Back, UndoInPlace, UndoRebuild, HasLock
<1>9. CASE UndoDeps
  BY <1>9 DEF UndoDeps, Give, Back, AfterLock, HasLock, Recovering
<1>10. CASE UndoWheel
  BY <1>10 DEF UndoWheel, Give, Back, AfterLock, HasLock, Recovering
<1>11. CASE UndoLock
  BY <1>11 DEF UndoLock, Give, Back, AfterLock, HasLock, Recovering
<1>12. CASE DropLockBackup
  BY <1>12 DEF DropLockBackup, Give, Back, AfterLock, HasLock, Recovering
<1>13. CASE UndoRemove
  BY <1>13 DEF UndoRemove, Give, Back, AfterLock, HasLock, Recovering
<1>14. CASE UndoRename
  BY <1>14 DEF UndoRename, Give, Back, AfterLock, HasLock, Recovering
<1>15. CASE UndoReceipt
  BY <1>15 DEF UndoReceipt, Give, Back, AfterLock, HasLock, Recovering
<1>16. CASE DropReceiptBackup
  BY <1>16 DEF DropReceiptBackup, Give, Back, AfterLock, HasLock, Recovering
<1>17. CASE ClearMarker
  BY <1>17 DEF ClearMarker, Back
<1>18. CASE Upgrade
  BY <1>18 DEF Upgrade
<1>19. CASE Prepare
  BY <1>19, FileAssumption DEF Prepare, FilesOK
<1>20. CASE SnapshotLock
  BY <1>20 DEF SnapshotLock
<1>21. CASE SnapshotReceipt
  BY <1>21 DEF SnapshotReceipt, LockDiffers
<1>22. CASE Mark
  BY <1>22 DEF Mark, LockDiffers
<1>23. CASE Purge
  BY <1>23 DEF Purge
<1>24. CASE MarkRebuild
  BY <1>24 DEF MarkRebuild
<1>25. CASE MoveAside
  BY <1>25 DEF MoveAside
<1>26. CASE Snapshot
  BY <1>26 DEF Snapshot
<1>27. CASE Create
  BY <1>27 DEF Create, UndoInstall, UndoInPlace, UndoRebuild, HasLock
<1>28. CASE PutLock
  BY <1>28 DEF PutLock, UndoInstall, UndoInPlace, UndoRebuild, HasLock
<1>29. CASE InstallDeps
  BY <1>29 DEF InstallDeps, UndoInstall, UndoInPlace, UndoRebuild, HasLock
<1>30. CASE InstallWheel
  BY <1>30 DEF InstallWheel, UndoInstall, UndoInPlace, UndoRebuild, HasLock
<1>31. CASE SmokeTest
  BY <1>31 DEF SmokeTest, UndoInstall, UndoInPlace, UndoRebuild, HasLock
<1>32. CASE PutReceipt
  BY <1>32 DEF PutReceipt, UndoInstall, UndoInPlace, UndoRebuild, HasLock
<1>33. CASE StampReady
  BY <1>33 DEF StampReady, UndoInstall, UndoInPlace, UndoRebuild, HasLock
<1>34. CASE BootValidation
  BY <1>34 DEF BootValidation
<1>35. CASE CommitBackup
  BY <1>35 DEF CommitBackup
<1>36. CASE CommitReceipt
  BY <1>36 DEF CommitReceipt
<1>37. CASE CommitLock
  BY <1>37 DEF CommitLock
<1>38. CASE CommitMarker
  BY <1>38 DEF CommitMarker
<1>39. CASE Done
  BY <1>39 DEF Done
<1>40. CASE Failed
  BY <1>40 DEF Failed
<1>41. CASE GoOffline
  BY <1>41 DEF GoOffline
<1>42. CASE GoOnline
  BY <1>42 DEF GoOnline
<1>43. CASE Crash
  BY <1>43 DEF Crash
<1>44. CASE Tear
  BY <1>44 DEF Tear
<1>45. CASE UNCHANGED vars
  BY <1>45 DEF vars
<1>46. QED
  BY <1>1, <1>2, <1>3, <1>4, <1>5, <1>6, <1>7, <1>8, <1>9, <1>10, <1>11, <1>12, <1>13, <1>14,
      <1>15, <1>16, <1>17, <1>18, <1>19, <1>20, <1>21, <1>22, <1>23, <1>24, <1>25, <1>26, <1>27,
          <1>28, <1>29, <1>30, <1>31, <1>32, <1>33, <1>34, <1>35, <1>36, <1>37, <1>38, <1>39,
              <1>40, <1>41, <1>42, <1>43, <1>44, <1>45 DEF Next, Undo, Install, Finish

LEMMA RestorableInductive ==
  ASSUME FilesOK, WayTaken, how \in {"inPlace", "rebuild", "repair"},
         mode \in {"launch", "resume", "inner", "partial", "rollback"},
         Found, Restorable, [Next]_vars
  PROVE  Restorable'
<1>0. /\ venv \in Venvs /\ before.venv \in Venvs
      /\ Agreed /\ before.receipt # NoFile =>
            /\ before.receipt.version = before.venv.app /\ before.receipt.lock = before.lock
            /\ Present(before.venv)
  BY FileAssumption DEF FilesOK, Found, Agreed, Receipts, Present, Torn
<1> USE <1>0
<1> USE DEF WayTaken, Found, Kept, PutBack, InPlaceKept, RebuildKept, ForUpgrade, MarkedAs, At,
            Go, Present, Undoing, UndoingInPlace, UndoingRebuild, UndoingRest, Starting,
                Rebuilding,
            Installing, Committing, files, disk, profile, locals, world, Restorable, Agreed
<1>1. CASE Launch
  BY <1>1 DEF Launch
<1>2. CASE Launched
  BY <1>2 DEF Launched, Plan
<1>3. CASE RequestUpgrade
  BY <1>3 DEF RequestUpgrade, User
<1>4. CASE RetryUpgrade
  BY <1>4 DEF RetryUpgrade, User
<1>5. CASE DismissFailure
  BY <1>5 DEF DismissFailure, User
<1>6. CASE Quit
  BY <1>6 DEF Quit
<1>7. CASE Recover
  BY <1>7 DEF Recover, Back, UndoInPlace, UndoRebuild, HasLock
<1>8. CASE Rollback
  BY <1>8 DEF Rollback, Back, UndoInPlace, UndoRebuild, HasLock
<1>9. CASE UndoDeps
  <2>1. CASE venv' = [venv EXCEPT !.deps = lockBackup]
    BY <1>9, <2>1, DepsBack DEF UndoDeps, Give, Back, Recovering
  <2>2. CASE Give("undoLock")
    BY <1>9, <2>2, DepsBack DEF UndoDeps, Give, Back, Recovering
  <2>3. QED
    BY <1>9, <2>1, <2>2 DEF UndoDeps
<1>10. CASE UndoWheel
  <2>1. CASE venv' = [venv EXCEPT !.app = marker.version]
    BY <1>10, <2>1, WheelBack DEF UndoWheel, Give, Back, Recovering, HasLock
  <2>2. CASE Give("undoReceipt")
    BY <1>10, <2>2 DEF UndoWheel, Give, Back, Recovering
  <2>3. QED
    BY <1>10, <2>1, <2>2 DEF UndoWheel
<1>11. CASE UndoLock
  BY <1>11 DEF UndoLock, Give, Back, AfterLock, HasLock, Recovering
<1>12. CASE DropLockBackup
  BY <1>12 DEF DropLockBackup, Give, Back, AfterLock, HasLock, Recovering
<1>13. CASE UndoRemove
  BY <1>13 DEF UndoRemove, Give, Back, AfterLock, HasLock, Recovering
<1>14. CASE UndoRename
  BY <1>14 DEF UndoRename, Give, Back, AfterLock, HasLock, Recovering
<1>15. CASE UndoReceipt
  BY <1>15 DEF UndoReceipt, Give, Back, AfterLock, HasLock, Recovering
<1>16. CASE DropReceiptBackup
  BY <1>16 DEF DropReceiptBackup, Give, Back, AfterLock, HasLock, Recovering
<1>17. CASE ClearMarker
  BY <1>17 DEF ClearMarker, Back
<1>18. CASE Upgrade
  BY <1>18 DEF Upgrade
<1>19. CASE Prepare
  BY <1>19 DEF Prepare, LockDiffers
<1>20. CASE SnapshotLock
  BY <1>20 DEF SnapshotLock
<1>21. CASE SnapshotReceipt
  BY <1>21 DEF SnapshotReceipt, LockDiffers
<1>22. CASE Mark
  <2>1. CASE marker' = marker /\ pc' = "failed"
    BY <1>22, <2>1 DEF Mark
  <2>2. CASE ~(marker' = marker /\ pc' = "failed")
    BY <1>22, <2>2, MarkMarks DEF Mark, LockDiffers
  <2>3. QED
    BY <2>1, <2>2
<1>23. CASE Purge
  BY <1>23 DEF Purge
<1>24. CASE MarkRebuild
  BY <1>24 DEF MarkRebuild
<1>25. CASE MoveAside
  BY <1>25 DEF MoveAside
<1>26. CASE Snapshot
  BY <1>26 DEF Snapshot
<1>27. CASE Create
  BY <1>27 DEF Create, UndoInstall, UndoInPlace, UndoRebuild, HasLock
<1>28. CASE PutLock
  BY <1>28 DEF PutLock, UndoInstall, UndoInPlace, UndoRebuild, HasLock
<1>29. CASE InstallDeps
  <2>1. CASE venv' = [venv EXCEPT !.deps = "new"]
    BY <1>29, <2>1, DepsBack DEF InstallDeps, UndoInstall, UndoInPlace, UndoRebuild, HasLock
  <2>2. CASE UndoInstall /\ venv' = venv
    BY <1>29, <2>2 DEF InstallDeps, UndoInstall, UndoInPlace, UndoRebuild, HasLock
  <2>3. CASE UndoInstall /\ venv' = [venv EXCEPT !.deps = "mixed"]
    BY <1>29, <2>3, DepsBack DEF InstallDeps, UndoInstall, UndoInPlace, UndoRebuild, HasLock
  <2>4. QED
    BY <1>29, <2>1, <2>2, <2>3 DEF InstallDeps
<1>30. CASE InstallWheel
  <2>1. CASE venv' = [venv EXCEPT !.app = "new"]
    BY <1>30, <2>1, AppBack DEF InstallWheel, UndoInstall, UndoInPlace, UndoRebuild, HasLock
  <2>2. CASE UndoInstall /\ venv' = venv
    BY <1>30, <2>2 DEF InstallWheel, UndoInstall, UndoInPlace, UndoRebuild, HasLock
  <2>3. QED
    BY <1>30, <2>1, <2>2 DEF InstallWheel
<1>31. CASE SmokeTest
  BY <1>31 DEF SmokeTest, UndoInstall, UndoInPlace, UndoRebuild, HasLock
<1>32. CASE PutReceipt
  BY <1>32 DEF PutReceipt, UndoInstall, UndoInPlace, UndoRebuild, HasLock
<1>33. CASE StampReady
  BY <1>33 DEF StampReady, UndoInstall, UndoInPlace, UndoRebuild, HasLock
<1>34. CASE BootValidation
  BY <1>34 DEF BootValidation
<1>35. CASE CommitBackup
  BY <1>35 DEF CommitBackup
<1>36. CASE CommitReceipt
  BY <1>36 DEF CommitReceipt
<1>37. CASE CommitLock
  BY <1>37 DEF CommitLock
<1>38. CASE CommitMarker
  BY <1>38 DEF CommitMarker
<1>39. CASE Done
  BY <1>39 DEF Done
<1>40. CASE Failed
  BY <1>40 DEF Failed
<1>41. CASE GoOffline
  BY <1>41 DEF GoOffline
<1>42. CASE GoOnline
  BY <1>42 DEF GoOnline
<1>43. CASE Crash
  BY <1>43 DEF Crash
<1>44. CASE Tear
  BY <1>44 DEF Tear
<1>45. CASE UNCHANGED vars
  BY <1>45 DEF vars
<1>46. QED
  BY <1>1, <1>2, <1>3, <1>4, <1>5, <1>6, <1>7, <1>8, <1>9, <1>10, <1>11, <1>12, <1>13, <1>14,
      <1>15, <1>16, <1>17, <1>18, <1>19, <1>20, <1>21, <1>22, <1>23, <1>24, <1>25, <1>26, <1>27,
          <1>28, <1>29, <1>30, <1>31, <1>32, <1>33, <1>34, <1>35, <1>36, <1>37, <1>38, <1>39,
              <1>40, <1>41, <1>42, <1>43, <1>44, <1>45 DEF Next, Undo, Install, Finish
-----------------------------------------------------------------------------
\* Without a failed file operation one of the two environments can be started.
LEMMA NoIoMeans ==
  ASSUME [Next]_vars, NoIo'
  PROVE  NoIo /\ ~Fault("io") /\ ~Fault("tear")
<1>1. \A kind : Fault(kind) => kind \in faults'.kinds /\ faults.kinds \subseteq faults'.kinds
  BY DEF Fault
<1>2. faults.kinds \subseteq faults'.kinds
  BY <1>1, FaultsGrow
<1>3. QED
  BY <1>1, <1>2 DEF NoIo, Only

LEMMA StartableInductive ==
  ASSUME FilesOK, WayTaken, how \in {"inPlace", "rebuild", "repair"}, Startable,
         [Next]_vars, NoIo'
  PROVE  Startable'
<1> USE NoIoMeans
<1>0. /\ venv \in Venvs /\ backup \in Venvs
      /\ marker \in Markers \cup {NoFile}
  BY DEF FilesOK
<1> USE <1>0
<1> USE DEF WayTaken, Startable, Fresh, Aside, Present, MarkedAs, At, Go, Undoing, UndoingInPlace,
            UndoingRebuild, UndoingRest, Starting, Rebuilding, Installing, Committing, files,
            disk, profile, locals, world, Venvs, Markers
<1>1. CASE Launch
  BY <1>1 DEF Launch
<1>2. CASE Launched
  BY <1>2 DEF Launched, Plan
<1>3. CASE RequestUpgrade
  BY <1>3 DEF RequestUpgrade, User
<1>4. CASE RetryUpgrade
  BY <1>4 DEF RetryUpgrade, User
<1>5. CASE DismissFailure
  BY <1>5 DEF DismissFailure, User
<1>6. CASE Quit
  BY <1>6 DEF Quit
<1>7. CASE Recover
  BY <1>7 DEF Recover, Back, UndoInPlace, UndoRebuild, HasLock
<1>8. CASE Rollback
  BY <1>8 DEF Rollback, Back, UndoInPlace, UndoRebuild, HasLock
<1>9. CASE UndoDeps
  BY <1>9 DEF UndoDeps, Give, Back, AfterLock, HasLock, Recovering
<1>10. CASE UndoWheel
  BY <1>10 DEF UndoWheel, Give, Back, AfterLock, HasLock, Recovering
<1>11. CASE UndoLock
  BY <1>11 DEF UndoLock, Give, Back, AfterLock, HasLock, Recovering
<1>12. CASE DropLockBackup
  BY <1>12 DEF DropLockBackup, Give, Back, AfterLock, HasLock, Recovering
<1>13. CASE UndoRemove
  BY <1>13, AbsentTyped DEF UndoRemove
<1>14. CASE UndoRename
  BY <1>14, AbsentTyped DEF UndoRename
<1>15. CASE UndoReceipt
  BY <1>15 DEF UndoReceipt, Give, Back, AfterLock, HasLock, Recovering
<1>16. CASE DropReceiptBackup
  BY <1>16 DEF DropReceiptBackup, Give, Back, AfterLock, HasLock, Recovering
<1>17. CASE ClearMarker
  BY <1>17 DEF ClearMarker, Back
<1>18. CASE Upgrade
  BY <1>18 DEF Upgrade
<1>19. CASE Prepare
  BY <1>19 DEF Prepare, LockDiffers
<1>20. CASE SnapshotLock
  BY <1>20 DEF SnapshotLock
<1>21. CASE SnapshotReceipt
  BY <1>21 DEF SnapshotReceipt, LockDiffers
<1>22. CASE Mark
  BY <1>22 DEF Mark, LockDiffers
<1>23. CASE Purge
  BY <1>23, AbsentTyped DEF Purge
<1>24. CASE MarkRebuild
  BY <1>24 DEF MarkRebuild
<1>25. CASE MoveAside
  BY <1>25, AbsentTyped DEF MoveAside
<1>26. CASE Snapshot
  BY <1>26 DEF Snapshot
<1>27. CASE Create
  BY <1>27 DEF Create, UndoInstall, UndoInPlace, UndoRebuild, HasLock
<1>28. CASE PutLock
  BY <1>28 DEF PutLock, UndoInstall, UndoInPlace, UndoRebuild, HasLock
<1>29. CASE InstallDeps
  BY <1>29 DEF InstallDeps, UndoInstall, UndoInPlace, UndoRebuild, HasLock
<1>30. CASE InstallWheel
  BY <1>30 DEF InstallWheel, UndoInstall, UndoInPlace, UndoRebuild, HasLock
<1>31. CASE SmokeTest
  BY <1>31 DEF SmokeTest, UndoInstall, UndoInPlace, UndoRebuild, HasLock
<1>32. CASE PutReceipt
  BY <1>32 DEF PutReceipt, UndoInstall, UndoInPlace, UndoRebuild, HasLock
<1>33. CASE StampReady
  <2> HIDE DEF Venvs
  <2>1. QED
    BY <1>33, StampTyped DEF StampReady
<1>34. CASE BootValidation
  BY <1>34 DEF BootValidation
<1>35. CASE CommitBackup
  BY <1>35, AbsentTyped DEF CommitBackup
<1>36. CASE CommitReceipt
  BY <1>36 DEF CommitReceipt
<1>37. CASE CommitLock
  BY <1>37 DEF CommitLock
<1>38. CASE CommitMarker
  BY <1>38 DEF CommitMarker
<1>39. CASE Done
  BY <1>39 DEF Done
<1>40. CASE Failed
  BY <1>40 DEF Failed
<1>41. CASE GoOffline
  BY <1>41 DEF GoOffline
<1>42. CASE GoOnline
  BY <1>42 DEF GoOnline
<1>43. CASE Crash
  <2>1. CASE pc = "undoRemove" /\ venv' \in Remains(venv)
    BY <1>43, <2>1, RemainsTyped DEF Crash
  <2>2. CASE ~(pc = "undoRemove" /\ venv' \in Remains(venv))
    BY <1>43, <2>2 DEF Crash
  <2>3. QED
    BY <2>1, <2>2
<1>44. CASE Tear
  BY <1>44 DEF Tear
<1>45. CASE UNCHANGED vars
  BY <1>45 DEF vars
<1>46. QED
  BY <1>1, <1>2, <1>3, <1>4, <1>5, <1>6, <1>7, <1>8, <1>9, <1>10, <1>11, <1>12, <1>13, <1>14,
      <1>15, <1>16, <1>17, <1>18, <1>19, <1>20, <1>21, <1>22, <1>23, <1>24, <1>25, <1>26, <1>27,
          <1>28, <1>29, <1>30, <1>31, <1>32, <1>33, <1>34, <1>35, <1>36, <1>37, <1>38, <1>39,
              <1>40, <1>41, <1>42, <1>43, <1>44, <1>45 DEF Next, Undo, Install, Finish
-----------------------------------------------------------------------------
\* Without the user, too, the disk holds a way back.
LEMMA CalmMeans ==
  ASSUME [Next]_vars, Calm'
  PROVE  Calm /\ ~Fault("io") /\ ~Fault("tear") /\ ~Fault("user")
<1>1. \A kind : Fault(kind) => kind \in faults'.kinds /\ faults.kinds \subseteq faults'.kinds
  BY DEF Fault
<1>2. faults.kinds \subseteq faults'.kinds
  BY <1>1, FaultsGrow
<1>3. QED
  BY <1>1, <1>2 DEF Calm, Only

LEMMA OneWayInductive ==
  ASSUME FilesOK, WayTaken, how \in {"inPlace", "rebuild", "repair"}, Startable, Repairable,
         [Next]_vars, Calm'
  PROVE  OneWay'
<1>0. /\ venv \in Venvs /\ backup \in Venvs
      /\ receipt # NoFile /\ receipt.version \in {"old", "new"} /\ receipt.lock \in {"old", "new"}
      /\ receiptBackup # NoFile => receiptBackup.version \in {"old",
          "new"} /\ receiptBackup.lock \in {"old", "new"}
  BY FileAssumption DEF FilesOK, Receipts, Repairable, OneWay
<1>torn. Torn # NoFile /\ Torn # [version |-> "new", lock |-> "new"]
  BY FileAssumption DEF Torn
<1>repaired. /\ Repaired(receipt).version = receipt.version /\ Repaired(receipt).lock = "new"
             /\ Repaired(receipt) # Torn
  <2>1. receipt \in [version : {"old", "new"}, lock : {"old", "new"}]
    BY FileAssumption DEF FilesOK, Receipts, Repairable, OneWay
  <2>2. Repaired(receipt) = [receipt EXCEPT !.lock = "new"]
    BY DEF Repaired, Repairable, OneWay
  <2>3. QED
    BY <2>1, <2>2 DEF Torn
<1> USE <1>0, CalmMeans, <1>torn
<1> USE DEF WayTaken, Startable, Fresh, Aside, Present, Repairable, OneWay, RepairDue,
    InstalledOld, RequirementsStale, MarkedAs, At, Go, Undoing, UndoingInPlace,
            UndoingRebuild, UndoingRest, Starting, Rebuilding, Installing, Committing, files,
            disk, profile, locals, world, Venvs, Markers
<1>1. CASE Launch
  BY <1>1 DEF Launch
<1>2. CASE Launched
  BY <1>2 DEF Launched, Plan
<1>3. CASE RequestUpgrade
  BY <1>3 DEF RequestUpgrade, User
<1>4. CASE RetryUpgrade
  BY <1>4 DEF RetryUpgrade, User
<1>5. CASE DismissFailure
  BY <1>5 DEF DismissFailure, User
<1>6. CASE Quit
  BY <1>6 DEF Quit
<1>7. CASE Recover
  BY <1>7 DEF Recover, Back, UndoInPlace, UndoRebuild, HasLock
<1>8. CASE Rollback
  BY <1>8 DEF Rollback, Back, UndoInPlace, UndoRebuild, HasLock
<1>9. CASE UndoDeps
  BY <1>9 DEF UndoDeps, Give, Back, AfterLock, HasLock, Recovering
<1>10. CASE UndoWheel
  BY <1>10 DEF UndoWheel, Give, Back, AfterLock, HasLock, Recovering
<1>11. CASE UndoLock
  BY <1>11 DEF UndoLock, Give, Back, AfterLock, HasLock, Recovering
<1>12. CASE DropLockBackup
  BY <1>12 DEF DropLockBackup, Give, Back, AfterLock, HasLock, Recovering
<1>13. CASE UndoRemove
  BY <1>13 DEF UndoRemove, Give, Back, AfterLock, HasLock, Recovering
<1>14. CASE UndoRename
  BY <1>14 DEF UndoRename, Give, Back, AfterLock, HasLock, Recovering
<1>15. CASE UndoReceipt
  BY <1>15 DEF UndoReceipt, Give, Back, AfterLock, HasLock, Recovering
<1>16. CASE DropReceiptBackup
  BY <1>16 DEF DropReceiptBackup, Give, Back, AfterLock, HasLock, Recovering
<1>17. CASE ClearMarker
  BY <1>17 DEF ClearMarker, Back
<1>18. CASE Upgrade
  BY <1>18 DEF Upgrade
<1>19. CASE Prepare
  BY <1>19 DEF Prepare, LockDiffers
<1>20. CASE SnapshotLock
  BY <1>20 DEF SnapshotLock
<1>21. CASE SnapshotReceipt
  BY <1>21 DEF SnapshotReceipt, LockDiffers
<1>22. CASE Mark
  BY <1>22 DEF Mark, LockDiffers
<1>23. CASE Purge
  BY <1>23 DEF Purge
<1>24. CASE MarkRebuild
  BY <1>24 DEF MarkRebuild
<1>25. CASE MoveAside
  BY <1>25 DEF MoveAside
<1>26. CASE Snapshot
  BY <1>26 DEF Snapshot
<1>27. CASE Create
  BY <1>27 DEF Create, UndoInstall, UndoInPlace, UndoRebuild, HasLock
<1>28. CASE PutLock
  BY <1>28 DEF PutLock, UndoInstall, UndoInPlace, UndoRebuild, HasLock
<1>29. CASE InstallDeps
  BY <1>29 DEF InstallDeps, UndoInstall, UndoInPlace, UndoRebuild, HasLock
<1>30. CASE InstallWheel
  BY <1>30 DEF InstallWheel, UndoInstall, UndoInPlace, UndoRebuild, HasLock
<1>31. CASE SmokeTest
  BY <1>31 DEF SmokeTest, UndoInstall, UndoInPlace, UndoRebuild, HasLock
<1>32. CASE PutReceipt
  BY <1>32, <1>repaired DEF PutReceipt, UndoInstall, UndoInPlace, UndoRebuild, HasLock
<1>33. CASE StampReady
  BY <1>33 DEF StampReady, UndoInstall, UndoInPlace, UndoRebuild, HasLock
<1>34. CASE BootValidation
  BY <1>34 DEF BootValidation
<1>35. CASE CommitBackup
  BY <1>35 DEF CommitBackup
<1>36. CASE CommitReceipt
  BY <1>36 DEF CommitReceipt
<1>37. CASE CommitLock
  BY <1>37 DEF CommitLock
<1>38. CASE CommitMarker
  BY <1>38 DEF CommitMarker
<1>39. CASE Done
  BY <1>39 DEF Done
<1>40. CASE Failed
  BY <1>40 DEF Failed
<1>41. CASE GoOffline
  BY <1>41 DEF GoOffline
<1>42. CASE GoOnline
  BY <1>42 DEF GoOnline
<1>43. CASE Crash
  BY <1>43 DEF Crash
<1>44. CASE Tear
  BY <1>44 DEF Tear
<1>45. CASE UNCHANGED vars
  BY <1>45 DEF vars
<1>46. QED
  BY <1>1, <1>2, <1>3, <1>4, <1>5, <1>6, <1>7, <1>8, <1>9, <1>10, <1>11, <1>12, <1>13, <1>14,
      <1>15, <1>16, <1>17, <1>18, <1>19, <1>20, <1>21, <1>22, <1>23, <1>24, <1>25, <1>26, <1>27,
          <1>28, <1>29, <1>30, <1>31, <1>32, <1>33, <1>34, <1>35, <1>36, <1>37, <1>38, <1>39,
              <1>40, <1>41, <1>42, <1>43, <1>44, <1>45 DEF Next, Undo, Install, Finish

\* Where the undoing ends with the marker removed, and where an upgrade starts: the
\* environment is sound, or the marker of an upgrade in place stays.
LEMMA SoundWhenCleared ==
  ASSUME marker # NoFile => marker.kind \in {"inPlace", "rebuild"}, pc = "clearMarker",
         intact, Progress
  PROVE  Sound(venv)
<1>1. MarkedAs("inPlace") \/ MarkedAs("rebuild")
  BY DEF Progress, MarkedAs, Undoing, UndoingRest
<1>2. CASE MarkedAs("rebuild")
  BY <1>2 DEF Progress, UndoingRest
<1>3. CASE MarkedAs("inPlace")
  BY <1>3 DEF Progress, Undoing, UndoingRest, SoundDeps, SoundApp, Sound
<1>4. QED
  BY <1>1, <1>2, <1>3

LEMMA SoundWhenPrepared ==
  ASSUME marker # NoFile => marker.kind \in {"inPlace", "rebuild"}, pc = "prepare", Repairable
  PROVE  Sound(venv) \/ (MarkedAs("inPlace") /\ ~belowFloor)
<1>1. receipt.version = "old"
  BY DEF Repairable, OneWay
<1>2. QED
  BY <1>1 DEF Repairable, MarkerMeans, Progress, MarkedAs, RepairDue

LEMMA SoundWhenMarked ==
  ASSUME marker # NoFile => marker.kind \in {"inPlace", "rebuild"}, pc = "mark", Repairable,
         receipt.lock \in {"old", "new"}
  PROVE  /\ receipt.version = "old" /\ ~belowFloor
         /\ receiptBackup = receipt
         /\ LockDiffers \/ SoundDeps
<1>1. receipt.version = "old" /\ ~belowFloor /\ receiptBackup = receipt
  BY DEF Repairable, OneWay, Progress, Starting
<1>2. CASE MarkedAs("inPlace")
  BY <1>1, <1>2 DEF Repairable, MarkerMeans, FoundBy, LockDiffers
<1>3. CASE MarkedAs("rebuild")
  BY <1>1, <1>3 DEF Repairable, MarkerMeans
<1>4. CASE marker = NoFile
  BY <1>1, <1>4 DEF Repairable, MarkerMeans, RepairDue, Sound, SoundDeps
<1>5. QED
  BY <1>1, <1>2, <1>3, <1>4 DEF MarkedAs

\* The marker of an upgrade in place says what the receipt says.
LEMMA MarkMeans ==
  ASSUME FilesOK, WayTaken, Repairable, Mark, ~Fault("io")
  PROVE  MarkerMeans' /\ Progress'
<1>1. /\ marker # NoFile => marker.kind \in {"inPlace", "rebuild"}
      /\ receipt.lock \in {"old", "new"}
  BY FileAssumption DEF FilesOK, Receipts, Markers, Repairable, OneWay
<1>2. /\ receipt.version = "old" /\ ~belowFloor /\ receiptBackup = receipt
      /\ LockDiffers \/ SoundDeps
      /\ MarkerMeans
  BY <1>1, SoundWhenMarked DEF Mark, At, Repairable
<1>3. /\ MarkedAs("inPlace")' /\ marker'.version = "old" /\ (marker'.lock <=> LockDiffers)
      /\ UNCHANGED <<venv, backup, receipt, receiptBackup, belowFloor>>
      /\ pc' \in {"putLock", "wheel"}
      /\ LockDiffers \/ pc' = "wheel"
      /\ pc' = "wheel" => ~LockDiffers
  <2>1. /\ pc' = IF LockDiffers THEN "putLock" ELSE "wheel"
        /\ UNCHANGED <<venv, backup, receipt, receiptBackup, belowFloor>>
    BY DEF Mark, Go, world
  <2>2. pc' # "failed"
    BY <2>1
  <2>3. MarkedAs("inPlace")' /\ marker'.version = "old" /\ (marker'.lock <=> LockDiffers)
    BY <1>2, <2>2, MarkMarks
  <2>4. QED
    BY <2>1, <2>3
<1>4. SoundDeps' <=> SoundDeps
  BY <1>3 DEF SoundDeps
<1>5. (pc' = "wheel" => SoundDeps') /\ Progress'
  BY <1>2, <1>3, <1>4 DEF Progress, MarkedAs, Undoing, UndoingInPlace, UndoingRebuild,
                          UndoingRest, Committing
<1>6. CASE LockDiffers
  <2>1. receipt.lock = "old" /\ marker'.lock
    BY <1>1, <1>3, <1>6 DEF LockDiffers
  <2>2. FoundBy(receipt)' /\ FoundBy(receiptBackup)'
    BY <1>2, <1>3, <2>1 DEF FoundBy
  <2>3. QED
    BY <1>2, <1>3, <1>5, <2>1, <2>2 DEF MarkerMeans, MarkedAs, Sound, Present
<1>7. CASE ~LockDiffers
  <2>1. receipt.lock = "new" /\ ~marker'.lock /\ SoundDeps'
    BY <1>1, <1>2, <1>3, <1>4, <1>7 DEF LockDiffers
  <2>2. FoundBy(receipt)' /\ FoundBy(receiptBackup)'
    BY <1>2, <1>3, <2>1 DEF FoundBy
  <2>3. QED
    BY <1>2, <1>3, <1>5, <2>1, <2>2 DEF MarkerMeans, MarkedAs, Sound, Present
<1>8. QED
  BY <1>6, <1>7

LEMMA MeansInductive ==
  ASSUME FilesOK, WayTaken, how \in {"inPlace", "rebuild", "repair"}, Startable, Repairable,
         [Next]_vars, Calm'
  PROVE  MarkerMeans'
<1>0. /\ venv \in Venvs /\ backup \in Venvs
      /\ marker # NoFile => marker.kind \in {"inPlace", "rebuild"}
      /\ receipt # NoFile /\ receipt.version \in {"old", "new"} /\ receipt.lock \in {"old", "new"}
      /\ receiptBackup # NoFile =>
            receiptBackup.version \in {"old", "new"} /\ receiptBackup.lock \in {"old", "new"}
      /\ lock \in {"old", "new"} /\ lockBackup \in {"old", "new", NoFile}
  BY FileAssumption DEF FilesOK, Receipts, Locks, Markers, Repairable, OneWay
<1>cleared. pc = "clearMarker" /\ intact => Sound(venv)
  BY <1>0, SoundWhenCleared DEF Repairable
<1>prepared. pc = "prepare" => Sound(venv) \/ (MarkedAs("inPlace") /\ ~belowFloor)
  BY <1>0, SoundWhenPrepared
<1>marked. CASE Mark
  BY <1>marked, CalmMeans, MarkMeans
<1> USE <1>0, CalmMeans
<1> USE DEF WayTaken, Startable, Fresh, Aside, Present, Repairable, OneWay, MarkerMeans, Progress,
            Sound, SoundDeps, SoundApp, RepairDue, FoundBy, MarkedAs, At, Go, Undoing,
            UndoingInPlace, UndoingRebuild, UndoingRest, Starting, Rebuilding, Installing,
            Committing, files, disk, profile, locals, world
<1>1. CASE Launch
  BY <1>1 DEF Launch
<1>2. CASE Launched
  BY <1>2 DEF Launched, Plan
<1>3. CASE RequestUpgrade
  BY <1>3 DEF RequestUpgrade, User
<1>4. CASE RetryUpgrade
  BY <1>4 DEF RetryUpgrade, User
<1>5. CASE DismissFailure
  BY <1>5 DEF DismissFailure, User
<1>6. CASE Quit
  BY <1>6 DEF Quit
<1>7. CASE Recover
  BY <1>7 DEF Recover, Back, UndoInPlace, UndoRebuild, HasLock
<1>8. CASE Rollback
  BY <1>8 DEF Rollback, Back, UndoInPlace, UndoRebuild, HasLock
<1>9. CASE UndoDeps
  <2>1. CASE online /\ venv' = [venv EXCEPT !.deps = lockBackup]
    BY <1>9, <2>1, DepsBack DEF UndoDeps, Give, Back, AfterLock, HasLock, Recovering
  <2>2. CASE Give("undoLock") /\ venv' = venv
    BY <1>9, <2>2 DEF UndoDeps, Give, Back, AfterLock, HasLock, Recovering
  <2>3. CASE Give("undoLock") /\ venv' = [venv EXCEPT !.deps = "mixed"]
    BY <1>9, <2>3, DepsBack DEF UndoDeps, Give, Back, AfterLock, HasLock, Recovering
  <2>4. QED
    BY <1>9, <2>1, <2>2, <2>3 DEF UndoDeps
<1>10. CASE UndoWheel
  <2>1. CASE online /\ venv' = [venv EXCEPT !.app = marker.version]
    BY <1>10, <2>1, AppBack DEF UndoWheel, Give, Back, AfterLock, HasLock, Recovering
  <2>2. CASE Give("undoReceipt") /\ venv' = venv
    BY <1>10, <2>2 DEF UndoWheel, Give, Back, AfterLock, HasLock, Recovering
  <2>3. QED
    BY <1>10, <2>1, <2>2 DEF UndoWheel
<1>11. CASE UndoLock
  BY <1>11 DEF UndoLock, Give, Back, AfterLock, HasLock, Recovering
<1>12. CASE DropLockBackup
  BY <1>12 DEF DropLockBackup, Give, Back, AfterLock, HasLock, Recovering
<1>13. CASE UndoRemove
  BY <1>13 DEF UndoRemove, Give, Back, AfterLock, HasLock, Recovering
<1>14. CASE UndoRename
  BY <1>14, AbsentTyped DEF UndoRename, Give
<1>15. CASE UndoReceipt
  BY <1>15 DEF UndoReceipt, Give, Back, AfterLock, HasLock, Recovering
<1>16. CASE DropReceiptBackup
  BY <1>16 DEF DropReceiptBackup, Give, Back, AfterLock, HasLock, Recovering
<1>17. CASE ClearMarker
  <2>1. CASE intact
    BY <1>17, <2>1, <1>cleared DEF ClearMarker, Back
  <2>2. CASE ~intact
    BY <1>17, <2>2 DEF ClearMarker, Back
  <2>3. QED
    BY <2>1, <2>2
<1>18. CASE Upgrade
  BY <1>18 DEF Upgrade
<1>19. CASE Prepare
  BY <1>19, <1>prepared DEF Prepare
<1>20. CASE SnapshotLock
  BY <1>20 DEF SnapshotLock
<1>21. CASE SnapshotReceipt
  BY <1>21 DEF SnapshotReceipt, LockDiffers
<1>22. CASE Mark
  BY <1>marked, <1>22
<1>23. CASE Purge
  BY <1>23, AbsentTyped DEF Purge
<1>24. CASE MarkRebuild
  BY <1>24 DEF MarkRebuild
<1>25. CASE MoveAside
  BY <1>25 DEF MoveAside
<1>26. CASE Snapshot
  BY <1>26 DEF Snapshot
<1>27. CASE Create
  BY <1>27 DEF Create, UndoInstall, UndoInPlace, UndoRebuild, HasLock
<1>28. CASE PutLock
  BY <1>28 DEF PutLock, UndoInstall, UndoInPlace, UndoRebuild, HasLock
<1>29. CASE InstallDeps
  <2>1. CASE online /\ venv' = [venv EXCEPT !.deps = "new"]
    BY <1>29, <2>1, DepsBack DEF InstallDeps, UndoInstall, UndoInPlace, UndoRebuild, HasLock
  <2>2. CASE UndoInstall /\ venv' = venv
    BY <1>29, <2>2 DEF InstallDeps, UndoInstall, UndoInPlace, UndoRebuild, HasLock
  <2>3. CASE UndoInstall /\ venv' = [venv EXCEPT !.deps = "mixed"]
    BY <1>29, <2>3, DepsBack DEF InstallDeps, UndoInstall, UndoInPlace, UndoRebuild, HasLock
  <2>4. QED
    BY <1>29, <2>1, <2>2, <2>3 DEF InstallDeps
<1>30. CASE InstallWheel
  <2>1. CASE online /\ venv' = [venv EXCEPT !.app = "new"]
    BY <1>30, <2>1, AppBack DEF InstallWheel, UndoInstall, UndoInPlace, UndoRebuild, HasLock
  <2>2. CASE UndoInstall /\ venv' = venv
    BY <1>30, <2>2 DEF InstallWheel, UndoInstall, UndoInPlace, UndoRebuild, HasLock
  <2>3. QED
    BY <1>30, <2>1, <2>2 DEF InstallWheel
<1>31. CASE SmokeTest
  BY <1>31 DEF SmokeTest, UndoInstall, UndoInPlace, UndoRebuild, HasLock
<1>32. CASE PutReceipt
  BY <1>32 DEF PutReceipt, UndoInstall, UndoInPlace, UndoRebuild, HasLock
<1>33. CASE StampReady
  <2>1. venv' = [venv EXCEPT !.ready = TRUE] /\ pc' = "boot" /\ UNCHANGED <<backup, files, mode,
      how, belowFloor>>
    BY <1>33 DEF StampReady
  <2>2. venv'.app = venv.app /\ venv'.deps = venv.deps
    BY <2>1, <1>0, StampTyped
  <2>3. QED
    BY <1>33, <2>1, <2>2 DEF StampReady
<1>34. CASE BootValidation
  BY <1>34 DEF BootValidation
<1>35. CASE CommitBackup
  BY <1>35, AbsentTyped DEF CommitBackup
<1>36. CASE CommitReceipt
  BY <1>36 DEF CommitReceipt
<1>37. CASE CommitLock
  BY <1>37 DEF CommitLock
<1>38. CASE CommitMarker
  BY <1>38 DEF CommitMarker
<1>39. CASE Done
  BY <1>39 DEF Done
<1>40. CASE Failed
  BY <1>40 DEF Failed
<1>41. CASE GoOffline
  BY <1>41 DEF GoOffline
<1>42. CASE GoOnline
  BY <1>42 DEF GoOnline
<1>43. CASE Crash
  <2>1. CASE venv' = venv
    BY <1>43, <2>1 DEF Crash
  <2>2. CASE pc \in {"deps", "undoDeps"} /\ venv' = [venv EXCEPT !.deps = "mixed"]
    BY <1>43, <2>2, DepsBack DEF Crash
  <2>3. CASE pc \in {"wheel", "undoWheel"} /\ venv' = [venv EXCEPT !.app = "torn"]
    BY <1>43, <2>3, AppBack DEF Crash
  <2>4. CASE pc = "undoRemove"
    BY <1>43, <2>4 DEF Crash
  <2>5. QED
    BY <1>43, <2>1, <2>2, <2>3, <2>4 DEF Crash
<1>44. CASE Tear
  BY <1>44 DEF Tear
<1>45. CASE UNCHANGED vars
  BY <1>45 DEF vars
<1>46. QED
  BY <1>1, <1>2, <1>3, <1>4, <1>5, <1>6, <1>7, <1>8, <1>9, <1>10, <1>11, <1>12, <1>13, <1>14,
      <1>15, <1>16, <1>17, <1>18, <1>19, <1>20, <1>21, <1>22, <1>23, <1>24, <1>25, <1>26, <1>27,
          <1>28, <1>29, <1>30, <1>31, <1>32, <1>33, <1>34, <1>35, <1>36, <1>37, <1>38, <1>39,
              <1>40, <1>41, <1>42, <1>43, <1>44, <1>45 DEF Next, Undo, Install, Finish

LEMMA ProgressInductive ==
  ASSUME FilesOK, WayTaken, how \in {"inPlace", "rebuild", "repair"}, Startable, Repairable,
         [Next]_vars, Calm'
  PROVE  Progress'
<1>0. /\ venv \in Venvs /\ backup \in Venvs
      /\ marker # NoFile => marker.kind \in {"inPlace", "rebuild"}
      /\ receipt # NoFile /\ receipt.version \in {"old", "new"} /\ receipt.lock \in {"old", "new"}
      /\ receiptBackup # NoFile =>
            receiptBackup.version \in {"old", "new"} /\ receiptBackup.lock \in {"old", "new"}
      /\ lock \in {"old", "new"} /\ lockBackup \in {"old", "new", NoFile}
  BY FileAssumption DEF FilesOK, Receipts, Locks, Markers, Repairable, OneWay
<1>cleared. pc = "clearMarker" /\ intact => Sound(venv)
  BY <1>0, SoundWhenCleared DEF Repairable
<1>prepared. pc = "prepare" => Sound(venv) \/ (MarkedAs("inPlace") /\ ~belowFloor)
  BY <1>0, SoundWhenPrepared
<1>marked. CASE Mark
  BY <1>marked, CalmMeans, MarkMeans
<1> USE <1>0, CalmMeans
<1> USE DEF WayTaken, Startable, Fresh, Aside, Present, Repairable, OneWay, MarkerMeans, Progress,
            Sound, SoundDeps, SoundApp, RepairDue, FoundBy, MarkedAs, At, Go, Undoing,
            UndoingInPlace, UndoingRebuild, UndoingRest, Starting, Rebuilding, Installing,
            Committing, files, disk, profile, locals, world, Recovering
<1>1. CASE Launch
  BY <1>1 DEF Launch
<1>2. CASE Launched
  BY <1>2 DEF Launched, Plan
<1>3. CASE RequestUpgrade
  BY <1>3 DEF RequestUpgrade, User
<1>4. CASE RetryUpgrade
  BY <1>4 DEF RetryUpgrade, User
<1>5. CASE DismissFailure
  BY <1>5 DEF DismissFailure, User
<1>6. CASE Quit
  BY <1>6 DEF Quit
<1>7. CASE Recover
  BY <1>7 DEF Recover, Back, UndoInPlace, UndoRebuild, HasLock
<1>8. CASE Rollback
  BY <1>8 DEF Rollback, Back, UndoInPlace, UndoRebuild, HasLock
<1>9. CASE UndoDeps
  <2>1. CASE online /\ venv' = [venv EXCEPT !.deps = lockBackup]
    BY <1>9, <2>1, DepsBack DEF UndoDeps, Give, Back, AfterLock, HasLock, Recovering
  <2>2. CASE Give("undoLock") /\ venv' = venv
    BY <1>9, <2>2 DEF UndoDeps, Give, Back, AfterLock, HasLock, Recovering
  <2>3. CASE Give("undoLock") /\ venv' = [venv EXCEPT !.deps = "mixed"]
    BY <1>9, <2>3, DepsBack DEF UndoDeps, Give, Back, AfterLock, HasLock, Recovering
  <2>4. QED
    BY <1>9, <2>1, <2>2, <2>3 DEF UndoDeps
<1>10. CASE UndoWheel
  <2>1. CASE online /\ venv' = [venv EXCEPT !.app = marker.version]
    BY <1>10, <2>1, AppBack DEF UndoWheel, Give, Back, AfterLock, HasLock, Recovering
  <2>2. CASE Give("undoReceipt") /\ venv' = venv
    BY <1>10, <2>2 DEF UndoWheel, Give, Back, AfterLock, HasLock, Recovering
  <2>3. QED
    BY <1>10, <2>1, <2>2 DEF UndoWheel
<1>11. CASE UndoLock
  BY <1>11 DEF UndoLock, Give, Back, AfterLock, HasLock, Recovering
<1>12. CASE DropLockBackup
  BY <1>12 DEF DropLockBackup, Give, Back, AfterLock, HasLock, Recovering
<1>13. CASE UndoRemove
  BY <1>13 DEF UndoRemove, Give, Back, AfterLock, HasLock, Recovering
<1>14. CASE UndoRename
  BY <1>14, AbsentTyped DEF UndoRename, Give
<1>15. CASE UndoReceipt
  BY <1>15 DEF UndoReceipt, Give, Back, AfterLock, HasLock, Recovering
<1>16. CASE DropReceiptBackup
  BY <1>16 DEF DropReceiptBackup, Give, Back, AfterLock, HasLock, Recovering
<1>17. CASE ClearMarker
  <2>1. CASE intact
    BY <1>17, <2>1, <1>cleared DEF ClearMarker, Back
  <2>2. CASE ~intact
    BY <1>17, <2>2 DEF ClearMarker, Back
  <2>3. QED
    BY <2>1, <2>2
<1>18. CASE Upgrade
  BY <1>18 DEF Upgrade
<1>19. CASE Prepare
  BY <1>19, <1>prepared DEF Prepare
<1>20. CASE SnapshotLock
  BY <1>20 DEF SnapshotLock
<1>21. CASE SnapshotReceipt
  BY <1>21 DEF SnapshotReceipt, LockDiffers
<1>22. CASE Mark
  BY <1>marked, <1>22
<1>23. CASE Purge
  BY <1>23, AbsentTyped DEF Purge
<1>24. CASE MarkRebuild
  BY <1>24 DEF MarkRebuild
<1>25. CASE MoveAside
  BY <1>25 DEF MoveAside
<1>26. CASE Snapshot
  BY <1>26 DEF Snapshot
<1>27. CASE Create
  BY <1>27 DEF Create, UndoInstall, UndoInPlace, UndoRebuild, HasLock
<1>28. CASE PutLock
  BY <1>28 DEF PutLock, UndoInstall, UndoInPlace, UndoRebuild, HasLock
<1>29. CASE InstallDeps
  <2>1. CASE online /\ venv' = [venv EXCEPT !.deps = "new"]
    BY <1>29, <2>1, DepsBack DEF InstallDeps, UndoInstall, UndoInPlace, UndoRebuild, HasLock
  <2>2. CASE UndoInstall /\ venv' = venv
    BY <1>29, <2>2 DEF InstallDeps, UndoInstall, UndoInPlace, UndoRebuild, HasLock
  <2>3. CASE UndoInstall /\ venv' = [venv EXCEPT !.deps = "mixed"]
    BY <1>29, <2>3, DepsBack DEF InstallDeps, UndoInstall, UndoInPlace, UndoRebuild, HasLock
  <2>4. QED
    BY <1>29, <2>1, <2>2, <2>3 DEF InstallDeps
<1>30. CASE InstallWheel
  <2>1. CASE online /\ venv' = [venv EXCEPT !.app = "new"]
    BY <1>30, <2>1, AppBack DEF InstallWheel, UndoInstall, UndoInPlace, UndoRebuild, HasLock
  <2>2. CASE UndoInstall /\ venv' = venv
    BY <1>30, <2>2 DEF InstallWheel, UndoInstall, UndoInPlace, UndoRebuild, HasLock
  <2>3. QED
    BY <1>30, <2>1, <2>2 DEF InstallWheel
<1>31. CASE SmokeTest
  BY <1>31 DEF SmokeTest, UndoInstall, UndoInPlace, UndoRebuild, HasLock
<1>32. CASE PutReceipt
  BY <1>32 DEF PutReceipt, UndoInstall, UndoInPlace, UndoRebuild, HasLock
<1>33. CASE StampReady
  <2>1. venv' = [venv EXCEPT !.ready = TRUE] /\ pc' = "boot" /\ UNCHANGED <<backup, files, mode,
      how, belowFloor>>
    BY <1>33 DEF StampReady
  <2>2. venv'.app = venv.app /\ venv'.deps = venv.deps
    BY <2>1, <1>0, StampTyped
  <2>3. QED
    BY <1>33, <2>1, <2>2 DEF StampReady
<1>34. CASE BootValidation
  BY <1>34 DEF BootValidation
<1>35. CASE CommitBackup
  BY <1>35, AbsentTyped DEF CommitBackup
<1>36. CASE CommitReceipt
  BY <1>36 DEF CommitReceipt
<1>37. CASE CommitLock
  BY <1>37 DEF CommitLock
<1>38. CASE CommitMarker
  BY <1>38 DEF CommitMarker
<1>39. CASE Done
  BY <1>39 DEF Done
<1>40. CASE Failed
  BY <1>40 DEF Failed
<1>41. CASE GoOffline
  BY <1>41 DEF GoOffline
<1>42. CASE GoOnline
  BY <1>42 DEF GoOnline
<1>43. CASE Crash
  <2>1. CASE venv' = venv
    BY <1>43, <2>1 DEF Crash
  <2>2. CASE pc \in {"deps", "undoDeps"} /\ venv' = [venv EXCEPT !.deps = "mixed"]
    BY <1>43, <2>2, DepsBack DEF Crash
  <2>3. CASE pc \in {"wheel", "undoWheel"} /\ venv' = [venv EXCEPT !.app = "torn"]
    BY <1>43, <2>3, AppBack DEF Crash
  <2>4. CASE pc = "undoRemove"
    BY <1>43, <2>4 DEF Crash
  <2>5. QED
    BY <1>43, <2>1, <2>2, <2>3, <2>4 DEF Crash
<1>44. CASE Tear
  BY <1>44 DEF Tear
<1>45. CASE UNCHANGED vars
  BY <1>45 DEF vars
<1>46. QED
  BY <1>1, <1>2, <1>3, <1>4, <1>5, <1>6, <1>7, <1>8, <1>9, <1>10, <1>11, <1>12, <1>13, <1>14,
      <1>15, <1>16, <1>17, <1>18, <1>19, <1>20, <1>21, <1>22, <1>23, <1>24, <1>25, <1>26, <1>27,
          <1>28, <1>29, <1>30, <1>31, <1>32, <1>33, <1>34, <1>35, <1>36, <1>37, <1>38, <1>39,
              <1>40, <1>41, <1>42, <1>43, <1>44, <1>45 DEF Next, Undo, Install, Finish
\* What the recovery needs is there.
LEMMA SnapshotsInductive ==
  ASSUME FilesOK, WayTaken, how \in {"inPlace", "rebuild", "repair"},
         mode \in {"launch", "resume", "inner", "partial", "rollback"},
         Startable, Repairable, [Next]_vars, Calm'
  PROVE  Snapshots'
<1>0. /\ venv \in Venvs /\ backup \in Venvs
      /\ marker # NoFile => marker.kind \in {"inPlace", "rebuild"}
      /\ receipt # NoFile /\ receipt.version \in {"old", "new"} /\ receipt.lock \in {"old", "new"}
      /\ receiptBackup # NoFile =>
            receiptBackup.version \in {"old", "new"} /\ receiptBackup.lock \in {"old", "new"}
      /\ lock \in {"old", "new"} /\ lock # NoFile /\ lockBackup \in {"old", "new", NoFile}
  BY FileAssumption DEF FilesOK, Receipts, Locks, Markers, Repairable, OneWay
<1>cleared. pc = "clearMarker" /\ intact => Sound(venv)
  BY <1>0, SoundWhenCleared DEF Repairable
<1>prepared. pc = "prepare" => Sound(venv) \/ (MarkedAs("inPlace") /\ ~belowFloor)
  BY <1>0, SoundWhenPrepared
<1>marks. Mark /\ ~Fault("io") =>
            /\ marker' \in Markers /\ MarkedAs("inPlace")' /\ (marker'.lock <=> LockDiffers)
            /\ receipt.version = "old"
  <2>1. ASSUME Mark, ~Fault("io")
        PROVE  pc' # "failed"
    BY <2>1 DEF Mark, Go
  <2>2. QED
    BY <2>1, MarkMarks DEF Mark, At, Repairable, OneWay, Starting
<1> USE <1>0, CalmMeans
<1> USE DEF WayTaken, Startable, Fresh, Aside, Present, Repairable, OneWay, MarkerMeans, Progress,
            Sound, SoundDeps, SoundApp, RepairDue, FoundBy, MarkedAs, At, Go, Undoing,
            UndoingInPlace, UndoingRebuild, UndoingRest, Starting, Rebuilding, Installing,
            Committing, files, disk, profile, locals, world, Recovering,
            Snapshots, Standing, Unsnapped
<1>1. CASE Launch
  BY <1>1 DEF Launch
<1>2. CASE Launched
  BY <1>2 DEF Launched, Plan
<1>3. CASE RequestUpgrade
  BY <1>3 DEF RequestUpgrade, User
<1>4. CASE RetryUpgrade
  BY <1>4 DEF RetryUpgrade, User
<1>5. CASE DismissFailure
  BY <1>5 DEF DismissFailure, User
<1>6. CASE Quit
  BY <1>6 DEF Quit
<1>7. CASE Recover
  BY <1>7 DEF Recover, Back, UndoInPlace, UndoRebuild, HasLock
<1>8. CASE Rollback
  BY <1>8 DEF Rollback, Back, UndoInPlace, UndoRebuild, HasLock
<1>9. CASE UndoDeps
  <2>1. CASE online /\ venv' = [venv EXCEPT !.deps = lockBackup]
    BY <1>9, <2>1, DepsBack DEF UndoDeps, Give, Back, AfterLock, HasLock, Recovering
  <2>2. CASE Give("undoLock") /\ venv' = venv
    BY <1>9, <2>2 DEF UndoDeps, Give, Back, AfterLock, HasLock, Recovering
  <2>3. CASE Give("undoLock") /\ venv' = [venv EXCEPT !.deps = "mixed"]
    BY <1>9, <2>3, DepsBack DEF UndoDeps, Give, Back, AfterLock, HasLock, Recovering
  <2>4. QED
    BY <1>9, <2>1, <2>2, <2>3 DEF UndoDeps
<1>10. CASE UndoWheel
  <2>1. CASE online /\ venv' = [venv EXCEPT !.app = marker.version]
    BY <1>10, <2>1, AppBack DEF UndoWheel, Give, Back, AfterLock, HasLock, Recovering
  <2>2. CASE Give("undoReceipt") /\ venv' = venv
    BY <1>10, <2>2 DEF UndoWheel, Give, Back, AfterLock, HasLock, Recovering
  <2>3. QED
    BY <1>10, <2>1, <2>2 DEF UndoWheel
<1>11. CASE UndoLock
  BY <1>11 DEF UndoLock, Give, Back, AfterLock, HasLock, Recovering
<1>12. CASE DropLockBackup
  BY <1>12 DEF DropLockBackup, Give, Back, AfterLock, HasLock, Recovering
<1>13. CASE UndoRemove
  BY <1>13 DEF UndoRemove, Give, Back, AfterLock, HasLock, Recovering
<1>14. CASE UndoRename
  BY <1>14, AbsentTyped DEF UndoRename, Give
<1>15. CASE UndoReceipt
  BY <1>15 DEF UndoReceipt, Give, Back, AfterLock, HasLock, Recovering
<1>16. CASE DropReceiptBackup
  BY <1>16 DEF DropReceiptBackup, Give, Back, AfterLock, HasLock, Recovering
<1>17. CASE ClearMarker
  <2>1. CASE intact
    BY <1>17, <2>1, <1>cleared DEF ClearMarker, Back
  <2>2. CASE ~intact
    BY <1>17, <2>2 DEF ClearMarker, Back
  <2>3. QED
    BY <2>1, <2>2
<1>18. CASE Upgrade
  BY <1>18 DEF Upgrade
<1>19. CASE Prepare
  BY <1>19, <1>prepared DEF Prepare, LockDiffers
<1>20. CASE SnapshotLock
  BY <1>20 DEF SnapshotLock, LockDiffers
<1>21. CASE SnapshotReceipt
  BY <1>21 DEF SnapshotReceipt, LockDiffers
<1>22. CASE Mark
  BY <1>22, MarkMarks, <1>marks DEF Mark
<1>23. CASE Purge
  BY <1>23, AbsentTyped, RemainsTyped DEF Purge
<1>24. CASE MarkRebuild
  BY <1>24 DEF MarkRebuild
<1>25. CASE MoveAside
  BY <1>25 DEF MoveAside
<1>26. CASE Snapshot
  BY <1>26 DEF Snapshot
<1>27. CASE Create
  BY <1>27 DEF Create, UndoInstall, UndoInPlace, UndoRebuild, HasLock
<1>28. CASE PutLock
  BY <1>28 DEF PutLock, UndoInstall, UndoInPlace, UndoRebuild, HasLock
<1>29. CASE InstallDeps
  <2>1. CASE online /\ venv' = [venv EXCEPT !.deps = "new"]
    BY <1>29, <2>1, DepsBack DEF InstallDeps, UndoInstall, UndoInPlace, UndoRebuild, HasLock
  <2>2. CASE UndoInstall /\ venv' = venv
    BY <1>29, <2>2 DEF InstallDeps, UndoInstall, UndoInPlace, UndoRebuild, HasLock
  <2>3. CASE UndoInstall /\ venv' = [venv EXCEPT !.deps = "mixed"]
    BY <1>29, <2>3, DepsBack DEF InstallDeps, UndoInstall, UndoInPlace, UndoRebuild, HasLock
  <2>4. QED
    BY <1>29, <2>1, <2>2, <2>3 DEF InstallDeps
<1>30. CASE InstallWheel
  <2>1. CASE online /\ venv' = [venv EXCEPT !.app = "new"]
    BY <1>30, <2>1, AppBack DEF InstallWheel, UndoInstall, UndoInPlace, UndoRebuild, HasLock
  <2>2. CASE UndoInstall /\ venv' = venv
    BY <1>30, <2>2 DEF InstallWheel, UndoInstall, UndoInPlace, UndoRebuild, HasLock
  <2>3. QED
    BY <1>30, <2>1, <2>2 DEF InstallWheel
<1>31. CASE SmokeTest
  BY <1>31 DEF SmokeTest, UndoInstall, UndoInPlace, UndoRebuild, HasLock
<1>32. CASE PutReceipt
  BY <1>32 DEF PutReceipt, UndoInstall, UndoInPlace, UndoRebuild, HasLock
<1>33. CASE StampReady
  <2>1. venv' = [venv EXCEPT !.ready = TRUE] /\ pc' = "boot" /\ UNCHANGED <<backup, files, mode,
      how, belowFloor>>
    BY <1>33 DEF StampReady
  <2>2. venv'.app = venv.app /\ venv'.deps = venv.deps
    BY <2>1, <1>0, StampTyped
  <2>3. QED
    BY <1>33, <2>1, <2>2 DEF StampReady
<1>34. CASE BootValidation
  BY <1>34 DEF BootValidation
<1>35. CASE CommitBackup
  BY <1>35, AbsentTyped DEF CommitBackup
<1>36. CASE CommitReceipt
  BY <1>36 DEF CommitReceipt
<1>37. CASE CommitLock
  BY <1>37 DEF CommitLock
<1>38. CASE CommitMarker
  BY <1>38 DEF CommitMarker
<1>39. CASE Done
  BY <1>39 DEF Done
<1>40. CASE Failed
  BY <1>40 DEF Failed
<1>41. CASE GoOffline
  BY <1>41 DEF GoOffline, LockDiffers
<1>42. CASE GoOnline
  BY <1>42 DEF GoOnline, LockDiffers
<1>43. CASE Crash
  <2>1. CASE venv' = venv
    BY <1>43, <2>1 DEF Crash
  <2>2. CASE pc \in {"deps", "undoDeps"} /\ venv' = [venv EXCEPT !.deps = "mixed"]
    BY <1>43, <2>2, DepsBack DEF Crash
  <2>3. CASE pc \in {"wheel", "undoWheel"} /\ venv' = [venv EXCEPT !.app = "torn"]
    BY <1>43, <2>3, AppBack DEF Crash
  <2>4. CASE pc = "undoRemove"
    BY <1>43, <2>4 DEF Crash
  <2>5. QED
    BY <1>43, <2>1, <2>2, <2>3, <2>4 DEF Crash
<1>44. CASE Tear
  BY <1>44 DEF Tear
<1>45. CASE UNCHANGED vars
  BY <1>45 DEF vars, LockDiffers
<1>46. QED
  BY <1>1, <1>2, <1>3, <1>4, <1>5, <1>6, <1>7, <1>8, <1>9, <1>10, <1>11, <1>12, <1>13, <1>14,
      <1>15, <1>16, <1>17, <1>18, <1>19, <1>20, <1>21, <1>22, <1>23, <1>24, <1>25, <1>26, <1>27,
          <1>28, <1>29, <1>30, <1>31, <1>32, <1>33, <1>34, <1>35, <1>36, <1>37, <1>38, <1>39,
              <1>40, <1>41, <1>42, <1>43, <1>44, <1>45 DEF Next, Undo, Install, Finish
-----------------------------------------------------------------------------
\* The three regimes of faults in which the disk holds a way back.
LEMMA RegimeMeans ==
  ASSUME NEW kinds, [Next]_vars, Only(kinds)'
  PROVE  Only(kinds) /\ \A kind : Fault(kind) => kind \in kinds
<1>1. \A kind : Fault(kind) => kind \in faults'.kinds /\ faults.kinds \subseteq faults'.kinds
  BY DEF Fault
<1>2. faults.kinds \subseteq faults'.kinds
  BY <1>1, FaultsGrow
<1>3. QED
  BY <1>1, <1>2 DEF Only

\* What holds in each.
LEMMA WaysBackInductive ==
  ASSUME FilesOK, WayTaken, how \in {"inPlace", "rebuild", "repair"},
         mode \in {"launch", "resume", "inner", "partial", "rollback"},
         Startable, Repairable, WaysBack, [Next]_vars, Calm'
  PROVE  WaysBack'
<1>0. /\ venv \in Venvs /\ backup \in Venvs
      /\ marker # NoFile => marker.kind \in {"inPlace", "rebuild"}
      /\ receipt # NoFile /\ receipt.version \in {"old", "new"} /\ receipt.lock \in {"old", "new"}
      /\ receiptBackup # NoFile =>
            receiptBackup.version \in {"old", "new"} /\ receiptBackup.lock \in {"old", "new"}
      /\ lock \in {"old", "new"} /\ lock # NoFile /\ lockBackup \in {"old", "new", NoFile}
  BY FileAssumption DEF FilesOK, Receipts, Locks, Markers, Repairable, OneWay
<1>cleared. pc = "clearMarker" /\ intact => Sound(venv)
  BY <1>0, SoundWhenCleared DEF Repairable
<1>prepared. pc = "prepare" => Sound(venv) \/ (MarkedAs("inPlace") /\ ~belowFloor)
  BY <1>0, SoundWhenPrepared
<1>marks. Mark /\ ~Fault("io") =>
            /\ marker' \in Markers /\ MarkedAs("inPlace")' /\ (marker'.lock <=> LockDiffers)
            /\ receipt.version = "old"
  <2>1. ASSUME Mark, ~Fault("io")
        PROVE  pc' # "failed"
    BY <2>1 DEF Mark, Go
  <2>2. QED
    BY <2>1, MarkMarks DEF Mark, At, Repairable, OneWay, Starting
<1>repaired. /\ Repaired(receipt).version = receipt.version
             /\ Repaired(receipt).lock = "new"
  <2>1. receipt \in [version : {"old", "new"}, lock : {"old", "new"}]
    BY FileAssumption DEF FilesOK, Receipts, Repairable, OneWay
  <2>2. Repaired(receipt) = [receipt EXCEPT !.lock = "new"]
    BY DEF Repaired, Repairable, OneWay
  <2>3. QED
    BY <2>1, <2>2
<1>killed. Only({"crash"})' => /\ Only({"crash"}) /\ OnlyKilled
                               /\ ~Fault("offline") /\ ~Fault("smoke") /\ ~Fault("boot")
  BY RegimeMeans DEF WaysBack
<1>alive. Only({"offline", "smoke", "boot"})' => NeverKilled /\ ~Fault("crash")
  BY RegimeMeans DEF WaysBack
<1>noboot. Only({"crash", "offline", "smoke"})' => NoRollback /\ ~Fault("boot")
  BY RegimeMeans DEF WaysBack
<1> USE <1>0, CalmMeans, <1>killed, <1>alive, <1>noboot
<1> USE DEF WayTaken, Startable, Fresh, Aside, Present, Repairable, OneWay, MarkerMeans, Progress,
            Sound, SoundDeps, SoundApp, RepairDue, FoundBy, MarkedAs, At, Go, Undoing,
            UndoingInPlace, UndoingRebuild, UndoingRest, Starting, Rebuilding, Installing,
            Committing, files, disk, profile, locals, world, Recovering,
            Snapshots, Standing, Unsnapped, OnlyKilled, NeverKilled, NoRollback, WaysBack, UpToDate, Exhausted,
            InstalledOld, RequirementsStale
<1>1. CASE Launch
  BY <1>1 DEF Launch
<1>2. CASE Launched
  BY <1>2 DEF Launched, Plan
<1>3. CASE RequestUpgrade
  BY <1>3 DEF RequestUpgrade, User
<1>4. CASE RetryUpgrade
  BY <1>4 DEF RetryUpgrade, User
<1>5. CASE DismissFailure
  BY <1>5 DEF DismissFailure, User
<1>6. CASE Quit
  BY <1>6 DEF Quit
<1>7. CASE Recover
  BY <1>7 DEF Recover, Back, UndoInPlace, UndoRebuild, HasLock
<1>8. CASE Rollback
  BY <1>8 DEF Rollback, Back, UndoInPlace, UndoRebuild, HasLock
<1>9. CASE UndoDeps
  <2>1. CASE online /\ venv' = [venv EXCEPT !.deps = lockBackup]
    BY <1>9, <2>1, DepsBack DEF UndoDeps, Give, Back, AfterLock, HasLock, Recovering
  <2>2. CASE Give("undoLock") /\ venv' = venv
    BY <1>9, <2>2 DEF UndoDeps, Give, Back, AfterLock, HasLock, Recovering
  <2>3. CASE Give("undoLock") /\ venv' = [venv EXCEPT !.deps = "mixed"]
    BY <1>9, <2>3, DepsBack DEF UndoDeps, Give, Back, AfterLock, HasLock, Recovering
  <2>4. QED
    BY <1>9, <2>1, <2>2, <2>3 DEF UndoDeps
<1>10. CASE UndoWheel
  <2>1. CASE online /\ venv' = [venv EXCEPT !.app = marker.version]
    BY <1>10, <2>1, AppBack DEF UndoWheel, Give, Back, AfterLock, HasLock, Recovering
  <2>2. CASE Give("undoReceipt") /\ venv' = venv
    BY <1>10, <2>2 DEF UndoWheel, Give, Back, AfterLock, HasLock, Recovering
  <2>3. QED
    BY <1>10, <2>1, <2>2 DEF UndoWheel
<1>11. CASE UndoLock
  BY <1>11 DEF UndoLock, Give, Back, AfterLock, HasLock, Recovering
<1>12. CASE DropLockBackup
  BY <1>12 DEF DropLockBackup, Give, Back, AfterLock, HasLock, Recovering
<1>13. CASE UndoRemove
  BY <1>13 DEF UndoRemove, Give, Back, AfterLock, HasLock, Recovering
<1>14. CASE UndoRename
  BY <1>14, AbsentTyped DEF UndoRename, Give
<1>15. CASE UndoReceipt
  BY <1>15 DEF UndoReceipt, Give, Back, AfterLock, HasLock, Recovering
<1>16. CASE DropReceiptBackup
  BY <1>16 DEF DropReceiptBackup, Give, Back, AfterLock, HasLock, Recovering
<1>17. CASE ClearMarker
  <2>1. CASE intact
    BY <1>17, <2>1, <1>cleared DEF ClearMarker, Back
  <2>2. CASE ~intact
    BY <1>17, <2>2 DEF ClearMarker, Back
  <2>3. QED
    BY <2>1, <2>2
<1>18. CASE Upgrade
  BY <1>18 DEF Upgrade
<1>19. CASE Prepare
  BY <1>19, <1>prepared DEF Prepare, LockDiffers
<1>20. CASE SnapshotLock
  BY <1>20 DEF SnapshotLock, LockDiffers
<1>21. CASE SnapshotReceipt
  BY <1>21 DEF SnapshotReceipt, LockDiffers
<1>22. CASE Mark
  BY <1>22, MarkMarks, <1>marks DEF Mark
<1>23. CASE Purge
  BY <1>23, AbsentTyped, RemainsTyped DEF Purge
<1>24. CASE MarkRebuild
  BY <1>24 DEF MarkRebuild
<1>25. CASE MoveAside
  BY <1>25 DEF MoveAside
<1>26. CASE Snapshot
  BY <1>26 DEF Snapshot
<1>27. CASE Create
  BY <1>27 DEF Create, UndoInstall, UndoInPlace, UndoRebuild, HasLock
<1>28. CASE PutLock
  BY <1>28 DEF PutLock, UndoInstall, UndoInPlace, UndoRebuild, HasLock
<1>29. CASE InstallDeps
  <2>1. CASE online /\ venv' = [venv EXCEPT !.deps = "new"]
    BY <1>29, <2>1, DepsBack DEF InstallDeps, UndoInstall, UndoInPlace, UndoRebuild, HasLock
  <2>2. CASE UndoInstall /\ venv' = venv
    BY <1>29, <2>2 DEF InstallDeps, UndoInstall, UndoInPlace, UndoRebuild, HasLock
  <2>3. CASE UndoInstall /\ venv' = [venv EXCEPT !.deps = "mixed"]
    BY <1>29, <2>3, DepsBack DEF InstallDeps, UndoInstall, UndoInPlace, UndoRebuild, HasLock
  <2>4. QED
    BY <1>29, <2>1, <2>2, <2>3 DEF InstallDeps
<1>30. CASE InstallWheel
  <2>1. CASE online /\ venv' = [venv EXCEPT !.app = "new"]
    BY <1>30, <2>1, AppBack DEF InstallWheel, UndoInstall, UndoInPlace, UndoRebuild, HasLock
  <2>2. CASE UndoInstall /\ venv' = venv
    BY <1>30, <2>2 DEF InstallWheel, UndoInstall, UndoInPlace, UndoRebuild, HasLock
  <2>3. QED
    BY <1>30, <2>1, <2>2 DEF InstallWheel
<1>31. CASE SmokeTest
  BY <1>31 DEF SmokeTest, UndoInstall, UndoInPlace, UndoRebuild, HasLock
<1>32. CASE PutReceipt
  BY <1>32, <1>repaired DEF PutReceipt, UndoInstall, UndoInPlace, UndoRebuild, HasLock
<1>33. CASE StampReady
  <2>1. venv' = [venv EXCEPT !.ready = TRUE] /\ pc' = "boot" /\ UNCHANGED <<backup, files, mode,
      how, belowFloor>>
    BY <1>33 DEF StampReady
  <2>2. venv'.app = venv.app /\ venv'.deps = venv.deps
    BY <2>1, <1>0, StampTyped
  <2>3. QED
    BY <1>33, <2>1, <2>2 DEF StampReady
<1>34. CASE BootValidation
  BY <1>34 DEF BootValidation
<1>35. CASE CommitBackup
  BY <1>35, AbsentTyped DEF CommitBackup
<1>36. CASE CommitReceipt
  BY <1>36 DEF CommitReceipt
<1>37. CASE CommitLock
  BY <1>37 DEF CommitLock
<1>38. CASE CommitMarker
  BY <1>38 DEF CommitMarker
<1>39. CASE Done
  BY <1>39 DEF Done
<1>40. CASE Failed
  BY <1>40 DEF Failed
<1>41. CASE GoOffline
  BY <1>41 DEF GoOffline
<1>42. CASE GoOnline
  BY <1>42 DEF GoOnline
<1>43. CASE Crash
  <2>1. CASE venv' = venv
    BY <1>43, <2>1 DEF Crash
  <2>2. CASE pc \in {"deps", "undoDeps"} /\ venv' = [venv EXCEPT !.deps = "mixed"]
    BY <1>43, <2>2, DepsBack DEF Crash
  <2>3. CASE pc \in {"wheel", "undoWheel"} /\ venv' = [venv EXCEPT !.app = "torn"]
    BY <1>43, <2>3, AppBack DEF Crash
  <2>4. CASE pc = "undoRemove"
    BY <1>43, <2>4 DEF Crash
  <2>5. QED
    BY <1>43, <2>1, <2>2, <2>3, <2>4 DEF Crash
<1>44. CASE Tear
  BY <1>44 DEF Tear
<1>45. CASE UNCHANGED vars
  BY <1>45 DEF vars
<1>46. QED
  BY <1>1, <1>2, <1>3, <1>4, <1>5, <1>6, <1>7, <1>8, <1>9, <1>10, <1>11, <1>12, <1>13, <1>14,
      <1>15, <1>16, <1>17, <1>18, <1>19, <1>20, <1>21, <1>22, <1>23, <1>24, <1>25, <1>26, <1>27,
          <1>28, <1>29, <1>30, <1>31, <1>32, <1>33, <1>34, <1>35, <1>36, <1>37, <1>38, <1>39,
              <1>40, <1>41, <1>42, <1>43, <1>44, <1>45 DEF Next, Undo, Install, Finish
-----------------------------------------------------------------------------
LEMMA ControlTypes ==
  ASSUME Control
  PROVE  TypeOK
BY DEF Control, FilesOK, RestOK, FaultsOK, FailureOK, TypeOK

LEMMA UpgradeInit ==
  ASSUME Init
  PROVE  UpgradeInv
<1>1. PICK app \in {"old", "new"}, deps \in {"old", "new"} :
         /\ <<app, deps>> # <<"new", "new">>
         /\ venv = [app |-> app, deps |-> deps, ready |-> TRUE]
         /\ receipt = [version |-> app, lock |-> deps]
         /\ lock = deps
  BY DEF Init
<1>2. FilesOK
  <2>1. venv \in Venvs
    BY <1>1 DEF Venvs
  <2>2. receipt \in [version : {"old", "new"}, lock : {"old", "new"}]
    BY <1>1
  <2>3. QED
    BY <1>1, <2>1, <2>2, AbsentTyped, FileAssumption DEF Init, FilesOK, Receipts, Locks
<1>3. RestOK /\ FaultsOK /\ FailureOK
  <2>1. RestOK /\ FailureOK
    BY DEF Init, RestOK, FailureOK
  <2>2. FaultsOK
    BY UpgradeAssumption DEF Init, FaultsOK
  <2>3. QED
    BY <2>1, <2>2
<1>4. WayTaken /\ AttemptLeft /\ Found /\ (Agreed => Kept /\ PutBack)
  BY AbsentTyped, FileAssumption DEF Init, WayTaken, AttemptLeft, Found, Receipts, ForUpgrade,
     Kept, PutBack, UndoingInPlace, UndoingRebuild, UndoingRest, Undoing, Starting, Rebuilding,
     Installing, Committing
<1>5. venv.ready /\ venv.app = receipt.version /\ venv.deps = receipt.lock /\ Sound(venv)
  BY <1>1 DEF Sound
<1>6. Startable
  BY <1>1, <1>5, AbsentTyped DEF Init, Startable, Present, Fresh, Aside, UndoingRebuild,
      Installing,
                                 Sound
<1>7. OneWay
  BY <1>1, <1>5, FileAssumption DEF Init, OneWay, Torn, RepairDue, Undoing, UndoingInPlace, UndoingRebuild, UndoingRest,
              Starting, Rebuilding, Installing
<1>8. MarkerMeans /\ Progress
  BY <1>5, AbsentTyped DEF Init, MarkerMeans, Progress, MarkedAs, Present, Undoing,
      UndoingInPlace,
     UndoingRebuild, UndoingRest, Committing
<1>9. Snapshots /\ WaysBack
  BY <1>1, <1>5 DEF Init, Snapshots, WaysBack, OnlyKilled, NeverKilled, NoRollback, Unsnapped,
     MarkedAs, Recovering, Sound, SoundApp, Undoing, UndoingInPlace, UndoingRebuild,
     UndoingRest, Starting, Installing, Committing, Standing
<1>10. QED
  BY <1>2, <1>3, <1>4, <1>6, <1>7, <1>8, <1>9
  DEF UpgradeInv, Control, Restorable, Repairable

LEMMA UpgradeStep ==
  ASSUME UpgradeInv, [Next]_vars
  PROVE  UpgradeInv'
<1>1. FilesOK /\ RestOK /\ FaultsOK /\ FailureOK /\ WayTaken /\ AttemptLeft
  BY DEF UpgradeInv, Control
<1>2. /\ how \in {"inPlace", "rebuild", "repair"}
      /\ mode \in {"launch", "resume", "inner", "partial", "rollback"}
  BY <1>1 DEF RestOK
<1>3. Control'
  BY <1>1, <1>2, FilesInductive, RestInductive, FaultsInductive, WayInductive, AttemptsInductive
  DEF Control
<1>4. Found' /\ Restorable'
  BY <1>1, <1>2, FoundInductive, RestorableInductive DEF UpgradeInv
<1>5. ASSUME NoIo' PROVE Startable'
  BY <1>1, <1>2, <1>5, NoIoMeans, StartableInductive DEF UpgradeInv
<1>6. Calm => Startable /\ Repairable
  BY DEF UpgradeInv, Calm, NoIo, Only
<1>7. ASSUME Calm' PROVE Repairable'
  BY <1>1, <1>2, <1>6, <1>7, CalmMeans, OneWayInductive, MeansInductive, ProgressInductive,
     SnapshotsInductive DEF Repairable
<1>8. WaysBack'
  <2>1. CASE Calm'
    BY <1>1, <1>2, <1>6, <2>1, CalmMeans, WaysBackInductive DEF UpgradeInv
  <2>2. CASE ~Calm'
    BY <2>2 DEF WaysBack, Calm, Only
  <2>3. QED
    BY <2>1, <2>2
<1>9. QED
  BY <1>3, <1>4, <1>5, <1>7, <1>8 DEF UpgradeInv

\* The inductive invariant.
THEOREM UpgradeInvariant == Spec => []UpgradeInv
<1>1. Init => UpgradeInv
  BY UpgradeInit
<1>2. UpgradeInv /\ [Next]_vars => UpgradeInv'
  BY UpgradeStep
<1>3. QED
  BY <1>1, <1>2, PTL DEF Spec

\* The types, and no more automatic attempts than MAX_UPGRADE_AUTO_RETRIES, whatever
\* fails and however often the app is launched.
THEOREM TypeCorrect == Spec => []TypeOK
<1>1. UpgradeInv => TypeOK
  BY ControlTypes DEF UpgradeInv
<1>2. QED
  BY <1>1, UpgradeInvariant, PTL

\* An undoing of which no step failed leaves the environment and the receipt that the
\* upgrade found, in place or rebuilt, wherever the upgrade failed.
THEOREM RollbackFaithful == Spec => []RollbackRestores
<1>1. UpgradeInv => RollbackRestores
  <2> SUFFICES ASSUME UpgradeInv, pc = "failed", intact, how # "repair",
                      before.lock = before.venv.deps,
                      before.receipt = [version |-> before.venv.app, lock |-> before.lock]
               PROVE  venv = before.venv /\ receipt = before.receipt
    BY DEF RollbackRestores
  <2>1. QED
    BY DEF UpgradeInv, Restorable, Agreed, PutBack
<1>2. QED
  BY <1>1, UpgradeInvariant, PTL

\* Under the marker of an upgrade in place, the recovery can succeed, or the live
\* environment needs none, or only the snapshot of the lock is missing.
LEMMA WaysOut ==
  ASSUME UpgradeInv, Calm
  PROVE  Whole \/ CanRecover \/ RepairHeals \/ (Unsnapped /\ venv.ready)
<1>1. Startable /\ OneWay /\ MarkerMeans
  BY DEF UpgradeInv, Repairable, Calm, NoIo, Only
<1>2. marker # NoFile => marker.kind \in {"inPlace", "rebuild"}
  BY DEF UpgradeInv, Control, FilesOK, Markers
<1>3. CASE marker = NoFile
  <2>1. venv.ready
    BY <1>1, <1>3 DEF Startable, MarkedAs
  <2>2. CASE RepairDue
    BY <1>1, <2>1, <2>2 DEF OneWay, RepairDue, RepairHeals, RequirementsStale, InstalledOld
  <2>3. QED
    BY <1>1, <1>3, <2>1, <2>2 DEF MarkerMeans, Whole
<1>4. CASE MarkedAs("inPlace")
  BY <1>1, <1>4 DEF Startable, MarkedAs, CanRecover, Unsnapped
<1>5. CASE MarkedAs("rebuild")
  BY <1>1, <1>5 DEF Startable, MarkerMeans, Whole, CanRecover
<1>6. QED
  BY <1>2, <1>3, <1>4, <1>5 DEF MarkedAs

\* What the app comes up with, by what has failed so far: an environment with its ready
\* receipt; after kills alone, one with nothing half installed; without a kill, one whose
\* app is whole; and in any case of these such a one, or a marker asking for a recovery.
THEOREM AlwaysUsable == Spec => []RuntimeUsable
<1>1. UpgradeInv => RuntimeUsable
  <2> SUFFICES ASSUME UpgradeInv, pc = "running"
               PROVE  /\ NoIo => venv.ready
                      /\ Only({"crash"}) => Sound(venv)
                      /\ Only({"offline", "smoke", "boot"}) => SoundApp
                      /\ Calm => SoundApp \/ MarkedAs("inPlace")
    BY DEF RuntimeUsable, NoIo, Calm, SoundApp
  <2>1. NoIo => venv.ready
    BY DEF UpgradeInv, Startable, Fresh, UndoingRebuild, Installing
  <2>2. Only({"crash"}) => Sound(venv)
    BY DEF UpgradeInv, WaysBack, OnlyKilled
  <2>3. Only({"offline", "smoke", "boot"}) => SoundApp
    BY DEF UpgradeInv, WaysBack, NeverKilled, Aside, Fresh, UndoingRebuild, Installing
  <2>4. ASSUME Calm PROVE SoundApp \/ MarkedAs("inPlace")
    <3>1. OneWay /\ MarkerMeans /\ (MarkedAs("rebuild") => ~Present(backup))
      BY <2>4 DEF UpgradeInv, Repairable, Snapshots, Standing
    <3>2. marker # NoFile => marker.kind \in {"inPlace", "rebuild"}
      BY DEF UpgradeInv, Control, FilesOK, Markers
    <3>3. CASE marker = NoFile
      BY <3>1, <3>3 DEF OneWay, MarkerMeans, Sound, SoundApp
    <3>4. CASE MarkedAs("rebuild")
      BY <3>1, <3>4 DEF MarkerMeans, Sound, SoundApp
    <3>5. QED
      BY <3>2, <3>3, <3>4 DEF MarkedAs
  <2>5. QED
    BY <2>1, <2>2, <2>3, <2>4
<1>2. QED
  BY <1>1, UpgradeInvariant, PTL

\* Killed and nothing else, or never killed, the disk holds all that the recovery of the
\* next launch needs, unless none is needed; killed and offline, it holds that or the
\* means of the upgrade that is due.
THEOREM DiskHoldsWayBack == Spec => []WayBack
<1>1. UpgradeInv => WayBack
  <2> SUFFICES ASSUME UpgradeInv
               PROVE  WayBack
    OBVIOUS
  <2> DEFINE Killed == Only({"crash"})
             Alive == Only({"offline", "smoke", "boot"})
             Offline == Only({"crash", "offline", "smoke"})
  <2>1. Killed \/ Alive \/ Offline => Calm
    BY DEF Only, Calm
  <2>2. Calm => Whole \/ CanRecover \/ RepairHeals \/ (Unsnapped /\ venv.ready)
    BY WaysOut
  <2>3. Killed /\ Unsnapped /\ venv.ready => Whole
    BY DEF UpgradeInv, WaysBack, OnlyKilled, Whole
  <2>4. ASSUME Alive, Unsnapped, venv.ready, ~At("snapshotLock")
        PROVE  Whole
    <3>1. ~Aside
      BY <2>1, <2>4 DEF UpgradeInv, Calm, NoIo, Only, Startable, Unsnapped, MarkedAs
    <3>2. QED
      BY <2>4, <3>1
      DEF UpgradeInv, WaysBack, NeverKilled, At, Whole, Sound, SoundApp, SoundDeps
  <2>5. ASSUME Offline, Unsnapped, venv.ready
        PROVE  Whole \/ UpgradeHeals
    <3>1. OneWay /\ MarkerMeans /\ NoRollback /\ receipt # NoFile
      BY <2>1, <2>5 DEF UpgradeInv, Repairable, WaysBack, Control, FilesOK
    <3>2. CASE receipt.version = "new"
      BY <2>5, <3>1, <3>2 DEF NoRollback, Whole
    <3>3. CASE FoundBy(receipt)
      BY <2>5, <3>1, <3>3 DEF FoundBy, Unsnapped, UpgradeHeals, InstalledOld
    <3>4. QED
      BY <2>5, <3>1, <3>2, <3>3 DEF MarkerMeans, Unsnapped
  <2>6. QED
    BY <2>1, <2>2, <2>3, <2>4, <2>5 DEF WayBack
<1>2. QED
  BY <1>1, UpgradeInvariant, PTL
=============================================================================
