---------------------------------- MODULE Ota ----------------------------------
(***************************************************************************)
(* The firmware update of the Control Unit (otaManager.cc): the periodic   *)
(* and the commanded triggers, otaTask from the version check to the       *)
(* restart, abortOTA on every way out, and a power cut at any instant.     *)
(*                                                                         *)
(* External: the server, which announces its latest version and serves its *)
(* image in chunks, and the boot loader.  esp_ota_set_boot_partition       *)
(* verifies the image once more; nothing here relies on that.              *)
(***************************************************************************)
EXTENDS Naturals

CONSTANTS
  Version,    \* version numbers
  Unread,     \* those whose name VERSION_NAME_REGEX does not match (10.0.0)
  Chunks,     \* chunks of an image
  MaxFaults   \* bound: failures of the network, the flash and the supply

ASSUME OtaAssumption ==
  /\ Version \subseteq Nat \ {0} /\ Unread \subseteq Version
  /\ Chunks \in Nat \ {0} /\ MaxFaults \in Nat

VARIABLES
  at,                                      \* where otaTask is
  startBit,                                \* START_UPDATE_CHECK_BIT
  isUpdateCheckRunning, otaUpdateRunning,
  newVersionName, otaWriteDataBuffer,      \* allocated or not
  client, updateHandle,                    \* open or not
  received, offered,                       \* chunks read; the version served
  image, running, boot,                    \* the slots; which runs, which is next
  timer,                                   \* the periodic check has its timer
  pump,                                    \* getCurrentMotorState() == ON
  latest, faults

(* Observer: an esp_ota handle was abandoned without esp_ota_abort.        *)
VARIABLES leaked

flags == <<isUpdateCheckRunning, otaUpdateRunning>>
heap == <<newVersionName, otaWriteDataBuffer, client, updateHandle>>
transfer == <<received, offered>>
flash == <<image, running, boot>>
world == <<timer, pump, latest>>
vars == <<at, startBit, flags, heap, transfer, flash, world, faults, leaked>>

Slot == {0, 1}
Other(slot) == 1 - slot
Whole(slot) == image[slot].written = Chunks /\ image[slot].intact
Current == image[running].version

isOTAUpdateRunning == isUpdateCheckRunning \/ otaUpdateRunning

(* The number of a version whose name cannot be read is 0.                 *)
getCurrentFirmwareVersionNumber == IF Current \in Unread THEN 0 ELSE Current

Init ==
  /\ at = "wait" /\ startBit = FALSE
  /\ isUpdateCheckRunning = FALSE /\ otaUpdateRunning = FALSE
  /\ newVersionName = FALSE /\ otaWriteDataBuffer = FALSE
  /\ client = FALSE /\ updateHandle = FALSE /\ received = 0 /\ offered = 0
  /\ timer = FALSE /\ leaked = FALSE
  /\ \E v \in Version :
       image = [slot \in Slot |->
                  [version |-> v, written |-> IF slot = 0 THEN Chunks ELSE 0, intact |-> TRUE]]
  /\ running = 0 /\ boot = 0
  /\ pump = FALSE /\ latest \in Version /\ faults = 0

-----------------------------------------------------------------------------
(* Environment and triggers.                                               *)

Fault == faults < MaxFaults /\ faults' = faults + 1

(* The broker comes and goes, the pump starts and stops, a release is      *)
(* published or withdrawn.                                                 *)
WorldChanges ==
  /\ \/ timer' = ~timer /\ UNCHANGED <<pump, latest>>
     \/ pump' = ~pump /\ UNCHANGED <<timer, latest>>
     \/ latest' \in Version \ {latest} /\ UNCHANGED <<timer, pump>>
  /\ UNCHANGED <<at, startBit, flags, heap, transfer, flash, faults, leaked>>

TriggerUpdateCheck ==
  /\ ~isOTAUpdateRunning /\ startBit' = TRUE
  /\ UNCHANGED <<at, flags, heap, transfer, flash, world, faults, leaked>>

otaTimerCallback == timer /\ TriggerUpdateCheck

-----------------------------------------------------------------------------
(* otaTask.  Each way out of an attempt goes through abortOTA.             *)

Step(from, to) == at = from /\ at' = to

(* Mutant: only the flag of the check is cleared. *)
AbortOTABug ==
  /\ at' = "wait" /\ isUpdateCheckRunning' = FALSE /\ UNCHANGED otaUpdateRunning
  /\ newVersionName' = FALSE /\ otaWriteDataBuffer' = FALSE

AbortOTA ==
  /\ at' = "wait" /\ isUpdateCheckRunning' = FALSE /\ otaUpdateRunning' = FALSE
  /\ newVersionName' = FALSE /\ otaWriteDataBuffer' = FALSE

NotYetOpen == UNCHANGED <<client, updateHandle, transfer, flash, leaked>>

TaskWakes ==
  /\ Step("wait", "woken") /\ startBit /\ startBit' = FALSE
  /\ UNCHANGED <<flags, heap, transfer, flash, world, faults, leaked>>

CheckStarts ==
  /\ Step("woken", "check") /\ isUpdateCheckRunning' = TRUE
  /\ UNCHANGED <<startBit, otaUpdateRunning, heap, transfer, flash, world, faults, leaked>>

(* No answer, or one that is not a version. *)
CheckFails ==
  /\ at = "check" /\ Fault /\ AbortOTA
  /\ NotYetOpen /\ UNCHANGED <<startBit, world>>

UpToDate ==
  /\ at = "check" /\ getCurrentFirmwareVersionNumber >= latest /\ AbortOTA
  /\ NotYetOpen /\ UNCHANGED <<startBit, world, faults>>

FindsUpdate ==
  /\ Step("check", "clearance") /\ getCurrentFirmwareVersionNumber < latest
  /\ newVersionName' = TRUE
  /\ NotYetOpen /\ UNCHANGED <<startBit, flags, otaWriteDataBuffer, world, faults>>

Postponed ==
  /\ at = "clearance" /\ pump /\ AbortOTA
  /\ NotYetOpen /\ UNCHANGED <<startBit, world, faults>>

(* One flag is cleared before the other is set. *)
Cleared ==
  /\ Step("clearance", "between") /\ ~pump /\ isUpdateCheckRunning' = FALSE
  /\ NotYetOpen /\ UNCHANGED <<startBit, otaUpdateRunning, newVersionName, otaWriteDataBuffer, world, faults>>

(* Mutant: the update begins without having raised its flag. *)
UpdateStartsBug ==
  /\ Step("between", "open")
  /\ UNCHANGED <<startBit, flags, heap, transfer, flash, world, faults, leaked>>

UpdateStarts ==
  /\ Step("between", "open") /\ otaUpdateRunning' = TRUE
  /\ UNCHANGED <<startBit, isUpdateCheckRunning, heap, transfer, flash, world, faults, leaked>>

OpenFails ==
  /\ at = "open" /\ Fault /\ AbortOTA
  /\ NotYetOpen /\ UNCHANGED <<startBit, world>>

Opens ==
  /\ Step("open", "download") /\ client' = TRUE /\ otaWriteDataBuffer' = TRUE
  /\ received' = 0 /\ offered' = latest
  /\ UNCHANGED <<startBit, flags, newVersionName, updateHandle, flash, world, faults, leaked>>

-----------------------------------------------------------------------------
(* The download.                                                           *)

Closes == client' = FALSE

(* The only way out that leaves the update handle open. *)
ReadFails ==
  /\ at = "download" /\ Fault /\ Closes /\ AbortOTA
  /\ updateHandle' = FALSE /\ leaked' = (leaked \/ updateHandle)
  /\ UNCHANGED <<startBit, transfer, flash, world>>

(* Mutant: an image of the version that runs already is taken, too. *)
SameVersionBug == FALSE
SameVersion == offered = Current

SameVersionOffered ==
  /\ at = "download" /\ received = 0 /\ SameVersion /\ Closes /\ AbortOTA
  /\ UNCHANGED <<startBit, updateHandle, transfer, flash, world, faults, leaked>>

(* An error message instead of an image, or a partition that cannot be     *)
(* erased.                                                                 *)
NoImage ==
  /\ at = "download" /\ received = 0 /\ ~SameVersion /\ Fault /\ Closes /\ AbortOTA
  /\ UNCHANGED <<startBit, updateHandle, transfer, flash, world, leaked>>

UpdatePartition == Other(running)

MoreToCome == received < Chunks

(* The first chunk begins the update; a chunk may arrive damaged. *)
Receives ==
  /\ at = "download" /\ MoreToCome /\ (received = 0 => ~SameVersion)
  /\ received' = received + 1 /\ updateHandle' = TRUE
  /\ \E good \in BOOLEAN :
       /\ IF good THEN UNCHANGED faults ELSE Fault
       /\ image' = [image EXCEPT ![UpdatePartition] =
                      [version |-> offered, written |-> received + 1,
                       intact |-> good /\ (received = 0 \/ @.intact)]]
  /\ UNCHANGED <<at, startBit, flags, newVersionName, otaWriteDataBuffer, client, offered,
                 running, boot, world, leaked>>

(* esp_ota_write fails on a chunk. *)
WriteFails ==
  /\ at = "download" /\ MoreToCome /\ (received = 0 => ~SameVersion)
  /\ Fault /\ Closes /\ AbortOTA /\ updateHandle' = FALSE
  /\ image' = IF received > 0 THEN image
              ELSE [image EXCEPT ![UpdatePartition] =
                      [version |-> offered, written |-> 0, intact |-> TRUE]]
  /\ UNCHANGED <<startBit, transfer, running, boot, world, leaked>>

(* Everything has been read, or the connection is gone. *)
ReadEnds ==
  /\ Step("download", "finish") /\ IF received = Chunks THEN UNCHANGED faults ELSE Fault
  /\ UNCHANGED <<startBit, flags, heap, transfer, flash, world, leaked>>

Complete == received = Chunks

Incomplete ==
  /\ at = "finish" /\ ~Complete /\ Closes /\ AbortOTA /\ updateHandle' = FALSE
  /\ UNCHANGED <<startBit, transfer, flash, world, faults, leaked>>

(* Mutant: what was received is booted without having been validated. *)
ValidatesBug ==
  /\ at = "finish" /\ Complete /\ updateHandle' = FALSE /\ at' = "switch"
  /\ UNCHANGED <<startBit, flags, newVersionName, otaWriteDataBuffer, client, transfer, flash,
                 world, faults, leaked>>

(* esp_ota_end releases the handle and validates what was written. *)
Validates ==
  /\ at = "finish" /\ Complete /\ updateHandle' = FALSE
  /\ IF Whole(UpdatePartition)
     THEN /\ at' = "switch" /\ UNCHANGED <<flags, newVersionName, otaWriteDataBuffer, client>>
     ELSE Closes /\ AbortOTA
  /\ UNCHANGED <<startBit, transfer, flash, world, faults, leaked>>

SwitchFails ==
  /\ at = "switch" /\ Fault /\ Closes /\ AbortOTA
  /\ UNCHANGED <<startBit, updateHandle, transfer, flash, world, leaked>>

Switches ==
  /\ Step("switch", "restart") /\ boot' = UpdatePartition /\ Closes
  /\ UNCHANGED <<startBit, flags, newVersionName, otaWriteDataBuffer, updateHandle, transfer,
                 image, running, world, faults, leaked>>

(* The boot loader starts the chosen slot, or the other one if its image   *)
(* is damaged.  RAM is lost.                                               *)
Boots ==
  /\ running' = IF Whole(boot) THEN boot ELSE Other(boot)
  /\ at' = "wait" /\ startBit' = FALSE
  /\ isUpdateCheckRunning' = FALSE /\ otaUpdateRunning' = FALSE
  /\ newVersionName' = FALSE /\ otaWriteDataBuffer' = FALSE
  /\ client' = FALSE /\ updateHandle' = FALSE /\ received' = 0 /\ offered' = 0
  /\ timer' = FALSE /\ leaked' = FALSE
  /\ UNCHANGED <<image, boot, pump, latest>>

Restarts == at = "restart" /\ Boots /\ UNCHANGED faults
PowerCut == Fault /\ Boots

-----------------------------------------------------------------------------
Check == TaskWakes \/ CheckStarts \/ CheckFails \/ UpToDate \/ FindsUpdate \/ Postponed
Download == \/ Cleared \/ UpdateStarts \/ OpenFails \/ Opens \/ ReadFails \/ SameVersionOffered
            \/ NoImage \/ Receives \/ WriteFails \/ ReadEnds
Install == Incomplete \/ Validates \/ SwitchFails \/ Switches \/ Restarts
otaTask == Check \/ Download \/ Install

Next == otaTask \/ otaTimerCallback \/ TriggerUpdateCheck \/ WorldChanges \/ PowerCut

Spec == Init /\ [][Next]_vars

(* The task runs, its reads end in one way or another (both transports     *)
(* have timeouts), and the timer is periodic.                              *)
FairSpec == Spec /\ WF_vars(otaTask) /\ WF_vars(otaTimerCallback)

-----------------------------------------------------------------------------
TypeOK ==
  /\ at \in {"wait", "woken", "check", "clearance", "between", "open", "download", "finish",
             "switch", "restart"}
  /\ startBit \in BOOLEAN /\ {isUpdateCheckRunning, otaUpdateRunning} \subseteq BOOLEAN
  /\ {newVersionName, otaWriteDataBuffer, client, updateHandle} \subseteq BOOLEAN
  /\ received \in 0 .. Chunks /\ offered \in Version \cup {0}
  /\ image \in [Slot -> [version : Version, written : 0 .. Chunks, intact : BOOLEAN]]
  /\ running \in Slot /\ boot \in Slot
  /\ timer \in BOOLEAN /\ pump \in BOOLEAN /\ latest \in Version
  /\ faults \in 0 .. MaxFaults /\ leaked \in BOOLEAN

(* Whenever the supply fails, the slot that is booted next holds a whole   *)
(* and validated image: a half-written or damaged one is never chosen, and *)
(* the one that runs is never written to.                                  *)
BootWhole == Whole(boot)

(* However an attempt ended, nothing of it is left when the task waits for *)
(* the next one: no flag that keeps triggers and commands out, no buffer,  *)
(* no name, no connection (an esp_ota handle may have been leaked).        *)
Released ==
  at \in {"wait", "woken"} =>
    /\ ~isOTAUpdateRunning /\ ~newVersionName /\ ~otaWriteDataBuffer
    /\ ~client /\ ~updateHandle

(* Commands are refused from the start of the download to its end.  Only   *)
(* between the version check and the download is there an instant in which *)
(* isOTAUpdateRunning() says that nothing is going on.                     *)
RefusedThroughout == at \notin {"wait", "woken", "between"} => isOTAUpdateRunning

(* No restart installs the version that was running: also when its number  *)
(* cannot be read, so that every check finds an update, and when releases  *)
(* are withdrawn between the check and the download.                       *)
NoReinstall == [][running' # running => image[running'].version # Current]_vars

(* Every attempt ends: commands and checks are possible again.             *)
GateReopens == []<>~isOTAUpdateRunning

(* When a release stays, the broker stays connected and the pump stays     *)
(* off, the device comes to run that release or a newer one.               *)
Converges ==
  \A v \in Version : <>[](latest = v /\ timer /\ ~pump) => <>(Current >= v)

(* The types, and an attempt keeps others out while it lasts and leaves    *)
(* nothing behind (Released, RefusedThroughout).                           *)
AttemptInv == TypeOK /\ Released /\ RefusedThroughout

(* Attempts end, and the device comes to run a release that stays.         *)
OtaProgress == GateReopens /\ Converges
=============================================================================
