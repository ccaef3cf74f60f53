------------------------------- MODULE OtaProofs -------------------------------
(***************************************************************************)
(* The firmware update, proved for every set of versions, every size of an *)
(* image and any number of faults: what is booted next is whole, and what  *)
(* an attempt takes it gives back.                                         *)
(***************************************************************************)
EXTENDS Ota, TLAPS

(* The slot that is booted next is the one that runs, until the other one  *)
(* has been validated and chosen.                                          *)
SlotInv ==
  /\ BootWhole
  /\ IF at = "restart" THEN boot = Other(running) ELSE boot = running
  /\ at = "switch" => Whole(Other(running))

(* What the attempt holds, at each place of it.                            *)
HeldInv ==
  /\ Released /\ RefusedThroughout
  /\ at \in {"check", "clearance"} <=> isUpdateCheckRunning
  /\ at \in {"open", "download", "finish", "switch", "restart"} <=> otaUpdateRunning
  /\ at = "check" => ~newVersionName
  /\ at \in {"check", "clearance", "between", "open"} => ~otaWriteDataBuffer /\ ~client /\ ~updateHandle
  /\ at = "download" => offered \in Version /\ (received = 0 => ~updateHandle)
  /\ at = "switch" => ~updateHandle
  /\ at = "restart" => ~updateHandle /\ ~client

IInv == TypeOK /\ SlotInv /\ HeldInv

LEMMA InitIInv == Init => IInv
<1> SUFFICES ASSUME Init PROVE IInv OBVIOUS
<1> USE OtaAssumption
<1>1. TypeOK
  <2>1. PICK v \in Version : image = [slot \in Slot |->
          [version |-> v, written |-> IF slot = 0 THEN Chunks ELSE 0, intact |-> TRUE]]
    BY DEF Init
  <2>2. image \in [Slot -> [version : Version, written : 0 .. Chunks, intact : BOOLEAN]]
    BY <2>1
  <2>3. received \in 0 .. Chunks /\ faults \in 0 .. MaxFaults BY DEF Init
  <2> QED BY <2>2, <2>3 DEF Init, TypeOK, Slot
<1>2. SlotInv
  BY DEF Init, SlotInv, BootWhole, Whole, Slot
<1>3. HeldInv
  BY DEF Init, HeldInv, Released, RefusedThroughout, isOTAUpdateRunning
<1> QED BY <1>1, <1>2, <1>3 DEF IInv

-----------------------------------------------------------------------------
LEMMA FaultOK ==
  ASSUME TypeOK, Fault
  PROVE  faults' \in 0 .. MaxFaults
BY OtaAssumption DEF TypeOK, Fault

(* A step that leaves flash alone and neither enters nor leaves the two    *)
(* places where the other slot is about to be booted.                      *)
LEMMA SlotStays ==
  ASSUME IInv, UNCHANGED flash,
         at' \notin {"switch", "restart"}, at # "restart"
  PROVE  SlotInv'
BY DEF IInv, SlotInv, BootWhole, Whole, flash, Other

(* The attempt is over, with nothing of the transfer open. *)
LEMMA AbortHeld ==
  ASSUME IInv, AbortOTA, ~client', ~updateHandle'
  PROVE  HeldInv'
BY DEF IInv, HeldInv, AbortOTA, Released, RefusedThroughout, isOTAUpdateRunning

(* Nothing of the download exists before it has begun. *)
LEMMA CheckIInv ==
  ASSUME IInv, Check
  PROVE  IInv'
<1> USE OtaAssumption DEF IInv
<1>1. CASE TaskWakes
  <2>1. TypeOK' BY <1>1 DEF TaskWakes, Step, TypeOK, flags, heap, transfer, flash, world
  <2>2. SlotInv' BY <1>1, SlotStays DEF TaskWakes, Step
  <2>3. HeldInv' BY <1>1 DEF TaskWakes, Step, HeldInv, Released, RefusedThroughout, isOTAUpdateRunning, flags, heap, transfer
  <2> QED BY <2>1, <2>2, <2>3
<1>2. CASE CheckStarts
  <2>1. TypeOK' BY <1>2 DEF CheckStarts, Step, TypeOK, flags, heap, transfer, flash, world
  <2>2. SlotInv' BY <1>2, SlotStays DEF CheckStarts, Step
  <2>3. HeldInv' BY <1>2 DEF CheckStarts, Step, HeldInv, Released, RefusedThroughout, isOTAUpdateRunning, heap, transfer
  <2> QED BY <2>1, <2>2, <2>3
<1>3. CASE CheckFails
  <2>1. TypeOK' BY <1>3, FaultOK DEF CheckFails, AbortOTA, NotYetOpen, TypeOK, flags, heap, transfer, flash, world
  <2>2. SlotInv' BY <1>3, SlotStays DEF CheckFails, AbortOTA, NotYetOpen
  <2>3. HeldInv' BY <1>3, AbortHeld DEF CheckFails, NotYetOpen, HeldInv
  <2> QED BY <2>1, <2>2, <2>3
<1>4. CASE UpToDate
  <2>1. TypeOK' BY <1>4 DEF UpToDate, AbortOTA, NotYetOpen, TypeOK, flags, heap, transfer, flash, world
  <2>2. SlotInv' BY <1>4, SlotStays DEF UpToDate, AbortOTA, NotYetOpen
  <2>3. HeldInv' BY <1>4, AbortHeld DEF UpToDate, NotYetOpen, HeldInv
  <2> QED BY <2>1, <2>2, <2>3
<1>5. CASE FindsUpdate
  <2>1. TypeOK' BY <1>5 DEF FindsUpdate, Step, NotYetOpen, TypeOK, flags, heap, transfer, flash, world
  <2>2. SlotInv' BY <1>5, SlotStays DEF FindsUpdate, Step, NotYetOpen
  <2>3. HeldInv' BY <1>5 DEF FindsUpdate, Step, NotYetOpen, HeldInv, Released, RefusedThroughout, isOTAUpdateRunning, flags, transfer
  <2> QED BY <2>1, <2>2, <2>3
<1>6. CASE Postponed
  <2>1. TypeOK' BY <1>6 DEF Postponed, AbortOTA, NotYetOpen, TypeOK, flags, heap, transfer, flash, world
  <2>2. SlotInv' BY <1>6, SlotStays DEF Postponed, AbortOTA, NotYetOpen
  <2>3. HeldInv' BY <1>6, AbortHeld DEF Postponed, NotYetOpen, HeldInv
  <2> QED BY <2>1, <2>2, <2>3
<1> QED BY <1>1, <1>2, <1>3, <1>4, <1>5, <1>6 DEF Check

(* From the clearance to the first chunk. *)
LEMMA OpenIInv ==
  ASSUME IInv, Cleared \/ UpdateStarts \/ OpenFails \/ Opens
  PROVE  IInv'
<1> USE OtaAssumption DEF IInv
<1>1. CASE Cleared
  <2>1. TypeOK' BY <1>1 DEF Cleared, Step, NotYetOpen, TypeOK, flags, heap, transfer, flash, world
  <2>2. SlotInv' BY <1>1, SlotStays DEF Cleared, Step, NotYetOpen
  <2>3. HeldInv' BY <1>1 DEF Cleared, Step, NotYetOpen, HeldInv, Released, RefusedThroughout, isOTAUpdateRunning, flags, heap, transfer
  <2> QED BY <2>1, <2>2, <2>3
<1>2. CASE UpdateStarts
  <2>1. TypeOK' BY <1>2 DEF UpdateStarts, Step, TypeOK, flags, heap, transfer, flash, world
  <2>2. SlotInv' BY <1>2, SlotStays DEF UpdateStarts, Step
  <2>3. HeldInv' BY <1>2 DEF UpdateStarts, Step, HeldInv, Released, RefusedThroughout, isOTAUpdateRunning, flags, heap, transfer
  <2> QED BY <2>1, <2>2, <2>3
<1>3. CASE OpenFails
  <2>1. TypeOK' BY <1>3, FaultOK DEF OpenFails, AbortOTA, NotYetOpen, TypeOK, flags, heap, transfer, flash, world
  <2>2. SlotInv' BY <1>3, SlotStays DEF OpenFails, AbortOTA, NotYetOpen
  <2>3. HeldInv' BY <1>3, AbortHeld DEF OpenFails, NotYetOpen, HeldInv
  <2> QED BY <2>1, <2>2, <2>3
<1>4. CASE Opens
  <2>1. TypeOK' BY <1>4 DEF Opens, Step, TypeOK, flags, heap, transfer, flash, world
  <2>2. SlotInv' BY <1>4, SlotStays DEF Opens, Step
  <2>3. HeldInv' BY <1>4 DEF Opens, Step, TypeOK, HeldInv, Released, RefusedThroughout, isOTAUpdateRunning, flags, heap, transfer
  <2> QED BY <2>1, <2>2, <2>3
<1> QED BY <1>1, <1>2, <1>3, <1>4

(* The ways out of the download that leave the flash alone. *)
LEMMA GiveUpIInv ==
  ASSUME IInv, ReadFails \/ SameVersionOffered \/ NoImage \/ ReadEnds
  PROVE  IInv'
<1> USE OtaAssumption DEF IInv
<1>1. CASE ReadFails
  <2>1. TypeOK' BY <1>1, FaultOK DEF ReadFails, AbortOTA, Closes, TypeOK, flags, heap, transfer, flash, world
  <2>2. SlotInv' BY <1>1, SlotStays DEF ReadFails, AbortOTA, Closes
  <2>3. HeldInv' BY <1>1, AbortHeld DEF ReadFails, Closes, HeldInv
  <2> QED BY <2>1, <2>2, <2>3
<1>2. CASE SameVersionOffered
  <2>1. TypeOK' BY <1>2 DEF SameVersionOffered, AbortOTA, Closes, TypeOK, flags, heap, transfer, flash, world
  <2>2. SlotInv' BY <1>2, SlotStays DEF SameVersionOffered, AbortOTA, Closes
  <2>3. HeldInv' BY <1>2, AbortHeld DEF SameVersionOffered, Closes, HeldInv, transfer
  <2> QED BY <2>1, <2>2, <2>3
<1>3. CASE NoImage
  <2>1. TypeOK' BY <1>3, FaultOK DEF NoImage, AbortOTA, Closes, TypeOK, flags, heap, transfer, flash, world
  <2>2. SlotInv' BY <1>3, SlotStays DEF NoImage, AbortOTA, Closes
  <2>3. HeldInv' BY <1>3, AbortHeld DEF NoImage, Closes, HeldInv
  <2> QED BY <2>1, <2>2, <2>3
<1>4. CASE ReadEnds
  <2>1. TypeOK' BY <1>4, FaultOK DEF ReadEnds, Step, TypeOK, flags, heap, transfer, flash, world
  <2>2. SlotInv' BY <1>4, SlotStays DEF ReadEnds, Step
  <2>3. HeldInv' BY <1>4 DEF ReadEnds, Step, HeldInv, Released, RefusedThroughout, isOTAUpdateRunning, flags, heap, transfer
  <2> QED BY <2>1, <2>2, <2>3
<1> QED BY <1>1, <1>2, <1>3, <1>4

(* A chunk goes to the slot that is neither running nor booted next. *)
LEMMA ChunkIInv ==
  ASSUME IInv, Receives \/ WriteFails
  PROVE  IInv'
<1> USE OtaAssumption DEF IInv
<1>0. at = "download" => UpdatePartition \in Slot /\ UpdatePartition # running /\ boot = running
  BY DEF SlotInv, UpdatePartition, Other, Slot, TypeOK
<1>1. CASE Receives
  <2>1. PICK good \in BOOLEAN :
          /\ IF good THEN UNCHANGED faults ELSE Fault
          /\ image' = [image EXCEPT ![UpdatePartition] =
                         [version |-> offered, written |-> received + 1,
                          intact |-> good /\ (received = 0 \/ @.intact)]]
    BY <1>1 DEF Receives
  <2>2. received + 1 \in 1 .. Chunks /\ offered \in Version
    BY <1>1 DEF Receives, MoreToCome, TypeOK, HeldInv
  <2>3. TypeOK'
    BY <1>0, <1>1, <2>1, <2>2, FaultOK DEF Receives, TypeOK, flags, heap, transfer, flash, world
  <2>4. SlotInv'
    BY <1>0, <1>1, <2>1 DEF Receives, SlotInv, BootWhole, Whole, TypeOK, Slot
  <2>5. HeldInv'
    BY <1>1, <2>2 DEF Receives, HeldInv, Released, RefusedThroughout, isOTAUpdateRunning, flags
  <2> QED BY <2>3, <2>4, <2>5
<1>2. CASE WriteFails
  <2>1. image' \in [Slot -> [version : Version, written : 0 .. Chunks, intact : BOOLEAN]]
    BY <1>0, <1>2 DEF WriteFails, TypeOK, HeldInv
  <2>2. TypeOK' BY <1>2, <2>1, FaultOK DEF WriteFails, Closes, AbortOTA, TypeOK, transfer, world
  <2>3. SlotInv' BY <1>0, <1>2 DEF WriteFails, AbortOTA, SlotInv, BootWhole, Whole, TypeOK, Slot
  <2>4. HeldInv' BY <1>2, AbortHeld DEF WriteFails, Closes
  <2> QED BY <2>2, <2>3, <2>4
<1> QED BY <1>1, <1>2

(* The image is validated before it is chosen, and chosen before it boots. *)
LEMMA InstallIInv ==
  ASSUME IInv, Incomplete \/ Validates \/ SwitchFails \/ Switches
  PROVE  IInv'
<1> USE OtaAssumption DEF IInv
<1>1. CASE Incomplete
  <2>1. TypeOK' BY <1>1 DEF Incomplete, AbortOTA, Closes, TypeOK, flags, heap, transfer, flash, world
  <2>2. SlotInv' BY <1>1, SlotStays DEF Incomplete, AbortOTA, Closes
  <2>3. HeldInv' BY <1>1, AbortHeld DEF Incomplete, Closes, HeldInv
  <2> QED BY <2>1, <2>2, <2>3
<1>2. CASE Validates
  <2>1. TypeOK' BY <1>2 DEF Validates, AbortOTA, Closes, TypeOK, flags, heap, transfer, flash, world
  <2>2. SlotInv' BY <1>2 DEF Validates, AbortOTA, SlotInv, BootWhole, Whole, UpdatePartition, Other, flash
  <2>3. CASE Whole(UpdatePartition)
    BY <1>2, <2>1, <2>2, <2>3 DEF Validates, HeldInv, Released, RefusedThroughout, isOTAUpdateRunning, flags, transfer
  <2>4. CASE ~Whole(UpdatePartition)
    BY <1>2, <2>1, <2>2, <2>4, AbortHeld DEF Validates, Closes
  <2> QED BY <2>3, <2>4
<1>3. CASE SwitchFails
  <2>1. TypeOK' BY <1>3, FaultOK DEF SwitchFails, AbortOTA, Closes, TypeOK, flags, heap, transfer, flash, world
  <2>2. SlotInv' BY <1>3, SlotStays DEF SwitchFails, AbortOTA, Closes
  <2>3. HeldInv' BY <1>3, AbortHeld DEF SwitchFails, Closes, HeldInv
  <2> QED BY <2>1, <2>2, <2>3
<1>4. CASE Switches
  <2>0. boot' \in Slot BY <1>4 DEF Switches, UpdatePartition, Other, Slot, TypeOK
  <2>1. TypeOK' BY <1>4, <2>0 DEF Switches, Step, Closes, TypeOK, flags, transfer, world
  <2>2. SlotInv' BY <1>4 DEF Switches, Step, SlotInv, BootWhole, Whole, UpdatePartition, Other
  <2>3. HeldInv' BY <1>4 DEF Switches, Step, Closes, HeldInv, Released, RefusedThroughout, isOTAUpdateRunning, flags, transfer
  <2> QED BY <2>1, <2>2, <2>3
<1> QED BY <1>1, <1>2, <1>3, <1>4

(* The boot loader never has to fall back. *)
LEMMA BootsIInv ==
  ASSUME IInv, Boots, faults' \in 0 .. MaxFaults
  PROVE  IInv'
<1> USE OtaAssumption DEF IInv
<1>1. running' = boot /\ boot' = boot BY DEF Boots, SlotInv, BootWhole
<1>2. TypeOK'
  <2>1. 0 \in 0 .. Chunks OBVIOUS
  <2> QED BY <1>1, <2>1 DEF Boots, TypeOK
<1>3. SlotInv' BY <1>1 DEF Boots, SlotInv, BootWhole, Whole
<1>4. HeldInv' BY DEF Boots, HeldInv, Released, RefusedThroughout, isOTAUpdateRunning
<1> QED BY <1>2, <1>3, <1>4

LEMMA WorldIInv ==
  ASSUME IInv, WorldChanges \/ TriggerUpdateCheck \/ UNCHANGED vars
  PROVE  IInv'
<1> USE OtaAssumption DEF IInv
<1>1. TypeOK' BY DEF WorldChanges, TriggerUpdateCheck, vars, TypeOK, flags, heap, transfer, flash, world
<1>2. UNCHANGED <<at, flags, heap, transfer, flash>>
  BY DEF WorldChanges, TriggerUpdateCheck, vars
<1>3. SlotInv' BY <1>2 DEF SlotInv, BootWhole, Whole, Other, flash
<1>4. HeldInv' BY <1>2 DEF HeldInv, Released, RefusedThroughout, isOTAUpdateRunning, flags, heap, transfer
<1> QED BY <1>1, <1>3, <1>4

-----------------------------------------------------------------------------
LEMMA NextIInv ==
  ASSUME IInv, [Next]_vars
  PROVE  IInv'
<1>1. CASE Check BY <1>1, CheckIInv
<1>2. CASE Download BY <1>2, OpenIInv, GiveUpIInv, ChunkIInv DEF Download
<1>3. CASE Incomplete \/ Validates \/ SwitchFails \/ Switches BY <1>3, InstallIInv
<1>4. CASE Restarts
  <2>1. faults' \in 0 .. MaxFaults BY <1>4 DEF Restarts, IInv, TypeOK
  <2> QED BY <1>4, <2>1, BootsIInv DEF Restarts
<1>5. CASE PowerCut
  <2>1. faults' \in 0 .. MaxFaults BY <1>5, FaultOK DEF PowerCut, IInv
  <2> QED BY <1>5, <2>1, BootsIInv DEF PowerCut
<1>6. CASE WorldChanges \/ TriggerUpdateCheck \/ UNCHANGED vars BY <1>6, WorldIInv
<1>7. CASE otaTimerCallback BY <1>7, WorldIInv DEF otaTimerCallback
<1> QED BY <1>1, <1>2, <1>3, <1>4, <1>5, <1>6, <1>7 DEF Next, otaTask, Install

(* The two facts together, for every behaviour of the update. *)
LEMMA InductiveInvariant == Spec => []IInv
BY InitIInv, NextIInv, PTL DEF Spec

(* The variables keep their ranges. *)
THEOREM TypeCorrect == Spec => []TypeOK
<1>1. IInv => TypeOK BY DEF IInv
<1> QED BY <1>1, InductiveInvariant, PTL

(* At every instant at which the supply may fail, in the middle of a       *)
(* download, of the validation or of the switch, the slot that boots next  *)
(* holds a whole image: esp_ota_set_boot_partition comes after esp_ota_end *)
(* and the download only ever writes the slot that does not run.           *)
THEOREM BootsWhole == Spec => []BootWhole
<1>1. IInv => BootWhole BY DEF IInv, SlotInv
<1> QED BY <1>1, InductiveInvariant, PTL

(* Whatever way an attempt ended (abortOTA or a restart), otaTask waits    *)
(* for the next one with both flags down and nothing allocated or open.    *)
THEOREM AttemptsGiveBack == Spec => []Released
<1>1. IInv => Released BY DEF IInv, HeldInv
<1> QED BY <1>1, InductiveInvariant, PTL

(* isOTAUpdateRunning(), on which commands and triggers are refused, holds *)
(* from the version check on but for the instant between its two flags.    *)
THEOREM UpdateKeepsOthersOut == Spec => []RefusedThroughout
<1>1. IInv => RefusedThroughout BY DEF IInv, HeldInv
<1> QED BY <1>1, InductiveInvariant, PTL

(* The invariant the run checks: types, and what an attempt takes, keeps   *)
(* out and gives back.                                                     *)
THEOREM AttemptContained == Spec => []AttemptInv
<1>1. IInv => AttemptInv BY DEF IInv, HeldInv, AttemptInv
<1> QED BY <1>1, InductiveInvariant, PTL
=============================================================================
