------------------------------- MODULE TklOta -------------------------------
(***************************************************************************)
(* Firmware update: tuyaos_adapter/src/driver/tkl_ota.c on top of esp-idf's *)
(* app_update (esp_ota_ops.c), the application slots in flash and the boot *)
(* loader.  The cloud SDK announces an image, passes its packs on, possibly *)
(* repeated or out of order, and announces the end; flash operations may   *)
(* fail and power may be lost between any two calls.                       *)
(*                                                                         *)
(* The image in a slot is abstracted to the size it should have, the bytes *)
(* written so far and whether they were written in order.                  *)
(***************************************************************************)
EXTENDS Integers

CONSTANTS
  NSlots,     \* application slots (ota_0, ota_1, ...)
  SlotSize,   \* size of a slot
  Sizes,      \* image sizes the cloud announces
  MaxHandles  \* bound: esp_ota_begin() calls between two restarts

ASSUME OtaAssumption ==
  /\ NSlots \in Nat \ {0}
  /\ SlotSize \in Nat \ {0}
  /\ Sizes \subseteq Nat
  /\ MaxHandles \in Nat

VARIABLES
  \* tkl_ota_handle
  state, handle, partition, image_size, offset_image_size,
  \* esp_ota_ops.c: the list of open handles and the last one given out
  entries, last,
  \* flash: the slots and otadata's choice; the slot the device runs from
  flash, boot, running,
  ret         \* what the last call returned

tklVars == <<state, handle, partition, image_size, offset_image_size>>
vars == <<tklVars, entries, last, flash, boot, running, ret>>

Slots   == 0 .. NSlots - 1
Handles == 1 .. MaxHandles
States  == {"INIT", "BEGIN", "IN_PROGRESS", "SUCCESS"}
Closed  == [open |-> FALSE, part |-> 0, wrote |-> 0]
Results == {"OK", "COM_ERROR", "INVALID_PARM"}

Entry == [open : BOOLEAN, part : Slots, wrote : Nat]
Image == [size : Nat, len : Nat, ok : BOOLEAN]

\* esp_image_verify(): the whole image is there, as it was sent.
Valid(img) == img.size > 0 /\ img.ok /\ img.len = img.size

Erased(size) == [size |-> size, len |-> 0, ok |-> TRUE]

\* TKL_OTA_UPGRADE_HANDLE_INIT
HandleInit ==
  /\ state' = "INIT" /\ handle' = 0 /\ partition' = 0
  /\ image_size' = 0 /\ offset_image_size' = 0

\* A device that runs a valid image and has never been updated since it booted.
Init ==
  /\ state = "INIT" /\ handle = 0 /\ partition = 0
  /\ image_size = 0 /\ offset_image_size = 0
  /\ entries = [h \in Handles |-> Closed] /\ last = 0
  /\ running \in Slots /\ boot = running
  /\ \E n \in Sizes \cap 1 .. SlotSize :
       flash = [s \in Slots |-> IF s = running
                                THEN [size |-> n, len |-> n, ok |-> TRUE]
                                ELSE Erased(n)]
  /\ ret = "OK"
-----------------------------------------------------------------------------
\* Mutant: the last slot has no successor.
NextUpdatePartitionNoWrap == running + 1

\* esp_ota_get_next_update_partition(NULL): the slot behind the running one.
NextUpdatePartition == (running + 1) % NSlots

\* esp_ota_begin() erases the slot before it allocates the handle, so it may
\* fail (no memory) with the slot erased.
OtaBegin(part, size) ==
  \/ /\ part # running /\ size <= SlotSize
     /\ flash' = [flash EXCEPT ![part] = Erased(size)]
     /\ last' = last + 1
     /\ entries' = [entries EXCEPT ![last + 1] =
                      [open |-> TRUE, part |-> part, wrote |-> 0]]
     /\ handle' = last + 1 /\ partition' = part
     /\ image_size' = size /\ state' = "BEGIN"
     /\ offset_image_size' = 0
     /\ ret' = "OK"
  \/ /\ \/ UNCHANGED flash
        \/ /\ part # running /\ size <= SlotSize
           /\ flash' = [flash EXCEPT ![part] = Erased(size)]
     /\ HandleInit
     /\ ret' = "COM_ERROR"
     /\ UNCHANGED <<entries, last>>

tkl_ota_start_notify(size) ==
  /\ last < MaxHandles
  /\ \/ /\ size = 0
        /\ ret' = "INVALID_PARM"
        /\ UNCHANGED <<tklVars, entries, last, flash>>
     \/ /\ size # 0 /\ state # "INIT"
        /\ ret' = "COM_ERROR"
        /\ UNCHANGED <<tklVars, entries, last, flash>>
     \/ /\ size # 0 /\ state = "INIT"
        /\ OtaBegin(NextUpdatePartition, size)
  /\ UNCHANGED <<boot, running>>

\* esp_ota_write() appends at wrote_size, whatever the pack's own offset is.
Written(img, wrote, off, len) ==
  [size |-> img.size,
   len  |-> wrote + len,
   ok   |-> img.ok /\ img.len = wrote /\ (len > 0 => off = wrote)]

\* Mutant: more bytes than announced are enough, too.
DataWrittenAtLeast(off, len) ==
  LET e == entries[handle]
      n == offset_image_size + len
  IN /\ e.open /\ e.wrote + len <= SlotSize
     /\ flash' = [flash EXCEPT ![e.part] = Written(@, e.wrote, off, len)]
     /\ entries' = [entries EXCEPT ![handle].wrote = e.wrote + len]
     /\ offset_image_size' = n
     /\ state' = IF n >= image_size THEN "SUCCESS" ELSE "IN_PROGRESS"
     /\ ret' = "OK"

\* The write succeeded: the pack is counted.
DataWritten(off, len) ==
  LET e == entries[handle]
      n == offset_image_size + len
  IN /\ e.open /\ e.wrote + len <= SlotSize
     /\ flash' = [flash EXCEPT ![e.part] = Written(@, e.wrote, off, len)]
     /\ entries' = [entries EXCEPT ![handle].wrote = e.wrote + len]
     /\ offset_image_size' = n
     /\ state' = IF n = image_size THEN "SUCCESS" ELSE "IN_PROGRESS"
     /\ ret' = "OK"

\* The write failed; the bytes it was about to write may be spoilt.
DataFailed ==
  /\ \E damaged \in BOOLEAN :
       flash' = [flash EXCEPT ![partition].ok = @ /\ ~damaged]
  /\ ret' = "COM_ERROR"
  /\ UNCHANGED <<state, offset_image_size, entries>>

\* A pack: len bytes of the image from offset off on.
tkl_ota_data_process(off, len) ==
  /\ \/ /\ state = "INIT"
        /\ ret' = "COM_ERROR"
        /\ UNCHANGED <<state, offset_image_size, entries, flash>>
     \/ /\ state = "SUCCESS"
        /\ ret' = "OK"
        /\ UNCHANGED <<state, offset_image_size, entries, flash>>
     \/ /\ state \in {"BEGIN", "IN_PROGRESS"}
        /\ off + len <= image_size
        /\ DataWritten(off, len) \/ DataFailed
  /\ UNCHANGED <<handle, partition, image_size, last, boot, running>>

\* Mutant: the boot loader does not look at the image.
BootSkipValidate(choice) ==
  /\ running' = choice
  /\ HandleInit
  /\ entries' = [h \in Handles |-> Closed]
  /\ last' = 0

\* The boot loader starts otadata's choice if it is valid, else another slot.
Boot(choice) ==
  /\ \/ Valid(flash[choice]) /\ running' = choice
     \/ ~Valid(flash[choice]) /\ \E s \in Slots : Valid(flash[s]) /\ running' = s
  /\ HandleInit
  /\ entries' = [h \in Handles |-> Closed]
  /\ last' = 0

\* Not all of the image has arrived: the update is forgotten.
EndTooEarly ==
  /\ state # "SUCCESS"
  /\ HandleInit
  /\ ret' = "COM_ERROR"
  /\ UNCHANGED <<entries, last, boot, running>>

\* esp_ota_end() closes the handle; the image is not valid, or it is and the
\* boot partition cannot be set.
EndRejected ==
  /\ state = "SUCCESS"
  /\ entries' = [entries EXCEPT ![handle] = Closed]
  /\ HandleInit
  /\ ret' = "COM_ERROR"
  /\ UNCHANGED <<last, boot, running>>

EndAccepted(reset) ==
  /\ state = "SUCCESS" /\ Valid(flash[partition])
  /\ boot' = partition
  /\ ret' = "OK"
  /\ \/ reset /\ Boot(partition)
     \/ /\ ~reset
        /\ entries' = [entries EXCEPT ![handle] = Closed]
        /\ HandleInit
        /\ UNCHANGED <<last, running>>

tkl_ota_end_notify(reset) ==
  /\ EndTooEarly \/ EndRejected \/ EndAccepted(reset)
  /\ UNCHANGED flash

\* Power is lost, or something else restarts the device.
Restart ==
  /\ Boot(boot)
  /\ ret' = "OK"
  /\ UNCHANGED <<flash, boot>>

Next ==
  \/ \E size \in Sizes \cup {0} : tkl_ota_start_notify(size)
  \/ \E off, len \in 0 .. SlotSize : tkl_ota_data_process(off, len)
  \/ \E reset \in BOOLEAN : tkl_ota_end_notify(reset)
  \/ Restart

Spec == Init /\ [][Next]_vars
-----------------------------------------------------------------------------
(* Properties. *)

\* Every variable of the update keeps its type.
TypeOK ==
  /\ state \in States /\ handle \in 0 .. MaxHandles /\ partition \in Slots
  /\ image_size \in Nat /\ offset_image_size \in Nat
  /\ entries \in [Handles -> Entry]
  /\ last \in 0 .. MaxHandles
  /\ flash \in [Slots -> Image]
  /\ boot \in Slots /\ running \in Slots
  /\ ret \in Results

\* While an update is under way tkl_ota_handle, esp_ota_ops.c and the flash
\* agree: the handle is open, it writes to the slot that will be booted, and the
\* bytes counted towards image_size are the bytes written to that slot.
AccountsAgree ==
  state # "INIT" =>
    /\ handle \in Handles /\ entries[handle].open
    /\ entries[handle].part = partition
    /\ entries[handle].wrote = offset_image_size
    /\ flash[partition].len = offset_image_size
    /\ flash[partition].size = image_size
    /\ state = "SUCCESS" <=> offset_image_size = image_size

\* Whatever sequence of complete, failed, repeated and interrupted updates: the
\* image the device runs from is never touched, so every restart finds a slot.
RunningImageIntact == Valid(flash[running])
=============================================================================
