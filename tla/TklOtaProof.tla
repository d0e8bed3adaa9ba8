---------------------------- MODULE TklOtaProof ----------------------------
(***************************************************************************)
(* For any number of slots and any image sizes: the update never touches   *)
(* the image the device runs from, its three accounts agree, and only a    *)
(* completely delivered image is chosen for booting.                       *)
(***************************************************************************)
EXTENDS TklOta, TLAPS

\* The slot being written is not the one the device runs from.
TargetIdle == state # "INIT" => partition # running

\* The inductive invariant.
OtaInv == TypeOK /\ AccountsAgree /\ TargetIdle /\ RunningImageIntact
-----------------------------------------------------------------------------
\* The search for the next slot ends in a slot.
LEMMA NextIsSlot ==
  ASSUME TypeOK
  PROVE  NextUpdatePartition \in Slots
BY OtaAssumption DEF TypeOK, NextUpdatePartition, Slots

\* What the operations put into the list of handles and into the flash has the
\* right type.
LEMMA ValueTypes ==
  /\ 0 \in Slots /\ 0 \in 0 .. MaxHandles /\ Closed \in Entry
  /\ \A size \in Nat : Erased(size) \in Image
  /\ \A img \in Image, wrote, off, len \in Nat :
       Written(img, wrote, off, len) \in Image
<1>1. 0 \in Slots /\ 0 \in 0 .. MaxHandles
  BY OtaAssumption DEF Slots
<1>2. Closed \in Entry
  BY <1>1 DEF Closed, Entry
<1>3. \A size \in Nat : Erased(size) \in Image
  BY DEF Erased, Image
<1>4. ASSUME NEW img \in Image, NEW wrote \in Nat, NEW off \in Nat, NEW len \in Nat
      PROVE  Written(img, wrote, off, len) \in Image
  <2>1. (img.ok /\ img.len = wrote /\ (len > 0 => off = wrote)) \in BOOLEAN
    OBVIOUS
  <2>2. img.size \in Nat /\ wrote + len \in Nat
    BY DEF Image
  <2> QED BY <2>1, <2>2, Zenon DEF Written, Image
<1> QED BY <1>1, <1>2, <1>3, <1>4

\* The device starts in OtaInv.
LEMMA OtaStart == Init => OtaInv
<1> SUFFICES ASSUME Init PROVE OtaInv
  OBVIOUS
<1>1. PICK n \in Sizes \cap 1 .. SlotSize :
        flash = [s \in Slots |-> IF s = running
                                 THEN [size |-> n, len |-> n, ok |-> TRUE]
                                 ELSE Erased(n)]
  BY DEF Init
<1>2. n \in Nat /\ n > 0
  BY <1>1, OtaAssumption
<1>3. flash \in [Slots -> Image]
  BY <1>1, <1>2, ValueTypes DEF Image
<1>4. Valid(flash[running])
  BY <1>1, <1>2 DEF Init, Valid
<1>5. entries \in [Handles -> Entry]
  BY ValueTypes DEF Init
<1>6. TypeOK
  BY <1>3, <1>5, ValueTypes DEF Init, TypeOK, States, Results
<1> QED BY <1>4, <1>6 DEF Init, OtaInv, AccountsAgree, TargetIdle,
                          RunningImageIntact

\* Starting an update: the slot that is erased is not the running one.
LEMMA StartStep ==
  ASSUME OtaInv, NEW size \in Sizes \cup {0}, tkl_ota_start_notify(size)
  PROVE  OtaInv'
<1> USE DEF OtaInv
<1>1. size \in Nat /\ NextUpdatePartition \in Slots /\ 0 \in Slots
  BY NextIsSlot, OtaAssumption DEF Slots
<1>2. CASE UNCHANGED <<tklVars, entries, last, flash>>
  BY <1>2 DEF tkl_ota_start_notify, tklVars, TypeOK, AccountsAgree,
              TargetIdle, RunningImageIntact, OtaBegin, Results
<1>3. CASE size # 0 /\ state = "INIT" /\ OtaBegin(NextUpdatePartition, size)
  <2> DEFINE p == NextUpdatePartition
  <2> HIDE DEF p
  <2>1. OtaBegin(p, size) /\ p \in Slots
    BY <1>1, <1>3 DEF p
  <2>2. Erased(size) \in Image /\ UNCHANGED <<boot, running>>
    BY <1>1, ValueTypes DEF tkl_ota_start_notify
  <2>3. CASE /\ p # running
             /\ flash' = [flash EXCEPT ![p] = Erased(size)]
             /\ last' = last + 1
             /\ entries' = [entries EXCEPT ![last + 1] =
                              [open |-> TRUE, part |-> p, wrote |-> 0]]
             /\ handle' = last + 1 /\ partition' = p
             /\ image_size' = size /\ state' = "BEGIN"
             /\ offset_image_size' = 0
             /\ ret' = "OK"
    <3>1. last + 1 \in Handles
      BY OtaAssumption DEF tkl_ota_start_notify, TypeOK, Handles
    <3>2. TypeOK'
      BY <1>1, <2>1, <2>2, <2>3, <3>1, OtaAssumption
      DEF TypeOK, Handles, Entry, States, Results
    <3>3. AccountsAgree'
      BY <1>1, <1>3, <2>1, <2>3, <3>1 DEF AccountsAgree, TypeOK, Erased
    <3>4. TargetIdle' /\ RunningImageIntact'
      BY <2>1, <2>2, <2>3 DEF TargetIdle, RunningImageIntact, TypeOK
    <3> QED BY <3>2, <3>3, <3>4
  <2>4. CASE /\ UNCHANGED flash \/ (p # running /\
                  flash' = [flash EXCEPT ![p] = Erased(size)])
             /\ HandleInit
             /\ ret' = "COM_ERROR"
             /\ UNCHANGED <<entries, last>>
    <3>1. TypeOK'
      BY <2>1, <2>2, <2>4, ValueTypes
      DEF TypeOK, HandleInit, States, Results
    <3>2. AccountsAgree' /\ TargetIdle' /\ RunningImageIntact'
      BY <2>1, <2>2, <2>4
      DEF TypeOK, HandleInit, AccountsAgree, TargetIdle, RunningImageIntact
    <3> QED BY <3>1, <3>2
  <2> QED BY <2>1, <2>3, <2>4 DEF OtaBegin
<1> QED BY <1>2, <1>3 DEF tkl_ota_start_notify, tklVars

\* A pack that is written goes to the slot of the update and is counted once in
\* each account.
LEMMA WrittenStep ==
  ASSUME OtaInv, NEW off \in Nat, NEW len \in Nat,
         state \in {"BEGIN", "IN_PROGRESS"}, DataWritten(off, len),
         UNCHANGED <<handle, partition, image_size, last, boot, running>>
  PROVE  OtaInv'
<1> DEFINE e == entries[handle]
           n == offset_image_size + len
           img == Written(flash[partition], e.wrote, off, len)
<1>1. /\ handle \in Handles /\ e \in Entry /\ e.open /\ e.part = partition
      /\ e.wrote = offset_image_size /\ partition \in Slots
      /\ partition # running /\ flash[partition] \in Image
      /\ flash[partition].size = image_size /\ n \in Nat
      /\ offset_image_size \in Nat
  BY DEF OtaInv, TypeOK, AccountsAgree, TargetIdle
<1>2. /\ flash' = [flash EXCEPT ![partition] = img]
      /\ entries' = [entries EXCEPT ![handle].wrote = e.wrote + len]
      /\ offset_image_size' = n /\ ret' = "OK"
      /\ state' = IF n = image_size THEN "SUCCESS" ELSE "IN_PROGRESS"
  BY <1>1 DEF DataWritten
<1>3. img \in Image
  BY <1>1, ValueTypes
<1>4. img.len = n /\ img.size = image_size
  BY <1>1 DEF Written
<1> HIDE DEF n, img
<1>5. TypeOK'
  <2>1. [e EXCEPT !.wrote = e.wrote + len] \in Entry
    BY <1>1 DEF Entry
  <2>2. entries' \in [Handles -> Entry]
    BY <1>1, <1>2, <2>1 DEF OtaInv, TypeOK
  <2>3. flash' \in [Slots -> Image]
    BY <1>2, <1>3 DEF OtaInv, TypeOK
  <2> QED BY <1>1, <1>2, <2>2, <2>3 DEF OtaInv, TypeOK, States, Results
<1>6. AccountsAgree'
  <2>1. entries'[handle] = [e EXCEPT !.wrote = e.wrote + len]
    BY <1>1, <1>2 DEF OtaInv, TypeOK
  <2>2. /\ entries'[handle].open /\ entries'[handle].part = partition
        /\ entries'[handle].wrote = n
    BY <1>1, <2>1 DEF Entry, n
  <2>3. flash'[partition] = img
    BY <1>1, <1>2 DEF OtaInv, TypeOK
  <2> QED BY <1>1, <1>2, <1>4, <2>2, <2>3 DEF AccountsAgree
<1>7. TargetIdle' /\ RunningImageIntact'
  BY <1>1, <1>2 DEF OtaInv, TypeOK, TargetIdle, RunningImageIntact
<1> QED BY <1>5, <1>6, <1>7 DEF OtaInv

\* A pack, whatever becomes of it.
LEMMA DataStep ==
  ASSUME OtaInv, NEW off \in 0 .. SlotSize, NEW len \in 0 .. SlotSize,
         tkl_ota_data_process(off, len)
  PROVE  OtaInv'
<1>1. UNCHANGED <<handle, partition, image_size, last, boot, running>>
  BY DEF tkl_ota_data_process
<1>2. CASE UNCHANGED <<state, offset_image_size, entries, flash>>
           /\ ret' \in Results
  BY <1>1, <1>2 DEF OtaInv, TypeOK, AccountsAgree, TargetIdle, RunningImageIntact
<1>3. CASE state \in {"BEGIN", "IN_PROGRESS"} /\ DataWritten(off, len)
  BY <1>1, <1>3, WrittenStep, OtaAssumption
<1>4. CASE state \in {"BEGIN", "IN_PROGRESS"} /\ DataFailed
  <2>1. PICK damaged \in BOOLEAN :
          flash' = [flash EXCEPT ![partition].ok = @ /\ ~damaged]
    BY <1>4 DEF DataFailed
  <2> DEFINE img == [flash[partition] EXCEPT !.ok = @ /\ ~damaged]
  <2>2. partition \in Slots /\ partition # running /\ flash[partition] \in Image
    BY <1>4 DEF OtaInv, TypeOK, TargetIdle
  <2>3. flash' = [flash EXCEPT ![partition] = img]
    BY <2>1
  <2>4. (flash[partition].ok /\ ~damaged) \in BOOLEAN
    OBVIOUS
  <2>5. img \in Image /\ img.len = flash[partition].len
        /\ img.size = flash[partition].size
    BY <2>2, <2>4 DEF Image
  <2> HIDE DEF img
  <2>6. flash' \in [Slots -> Image]
    BY <2>2, <2>3, <2>5 DEF OtaInv, TypeOK
  <2>7. TypeOK'
    BY <1>1, <1>4, <2>6 DEF OtaInv, TypeOK, DataFailed, Results
  <2>8. AccountsAgree' /\ TargetIdle' /\ RunningImageIntact'
    BY <1>1, <1>4, <2>2, <2>3, <2>5
    DEF OtaInv, TypeOK, AccountsAgree, TargetIdle, RunningImageIntact, DataFailed
  <2> QED BY <2>7, <2>8 DEF OtaInv
<1> QED BY <1>2, <1>3, <1>4 DEF tkl_ota_data_process, Results

\* A boot, with flash unchanged, starts a valid image and forgets every update.
LEMMA BootStep ==
  ASSUME OtaInv, NEW choice \in Slots, Boot(choice), UNCHANGED flash,
         boot' \in Slots, ret' \in Results
  PROVE  OtaInv'
<1>1. running' \in Slots /\ Valid(flash[running'])
  BY DEF Boot
<1>2. HandleInit /\ last' = 0 /\ entries' = [h \in Handles |-> Closed]
  BY DEF Boot
<1>3. entries' \in [Handles -> Entry]
  BY <1>2, ValueTypes
<1>4. TypeOK'
  BY <1>1, <1>2, <1>3, ValueTypes DEF OtaInv, TypeOK, HandleInit, States
<1> QED BY <1>1, <1>2, <1>4
        DEF OtaInv, HandleInit, AccountsAgree, TargetIdle, RunningImageIntact

\* The end of an update: it is forgotten, or its slot is chosen for booting.
LEMMA EndStep ==
  ASSUME OtaInv, NEW reset \in BOOLEAN, tkl_ota_end_notify(reset)
  PROVE  OtaInv'
<1>1. UNCHANGED flash
  BY DEF tkl_ota_end_notify
<1>2. [entries EXCEPT ![handle] = Closed] \in [Handles -> Entry]
      /\ entries \in [Handles -> Entry]
  BY ValueTypes DEF OtaInv, TypeOK
<1>3. ASSUME HandleInit, boot' \in Slots, ret' \in Results,
             UNCHANGED <<last, running>>, entries' \in [Handles -> Entry]
      PROVE  OtaInv'
  <2>1. TypeOK'
    BY <1>1, <1>3, ValueTypes DEF OtaInv, TypeOK, HandleInit, States
  <2> QED BY <1>1, <1>3, <2>1
          DEF OtaInv, HandleInit, AccountsAgree, TargetIdle, RunningImageIntact
<1>4. CASE EndTooEarly \/ EndRejected
  BY <1>2, <1>3, <1>4 DEF EndTooEarly, EndRejected, OtaInv, TypeOK, Results
<1>5. CASE EndAccepted(reset)
  <2>1. partition \in Slots /\ boot' = partition /\ ret' \in Results
    BY <1>5 DEF EndAccepted, OtaInv, TypeOK, Results
  <2>2. CASE Boot(partition)
    BY <1>1, <2>1, <2>2, BootStep
  <2> QED BY <1>2, <1>3, <1>5, <2>1, <2>2 DEF EndAccepted
<1> QED BY <1>4, <1>5 DEF tkl_ota_end_notify
-----------------------------------------------------------------------------
\* The inductive invariant holds throughout.
THEOREM OtaInvariant == Spec => []OtaInv
<1>1. OtaInv /\ [Next]_vars => OtaInv'
  <2> SUFFICES ASSUME OtaInv, [Next]_vars PROVE OtaInv'
    OBVIOUS
  <2>1. CASE UNCHANGED vars
    BY <2>1 DEF vars, tklVars, OtaInv, TypeOK, AccountsAgree, TargetIdle,
                RunningImageIntact
  <2>2. CASE Restart
    BY <2>2, BootStep DEF Restart, OtaInv, TypeOK, Results
  <2> QED BY <2>1, <2>2, StartStep, DataStep, EndStep DEF Next
<1> QED BY <1>1, OtaStart, PTL DEF Spec

\* The device never loses the image it runs from, and while an update is under
\* way tkl_ota.c, esp_ota_ops.c and the flash agree about it.
THEOREM UpdateSafe == Spec => [](TypeOK /\ AccountsAgree /\ RunningImageIntact)
<1>1. OtaInv => TypeOK /\ AccountsAgree /\ RunningImageIntact
  BY DEF OtaInv
<1> QED BY <1>1, OtaInvariant, PTL
=============================================================================
