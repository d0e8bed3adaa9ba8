----------------------------- MODULE BootProof -----------------------------
(***************************************************************************)
(* Theorems about Boot: for any set of issued pairs, any configuration of  *)
(* the flash driver and power lost at any moment, what becomes of the      *)
(* credentials.                                                            *)
(***************************************************************************)
EXTENDS Boot, TLAPS

Storing == iot \in {"sdOpen", "sdWrite", "nvsId", "nvsKey"}

\* The migration is for devices booted from the old table; it gets beyond the
\* first erasure only where that is allowed, and then the old table is gone.
MigInv ==
  /\ power = "off" => mig = "none"
  /\ mig \in {"erase", "write", "nvs", "restart"} => parts = "old"
  /\ mig \in {"write", "nvs", "restart"} => build = "allowed" /\ table # "old"
  /\ torn # {} => build = "allowed"

\* The pair in use is complete, and so is the one being stored; what the IOT
\* task has seen of the two copies still holds, but for an erased NVS.
StoreInv ==
  /\ m = NoPair \/ has_credentials(m)
  /\ identity = NoPair \/ has_credentials(identity)
  /\ iot \in {"begin", "none"} => m = NoPair
  /\ iot = "none" => ~has_credentials(sd)
  /\ iot = "started" => m # NoPair
  /\ Storing => has_credentials(out)
  /\ iot \in {"nvsId", "nvsKey"} => m = out /\ sd = out
  /\ iot = "sdWrite" => sd = NoPair
  /\ iot \in {"sdOpen", "sdWrite"} =>
       \/ m = NoPair /\ identity = NoPair
       \/ m = out /\ (nvs = out \/ (mig = "restart" /\ nvs = NoPair))
  /\ iot = "sdOpen" =>
       IF m = NoPair THEN ~has_credentials(sd) ELSE sd # out

\* NVS has not been erased: it is not allowed, or it is still to come.
Pristine ==
  \/ build # "allowed"
  \/ table = "old"
  \/ power = "up" /\ parts = "old" /\ mig # "restart"

\* Until then NVS holds no key without an id, and the next boot chooses the pair
\* in use.
CleanInv ==
  Pristine =>
    /\ has_credentials(nvs) \/ nvs.key = Empty
    /\ identity # NoPair => Chosen = identity
    /\ iot \in {"nvsId", "nvsKey"} => nvs.key = Empty
    /\ iot = "nvsKey" => nvs.id = out.id

\* The SD card's copy is not about to be replaced when the copies agree.
SealInv == iot = "sdOpen" => ~Sealed

\* What the cloud has issued, as it may have been stored.
Whole == Issued \cup {Swapped(pair) : pair \in Issued}

\* Every complete pair comes from the cloud as a whole, but for a key that an
\* interrupted erasure has left; half a pair in NVS is half of the one being
\* stored, and a key without an id is the SD card's or was left.
FromCloud(pair) == has_credentials(pair) => pair \in Whole \/ pair.key \in torn

OriginInv ==
  /\ FromCloud(nvs) /\ FromCloud(sd) /\ FromCloud(m) /\ FromCloud(out)
  /\ iot \in {"nvsId", "nvsKey"} => nvs.key \in {Empty, out.key} \cup torn
  /\ iot = "nvsKey" => nvs.id \in {Empty, out.id}
  /\ nvs.id = Empty /\ nvs.key # Empty =>
       nvs.key \in torn \/ (has_credentials(sd) /\ sd.key = nvs.key)

BootInv ==
  TypeOK /\ MigInv /\ StoreInv /\ CleanInv /\ SealInv /\ OriginInv
-----------------------------------------------------------------------------
\* A pair that the cloud has issued is complete, also when it is swapped.
LEMMA WholeComplete ==
  /\ Whole \subseteq Pair /\ NoPair \in Pair /\ ~has_credentials(NoPair)
  /\ \A pair \in Whole : has_credentials(pair)
<1>1. \A pair \in Issued : /\ pair \in [id : Text, key : Text]
                            /\ Swapped(pair) \in [id : Text, key : Text]
  BY BootAssumption DEF Swapped
<1>2. Whole \subseteq [id : Text, key : Text]
  BY <1>1 DEF Whole
<1>3. \A pair \in [id : Text, key : Text] : has_credentials(pair) /\ pair \in Pair
  BY BootAssumption DEF has_credentials, Pair
<1> QED
  BY <1>2, <1>3 DEF NoPair, Pair, has_credentials

\* The device as it is delivered.
LEMMA BootInit == Init => BootInv
<1> SUFFICES ASSUME Init PROVE BootInv
  OBVIOUS
<1>1. /\ nvs \in Whole \cup {NoPair} /\ sd \in Whole \cup {NoPair}
  BY DEF Init, Whole
<1>2. TypeOK
  BY <1>1, WholeComplete, BootAssumption DEF Init, TypeOK
<1>3. MigInv /\ StoreInv /\ SealInv
  BY DEF Init, MigInv, StoreInv, SealInv, Storing
<1>4. CleanInv
  BY <1>1, WholeComplete DEF Init, CleanInv, NoPair
<1>5. OriginInv
  BY <1>1, WholeComplete DEF Init, OriginInv, FromCloud, NoPair, has_credentials
<1> QED
  BY <1>2, <1>3, <1>4, <1>5 DEF BootInv

\* Every step keeps the types.
LEMMA BootType == TypeOK /\ [Next]_vars => TypeOK'
<1> SUFFICES ASSUME TypeOK, [Next]_vars PROVE TypeOK'
  OBVIOUS
<1> USE WholeComplete DEF TypeOK, flash, iotVars
<1>1. CASE PowerOn
  BY <1>1 DEF PowerOn
<1>2. CASE PowerLoss
  BY <1>2 DEF PowerLoss, Off
<1>3. CASE Migration
  <2>1. CASE EraseNvs
    <3>1. nvs' \in Pair
      BY <2>1 DEF EraseNvs, PartlyErased, Pair
    <3>2. torn' \subseteq Text
      BY <2>1, <3>1 DEF EraseNvs, Orphans, Pair
    <3> QED
      BY <2>1, <3>1, <3>2 DEF EraseNvs, Off
  <2>2. CASE ota_update_partition_table \/ EraseTable \/ WriteTable \/ esp_restart
    BY <2>2 DEF ota_update_partition_table, EraseTable, WriteTable, esp_restart,
                Off
  <2> QED
    BY <1>3, <2>1, <2>2 DEF Migration
<1>4. CASE get_credentials
  BY <1>4 DEF get_credentials, Finish, StoreIn
<1>5. CASE SdOpen \/ SdWrite \/ StoreFails
  BY <1>5 DEF SdOpen, SdWrite, StoreFails, Finish
<1>6. CASE NvsStoreId \/ NvsStoreKey
  BY <1>6 DEF NvsStoreId, NvsStoreKey, Finish, Pair
<1>7. CASE register_in_cloud
  BY <1>7 DEF register_in_cloud, Whole
<1>8. CASE UNCHANGED vars
  BY <1>8 DEF vars
<1> QED
  BY <1>1, <1>2, <1>3, <1>4, <1>5, <1>6, <1>7, <1>8 DEF Next, IotTask

\* Once NVS may have been erased it stays so, and only EraseNvs erases it.
LEMMA PristineStep ==
  ASSUME BootInv, [Next]_vars
  PROVE  /\ Pristine' => Pristine
         /\ Pristine' => ~EraseNvs
<1> USE DEF BootInv, TypeOK, MigInv, Pristine, flash, iotVars
<1>1. CASE PowerOn \/ PowerLoss
  BY <1>1 DEF PowerOn, PowerLoss, Off, EraseNvs
<1>2. CASE Migration
  BY <1>2 DEF Migration, ota_update_partition_table, EraseTable, WriteTable,
              EraseNvs, esp_restart, Off
<1>3. CASE IotTask
  BY <1>3 DEF IotTask, get_credentials, SdOpen, SdWrite, NvsStoreId,
              NvsStoreKey, StoreFails, register_in_cloud, EraseNvs, Off
<1>4. CASE UNCHANGED vars
  BY <1>4 DEF vars, EraseNvs, Off
<1> QED
  BY <1>1, <1>2, <1>3, <1>4 DEF Next

\* The migration and power leave the IOT task's facts alone.
LEMMA PowerKeeps ==
  ASSUME BootInv, PowerOn \/ PowerLoss \/ Migration \/ UNCHANGED vars
  PROVE  MigInv' /\ StoreInv' /\ CleanInv' /\ SealInv' /\ OriginInv'
<1>1. [Next]_vars
  BY DEF Next
<1>2. UNCHANGED <<sd, build>>
  BY DEF PowerOn, PowerLoss, Migration, ota_update_partition_table, EraseTable,
         WriteTable, EraseNvs, esp_restart, flash, vars
<1>3. \/ Off /\ UNCHANGED identity
      \/ /\ UNCHANGED <<iot, m, out, identity>>
         /\ mig = "restart" => mig' = "restart"
         /\ ~EraseNvs => UNCHANGED nvs
         /\ EraseNvs => mig' = "restart" /\ nvs' = NoPair
  BY DEF PowerOn, PowerLoss, Migration, ota_update_partition_table, EraseTable,
         WriteTable, EraseNvs, esp_restart, flash, iotVars, vars
<1>4. IF EraseNvs
      THEN /\ nvs' \in PartlyErased(nvs) /\ torn \subseteq torn'
           /\ nvs'.id = Empty => nvs'.key \in {Empty} \cup torn'
      ELSE UNCHANGED <<nvs, torn>>
  <2>1. CASE EraseNvs
    <3>1. nvs' \in PartlyErased(nvs)
      BY <2>1 DEF EraseNvs, PartlyErased, NoPair
    <3>2. /\ torn \subseteq torn'
          /\ nvs'.id = Empty => nvs'.key \in {Empty} \cup torn'
      BY <2>1 DEF EraseNvs, Orphans, NoPair
    <3> QED
      BY <2>1, <3>1, <3>2
  <2>2. CASE ~EraseNvs
    BY <2>2 DEF PowerOn, PowerLoss, Migration, ota_update_partition_table,
                EraseTable, WriteTable, esp_restart, flash, vars
  <2> QED
    BY <2>1, <2>2
<1>5. MigInv'
  BY DEF BootInv, TypeOK, MigInv, PowerOn, PowerLoss, Migration,
         ota_update_partition_table, not_find_tuya_patition, EraseTable,
         WriteTable, EraseNvs, esp_restart, Off, flash, iotVars, vars
<1>6. StoreInv'
  BY <1>2, <1>3 DEF BootInv, StoreInv, Storing, Off, has_credentials
<1>7. CleanInv'
  BY <1>1, <1>2, <1>3, <1>4, PristineStep
     DEF BootInv, CleanInv, Off, Chosen, has_credentials
<1>8. SealInv'
  <2> SUFFICES ASSUME iot' = "sdOpen" PROVE ~Sealed'
    BY DEF SealInv
  <2>1. UNCHANGED <<iot, m, out, identity>>
    BY <1>3 DEF Off
  <2>2. CASE ~EraseNvs
    BY <1>2, <1>4, <2>1, <2>2 DEF BootInv, SealInv, Sealed
  <2>3. CASE EraseNvs
    <3>1. Pristine /\ mig # "restart"
      BY <2>3 DEF EraseNvs, BootInv, MigInv, Pristine
    <3>2. identity # NoPair => sd # identity
      BY <2>1, <3>1 DEF BootInv, StoreInv, Storing, CleanInv, Chosen
    <3> QED
      BY <1>2, <2>1, <3>2 DEF Sealed
  <2> QED
    BY <2>2, <2>3
<1>9. OriginInv'
  <2>1. CASE ~EraseNvs
    BY <1>2, <1>3, <1>4, <2>1, WholeComplete
       DEF BootInv, OriginInv, FromCloud, Off, has_credentials
  <2>2. CASE EraseNvs
    <3>1. /\ nvs'.id \in {nvs.id, Empty} /\ nvs'.key \in {nvs.key, Empty}
          /\ has_credentials(nvs') => nvs' = nvs
      BY <1>4, <2>2 DEF PartlyErased, has_credentials, BootInv, TypeOK, Pair
    <3> QED
      BY <1>2, <1>3, <1>4, <2>2, <3>1, WholeComplete
         DEF BootInv, OriginInv, FromCloud, Off, has_credentials
  <2> QED
    BY <2>1, <2>2
<1> QED
  BY <1>5, <1>6, <1>7, <1>8, <1>9

\* get_credentials() sees both copies at once.
LEMMA GetKeeps ==
  ASSUME BootInv, get_credentials
  PROVE  MigInv' /\ StoreInv' /\ CleanInv' /\ SealInv' /\ OriginInv'
<1> USE WholeComplete DEF BootInv, get_credentials, Finish, StoreIn, flash
<1>1. MigInv'
  BY DEF MigInv
<1>2. StoreInv'
  BY DEF StoreInv, Storing, has_credentials, NoPair
<1>3. CleanInv'
  BY DEF StoreInv, CleanInv, Chosen, Pristine, has_credentials, NoPair
<1>4. SealInv'
  BY DEF StoreInv, SealInv, Sealed, has_credentials, TypeOK, Pair
<1>5. OriginInv'
  BY DEF OriginInv, FromCloud, has_credentials
<1> QED
  BY <1>1, <1>2, <1>3, <1>4, <1>5

\* The SD card is opened while NVS has the pair, or when neither has one.
LEMMA SdOpenKeeps ==
  ASSUME BootInv, SdOpen
  PROVE  MigInv' /\ StoreInv' /\ CleanInv' /\ SealInv' /\ OriginInv'
<1> USE WholeComplete DEF BootInv, SdOpen
<1>1. MigInv' /\ SealInv'
  BY DEF MigInv, SealInv
<1>2. StoreInv'
  BY DEF StoreInv, Storing, has_credentials
<1>3. CleanInv'
  BY DEF MigInv, StoreInv, Storing, CleanInv, Chosen, Pristine, has_credentials
<1>4. OriginInv'
  BY DEF StoreInv, Storing, OriginInv, FromCloud, NoPair, has_credentials
<1> QED
  BY <1>1, <1>2, <1>3, <1>4

\* The end of a store, successful or not.
LEMMA FinishKeeps ==
  ASSUME BootInv, SdWrite \/ NvsStoreKey \/ StoreFails
  PROVE  MigInv' /\ StoreInv' /\ CleanInv' /\ SealInv' /\ OriginInv'
<1> USE WholeComplete DEF BootInv, SdWrite, NvsStoreKey, StoreFails, Finish, flash
<1>1. MigInv' /\ SealInv'
  BY DEF MigInv, SealInv
<1>2. StoreInv'
  BY DEF StoreInv, Storing, has_credentials, NoPair
<1>3. CleanInv'
  BY DEF TypeOK, Pair, MigInv, StoreInv, Storing, CleanInv, Chosen, Pristine,
         has_credentials
<1>4. OriginInv'
  BY DEF TypeOK, Pair, StoreInv, Storing, CleanInv, Pristine, OriginInv,
         FromCloud, has_credentials
<1> QED
  BY <1>1, <1>2, <1>3, <1>4

\* The first of the two entries of NVS.
LEMMA NvsIdKeeps ==
  ASSUME BootInv, NvsStoreId
  PROVE  MigInv' /\ StoreInv' /\ CleanInv' /\ SealInv' /\ OriginInv'
<1> USE DEF BootInv, NvsStoreId
<1>1. MigInv' /\ SealInv'
  BY DEF MigInv, SealInv
<1>2. StoreInv'
  BY DEF StoreInv, Storing, has_credentials
<1>3. CleanInv'
  BY DEF TypeOK, Pair, StoreInv, Storing, CleanInv, Chosen, Pristine,
         has_credentials
<1>4. OriginInv'
  BY DEF TypeOK, Pair, StoreInv, Storing, CleanInv, Pristine, OriginInv,
         FromCloud, has_credentials
<1> QED
  BY <1>1, <1>2, <1>3, <1>4

\* A registration starts with neither copy.
LEMMA RegisterKeeps ==
  ASSUME BootInv, register_in_cloud
  PROVE  MigInv' /\ StoreInv' /\ CleanInv' /\ SealInv' /\ OriginInv'
<1> USE WholeComplete DEF BootInv, register_in_cloud, flash
<1>1. out' \in Whole
  BY DEF Whole
<1>2. MigInv' /\ SealInv'
  BY DEF MigInv, SealInv, Sealed
<1>3. StoreInv'
  BY <1>1 DEF StoreInv, Storing, has_credentials
<1>4. CleanInv'
  BY DEF CleanInv, Chosen, Pristine, has_credentials
<1>5. OriginInv'
  BY <1>1 DEF OriginInv, FromCloud, has_credentials
<1> QED
  BY <1>2, <1>3, <1>4, <1>5

\* The inductive invariant.
THEOREM BootInvariant == Spec => []BootInv
<1>1. BootInv /\ [Next]_vars => BootInv'
  <2> SUFFICES ASSUME BootInv, [Next]_vars PROVE BootInv'
    OBVIOUS
  <2>1. TypeOK'
    BY BootType DEF BootInv
  <2>2. MigInv' /\ StoreInv' /\ CleanInv' /\ SealInv' /\ OriginInv'
    BY PowerKeeps, GetKeeps, SdOpenKeeps, FinishKeeps, NvsIdKeeps, RegisterKeeps
       DEF Next, IotTask
  <2> QED
    BY <2>1, <2>2 DEF BootInv
<1> QED
  BY <1>1, BootInit, PTL DEF Spec

\* Boot's variables keep their types; in particular nothing runs on a device
\* whose partition table was blank when it was switched on.
THEOREM BootTypeCorrect == Spec => []TypeOK
<1>1. BootInv => TypeOK
  BY DEF BootInv
<1> QED
  BY <1>1, BootInvariant, PTL

\* get_credentials() chooses the same pair at every boot, however often copying
\* is interrupted, in the builds in which the migration cannot erase NVS.
THEOREM IdentityKept == Spec => []SameIdentity
<1>1. BootInv => SameIdentity
  BY DEF BootInv, CleanInv, Pristine, SameIdentity
<1> QED
  BY <1>1, BootInvariant, PTL

\* In every build the SDK is started with a pair as the cloud issued it, in one
\* order or the other: the two entries nvs_store_credentials() writes never mix
\* with those of another pair, except with a key that an interrupted
\* nvs_flash_erase() left behind.
THEOREM PairsUnmixed == Spec => []NeverMixed
<1>1. BootInv => NeverMixed
  BY DEF BootInv, MigInv, StoreInv, OriginInv, FromCloud, Whole, NeverMixed
<1> QED
  BY <1>1, BootInvariant, PTL

\* Once NVS and the SD card agree, neither update_partition_table() nor
\* get_credentials() changes the device's identity, wherever they stop.
THEOREM SealedForGood == Spec => SealedIdentity
<1>1. BootInv /\ [Next]_vars => (Sealed => Sealed')
  <2> SUFFICES ASSUME BootInv, [Next]_vars, Sealed PROVE Sealed'
    OBVIOUS
  <2>1. CASE PowerOn \/ PowerLoss \/ UNCHANGED vars
    BY <2>1 DEF PowerOn, PowerLoss, Off, Sealed, flash, iotVars, vars
  <2>2. CASE Migration
    BY <2>2 DEF Migration, ota_update_partition_table, EraseTable, WriteTable,
                EraseNvs, esp_restart, Off, Sealed, flash, iotVars,
                PartlyErased, NoPair
  <2>3. CASE get_credentials
    BY <2>3 DEF get_credentials, Finish, StoreIn, Sealed, flash,
                has_credentials, BootInv, TypeOK, Pair, StoreInv
  <2>4. CASE NvsStoreId \/ NvsStoreKey
    BY <2>4 DEF NvsStoreId, NvsStoreKey, Finish, Sealed, BootInv, TypeOK, Pair,
                StoreInv, Storing
  <2>5. CASE SdOpen \/ SdWrite \/ StoreFails
    BY <2>5 DEF SdOpen, SdWrite, StoreFails, Finish, Sealed, flash, BootInv,
                StoreInv, Storing, SealInv
  <2>6. CASE register_in_cloud
    BY <2>6 DEF register_in_cloud, Sealed, BootInv, StoreInv
  <2> QED
    BY <2>1, <2>2, <2>3, <2>4, <2>5, <2>6 DEF Next, IotTask
<1> QED
  BY <1>1, BootInvariant, PTL DEF Spec, SealedIdentity

\* In every build get_credentials() and the stores do not lose the last complete
\* pair, unless update_partition_table() has come to the erasure of NVS: then
\* sd_store_credentials() may empty the SD card when NVS is gone.
THEOREM LastCopyKept == Spec => CredentialsKept
<1>1. BootInv /\ [Next]_vars
        => (Chosen # NoPair /\ mig \notin {"nvs", "restart"} => Chosen' # NoPair)
  <2> SUFFICES ASSUME BootInv, [Next]_vars, mig \notin {"nvs", "restart"},
                      has_credentials(nvs) \/ has_credentials(sd)
               PROVE  (has_credentials(nvs) \/ has_credentials(sd))'
    BY DEF Chosen, has_credentials, NoPair
  <2>1. CASE PowerOn \/ PowerLoss \/ UNCHANGED vars
    BY <2>1 DEF PowerOn, PowerLoss, flash, vars, has_credentials
  <2>2. CASE Migration
    BY <2>2 DEF Migration, ota_update_partition_table, EraseTable, WriteTable,
                EraseNvs, esp_restart, flash, has_credentials
  <2>3. CASE get_credentials \/ register_in_cloud \/ StoreFails
    BY <2>3 DEF get_credentials, register_in_cloud, StoreFails, flash,
                has_credentials
  <2>4. CASE SdOpen \/ SdWrite
    BY <2>4 DEF SdOpen, SdWrite, BootInv, StoreInv, Storing, has_credentials
  <2>5. CASE NvsStoreId \/ NvsStoreKey
    BY <2>5 DEF NvsStoreId, NvsStoreKey, BootInv, StoreInv, Storing,
                has_credentials
  <2> QED
    BY <2>1, <2>2, <2>3, <2>4, <2>5 DEF Next, IotTask
<1> QED
  BY <1>1, BootInvariant, PTL DEF Spec, CredentialsKept

\* Unless the build allows writes to dangerous regions, which the repository's
\* does not, update_partition_table() never changes the table: TableUpdated
\* fails for every device that leaves the factory with the old one.
THEOREM TableNeverUpdated ==
  Spec => [][build # "allowed" => build' = build /\ table' = table]_vars
<1>1. BootInv /\ [Next]_vars =>
        (build # "allowed" => build' = build /\ table' = table)
  <2> SUFFICES ASSUME BootInv, [Next]_vars, build # "allowed"
               PROVE  build' = build /\ table' = table
    OBVIOUS
  <2>1. mig \notin {"write", "nvs", "restart"}
    BY DEF BootInv, MigInv
  <2>2. CASE PowerOn \/ PowerLoss \/ UNCHANGED vars
    BY <2>2 DEF PowerOn, PowerLoss, Off, flash, vars
  <2>3. CASE Migration
    BY <2>1, <2>3 DEF Migration, ota_update_partition_table, EraseTable,
                      WriteTable, EraseNvs, esp_restart, flash
  <2>4. CASE IotTask
    BY <2>4 DEF IotTask, get_credentials, SdOpen, SdWrite, NvsStoreId,
                NvsStoreKey, StoreFails, register_in_cloud, flash
  <2> QED
    BY <2>2, <2>3, <2>4 DEF Next
<1> QED
  BY <1>1, BootInvariant, PTL DEF Spec
=============================================================================
