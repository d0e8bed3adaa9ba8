-------------------------------- MODULE Boot --------------------------------
(***************************************************************************)
(* What a device finds in its flash and on its SD card when it boots: the  *)
(* migration of the partition table (device_interface.cpp) and the         *)
(* credentials of the IoT client (IOT.cpp), with power lost at any moment. *)
(* The migration and the IOT task run concurrently.                        *)
(*                                                                         *)
(* Credentials are a pair, an id and a key.  NVS keeps the two as entries  *)
(* of their own, the SD card keeps them in one file.  The helpers that     *)
(* read and write them (nvs_..., sd_...), the flash driver and the boot    *)
(* loader are external.                                                    *)
(***************************************************************************)

CONSTANTS
  Issued,       \* the pairs the cloud has issued
  Empty,        \* a string that is not there
  Builds,       \* settings of SPI_FLASH_DANGEROUS_WRITE: see Build
  Faults        \* power fails, and so do flash operations

\* What the flash driver does with a write to the partition table; the
\* repository's sdkconfig says "aborts".
Build == {"aborts", "fails", "allowed"}

Text == {p.id : p \in Issued} \cup {p.key : p \in Issued}
Pair == [id : Text \cup {Empty}, key : Text \cup {Empty}]
NoPair == [id |-> Empty, key |-> Empty]

ASSUME BootAssumption ==
  /\ Issued \subseteq [id : Text, key : Text] /\ Empty \notin Text
  /\ Builds \subseteq Build /\ Faults \in BOOLEAN

VARIABLES
  build,        \* how the firmware was configured
  table,        \* the partition table's sector: "old", "new" (with a "tuya"
                \* partition) or "blank"
  nvs, sd,      \* the two copies of the credentials
  torn,         \* the keys that interrupted erasures left without their ids
  power,        \* "off" or "up"
  parts,        \* the list of partitions, loaded once per boot
  mig,          \* the next step of update_partition_table()
  iot,          \* the next step of the IOT task
  m,            \* m_uuid and m_authkey
  out,          \* the pair being stored
  identity      \* the pair the SDK was last started with

flash == <<table, nvs, sd, torn>>
iotVars == <<iot, m, out, identity>>
vars == <<build, flash, power, parts, mig, iotVars>>

Init ==
  /\ build \in Builds
  /\ table \in {"old", "new"}
  /\ nvs \in Issued \cup {NoPair} /\ sd \in Issued \cup {NoPair}
  /\ torn = {}
  /\ power = "off" /\ parts = table /\ mig = "none"
  /\ iot = "begin" /\ m = NoPair /\ out = NoPair /\ identity = NoPair
-----------------------------------------------------------------------------
(* Power. *)

\* What is not in flash is gone.
Off ==
  /\ power' = "off" /\ mig' = "none"
  /\ iot' = "begin" /\ m' = NoPair /\ out' = NoPair

\* The boot loader starts nothing without a table; it resets and tries again.
PowerOn ==
  /\ power = "off"
  /\ IF table = "blank"
     THEN UNCHANGED <<power, parts>>
     ELSE power' = "up" /\ parts' = table
  /\ UNCHANGED <<build, flash, mig, iotVars>>

PowerLoss ==
  /\ Faults /\ power = "up"
  /\ Off
  /\ UNCHANGED <<build, flash, parts, identity>>
-----------------------------------------------------------------------------
(* The migration. *)

not_find_tuya_patition == parts # "new"

\* Called once per boot, at any time.
ota_update_partition_table ==
  /\ power = "up" /\ mig = "none"
  /\ mig' = IF not_find_tuya_patition THEN "erase" ELSE "done"
  /\ UNCHANGED <<build, flash, power, parts, iotVars>>

\* spi_flash_erase_range() refuses the table's sector: by a panic, which
\* reboots, or by an error, after which nothing is done.  Allowed, it may fail
\* half way.
EraseTable ==
  /\ power = "up" /\ mig = "erase"
  /\ \/ build = "aborts" /\ Off /\ UNCHANGED <<table, identity>>
     \/ build = "fails" /\ mig' = "done" /\ UNCHANGED <<table, power, iotVars>>
     \/ /\ build = "allowed"
        /\ table' = "blank" /\ mig' = "write"
        /\ UNCHANGED <<power, iotVars>>
     \/ /\ build = "allowed" /\ Faults
        /\ table' \in {table, "blank"} /\ mig' = "done"
        /\ UNCHANGED <<power, iotVars>>
  /\ UNCHANGED <<build, nvs, sd, torn, parts>>

\* The result of the write is only logged.
WriteTable ==
  /\ power = "up" /\ mig = "write"
  /\ \/ table' = "new"
     \/ Faults /\ UNCHANGED table
  /\ mig' = "nvs"
  /\ UNCHANGED <<build, nvs, sd, torn, power, parts, iotVars>>

\* An NVS some of whose entries are erased.
PartlyErased(pair) ==
  {[id |-> i, key |-> k] : i \in {pair.id, Empty}, k \in {pair.key, Empty}}

\* A key without its id.
Orphans(pair) == IF pair.id = Empty THEN {pair.key} \ {Empty} ELSE {}

\* nvs_flash_erase() erases sector after sector; ESP_ERROR_CHECK() aborts when
\* it fails, and power may be lost meanwhile.
EraseNvs ==
  /\ power = "up" /\ mig = "nvs"
  /\ \/ /\ nvs' = NoPair /\ mig' = "restart"
        /\ UNCHANGED <<torn, power, iotVars>>
     \/ /\ Faults
        /\ nvs' \in PartlyErased(nvs)
        /\ torn' = torn \cup Orphans(nvs')
        /\ Off /\ UNCHANGED identity
  /\ UNCHANGED <<build, table, sd, parts>>

esp_restart ==
  /\ power = "up" /\ mig = "restart"
  /\ Off
  /\ UNCHANGED <<build, flash, parts, identity>>
-----------------------------------------------------------------------------
(* The IOT task. *)

\* Mutant: an id is enough.
HasCredentialsId(pair) == pair.id # Empty

has_credentials(pair) == pair.id # Empty /\ pair.key # Empty

\* main_routine() goes on with the pair in m; a registration has none.
Finish ==
  /\ iot' = IF m' = NoPair THEN "registered" ELSE "started"
  /\ identity' = IF m' = NoPair THEN identity ELSE m'
  /\ out' = NoPair

\* Store the pair in the other place before main_routine() goes on.
StoreIn(place, pair) ==
  /\ iot' = place /\ out' = pair
  /\ UNCHANGED identity

\* Mutant: the SD card's pair is used, NVS's is stored.
GetCredentialsSd ==
  /\ power = "up" /\ iot = "begin"
  /\ \/ /\ ~has_credentials(nvs) /\ ~has_credentials(sd)
        /\ iot' = "none"
        /\ UNCHANGED <<m, out, identity>>
     \/ /\ has_credentials(nvs)
        /\ m' = IF has_credentials(sd) THEN sd ELSE nvs
        /\ IF sd = nvs THEN Finish ELSE StoreIn("sdOpen", nvs)
     \/ /\ ~has_credentials(nvs) /\ has_credentials(sd)
        /\ m' = sd
        /\ StoreIn("nvsId", sd)
  /\ UNCHANGED <<build, flash, power, parts, mig>>

\* Mutant: the SD card is written although NVS lacks the pair.
GetCredentialsRewrite ==
  /\ power = "up" /\ iot = "begin"
  /\ \/ /\ ~has_credentials(nvs) /\ ~has_credentials(sd)
        /\ iot' = "none"
        /\ UNCHANGED <<m, out, identity>>
     \/ /\ has_credentials(nvs)
        /\ m' = nvs
        /\ IF sd = nvs THEN Finish ELSE StoreIn("sdOpen", nvs)
     \/ /\ ~has_credentials(nvs) /\ has_credentials(sd)
        /\ m' = sd
        /\ StoreIn("sdOpen", sd)
  /\ UNCHANGED <<build, flash, power, parts, mig>>

\* NVS comes first; the copy that is missing or differs is replaced.
get_credentials ==
  /\ power = "up" /\ iot = "begin"
  /\ \/ /\ ~has_credentials(nvs) /\ ~has_credentials(sd)
        /\ iot' = "none"
        /\ UNCHANGED <<m, out, identity>>
     \/ /\ has_credentials(nvs)
        /\ m' = nvs
        /\ IF sd = nvs THEN Finish ELSE StoreIn("sdOpen", nvs)
     \/ /\ ~has_credentials(nvs) /\ has_credentials(sd)
        /\ m' = sd
        /\ StoreIn("nvsId", sd)
  /\ UNCHANGED <<build, flash, power, parts, mig>>

\* sd_store_credentials(): opening the file for writing empties it.
SdOpen ==
  /\ power = "up" /\ iot = "sdOpen"
  /\ sd' = NoPair /\ iot' = "sdWrite"
  /\ UNCHANGED <<build, table, nvs, torn, power, parts, mig, m, out, identity>>

SdWrite ==
  /\ power = "up" /\ iot = "sdWrite"
  /\ sd' = out
  /\ UNCHANGED m /\ Finish
  /\ UNCHANGED <<build, table, nvs, torn, power, parts, mig>>

\* Mutant: the key is stored as the id.
NvsStoreIdSwapped ==
  /\ power = "up" /\ iot = "nvsId"
  /\ nvs' = [nvs EXCEPT !.id = out.key]
  /\ iot' = "nvsKey"
  /\ UNCHANGED <<build, table, sd, torn, power, parts, mig, m, out, identity>>

\* nvs_store_credentials(): two entries.
NvsStoreId ==
  /\ power = "up" /\ iot = "nvsId"
  /\ nvs' = [nvs EXCEPT !.id = out.id]
  /\ iot' = "nvsKey"
  /\ UNCHANGED <<build, table, sd, torn, power, parts, mig, m, out, identity>>

NvsStoreKey ==
  /\ power = "up" /\ iot = "nvsKey"
  /\ nvs' = [nvs EXCEPT !.key = out.key]
  /\ UNCHANGED m /\ Finish
  /\ UNCHANGED <<build, table, sd, torn, power, parts, mig>>

\* A store that fails at any point is not noticed.
StoreFails ==
  /\ power = "up" /\ iot \in {"sdOpen", "sdWrite", "nvsId", "nvsKey"}
  /\ UNCHANGED m /\ Finish
  /\ UNCHANGED <<build, flash, power, parts, mig>>

\* The arguments of sd_store_credentials(key, uuid) in register_in_cloud().
Swapped(pair) == [id |-> pair.key, key |-> pair.id]

\* get_uid_authkey() with a successful register_in_cloud(): the cloud issues a
\* pair, which goes to the SD card but not to m.
register_in_cloud ==
  /\ power = "up" /\ iot = "none"
  /\ \E pair \in Issued : out' = Swapped(pair)
  /\ iot' = "sdOpen" /\ identity' = NoPair
  /\ UNCHANGED <<build, flash, power, parts, mig, m>>
-----------------------------------------------------------------------------
Migration == ota_update_partition_table \/ EraseTable \/ WriteTable \/ EraseNvs
               \/ esp_restart

IotTask == get_credentials \/ SdOpen \/ SdWrite \/ NvsStoreId \/ NvsStoreKey
             \/ StoreFails \/ register_in_cloud

Next == PowerOn \/ PowerLoss \/ Migration \/ IotTask

Spec == Init /\ [][Next]_vars

\* A device that is off is switched on; a boot calls the migration.
FairSpec == Spec /\ WF_vars(PowerOn) /\ WF_vars(Migration)
-----------------------------------------------------------------------------
(* Properties. *)

\* Every variable keeps its type; what runs was booted from a table.
TypeOK ==
  /\ build \in Build /\ table \in {"old", "new", "blank"}
  /\ nvs \in Pair /\ sd \in Pair /\ m \in Pair /\ out \in Pair
  /\ identity \in Pair /\ torn \subseteq Text
  /\ power \in {"off", "up"} /\ parts \in {"old", "new"}
  /\ mig \in {"none", "erase", "write", "nvs", "restart", "done"}
  /\ iot \in {"begin", "none", "sdOpen", "sdWrite", "nvsId", "nvsKey",
              "started", "registered"}

\* The pair get_credentials() would choose now.
Chosen == IF has_credentials(nvs) THEN nvs
          ELSE IF has_credentials(sd) THEN sd ELSE NoPair

\* Once the SDK was started with a pair, every later boot starts it with the
\* same one, wherever power was lost while the copies were brought into line
\* (without the migration, which erases NVS).
SameIdentity == build # "allowed" /\ identity # NoPair => Chosen = identity

\* The copies of the pair in use agree.
Sealed ==
  /\ identity # NoPair /\ sd = identity
  /\ nvs.id \in {identity.id, Empty} /\ nvs.key \in {identity.key, Empty}

\* Once the copies agree, nothing changes the device's identity again: not the
\* migration that erases NVS, at whatever point it is interrupted, and not the
\* restoration of NVS from the SD card.
SealedIdentity == [][Sealed => Sealed']_vars

\* The last complete pair is not lost while one copy is made from the other,
\* except by a migration that erases NVS meanwhile.
CredentialsKept ==
  [][Chosen # NoPair /\ mig \notin {"nvs", "restart"} => Chosen' # NoPair]_vars

\* The SDK is not started with the id of one pair and the key of another, in
\* whatever order the stores of two entries, the erasure of NVS and the loss of
\* power come; except with a key that an interrupted nvs_flash_erase() has left
\* without its id, and only in a build that allows the migration.
NeverMixed ==
  iot = "started" =>
    \/ m \in Issued \cup {Swapped(pair) : pair \in Issued}
    \/ build = "allowed" /\ m.key \in torn

\* "update to the newest partition table when the table is inconsistent"
\* (device_interface.cpp:581): a table without the new partitions is replaced.
TableUpdated == power = "up" /\ mig = "erase" ~> table = "new"
=============================================================================
