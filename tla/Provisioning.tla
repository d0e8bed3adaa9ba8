---------------------------- MODULE Provisioning ----------------------------
(***************************************************************************)
(* From power-on to a device that is activated in the cloud: NetInterface  *)
(* (Wi-Fi events, cloud status), the BLE part of device_interface.cpp, the *)
(* connection part of IOT.cpp and the provisioning screen UIProvTip.       *)
(*                                                                         *)
(* Three tasks share the provisioning status without a lock: the Wi-Fi     *)
(* event task, the SDK's task and the screen's timer.  A handler that      *)
(* tests one shared variable and writes another does so in two steps.  The *)
(* Wi-Fi driver, the phone and the cloud are the environment.              *)
(***************************************************************************)
EXTENDS Integers, FiniteSets

CONSTANTS
  WIFI_CONNECT_MAXNUM_RETRY,
  WIFI_AP_FIND_MAXNUM_RETRY

ASSUME RetryAssumption ==
  WIFI_CONNECT_MAXNUM_RETRY \in Nat /\ WIFI_AP_FIND_MAXNUM_RETRY \in Nat

\* prov_status_t
prov_no_need == 0
prov_init == 1
prov_ble_connected == 2
prov_wifi_connected == 3
prov_activated == 4
prov_err_start == 5
prov_wifi_conn_fail == 6
prov_pwd_error == 7
prov_ap_not_found == 8
prov_rssi_low == 9

Status == prov_no_need .. prov_rssi_low
NoWrite == -1

\* The SDK has credentials, the station was connected, it got an address, the
\* cloud accepted the device, the access point refused it or was not found.
Facts == {"creds", "assoc", "ip", "cloud", "refused", "noap"}

VARIABLES
  in_provision, m_prov_status,              \* NetInterface
  s_wifi_connect_retry_num, s_ap_find_retry_num,
  m_connected, pass_provision,              \* IOT
  bt,            \* BLE: "off", "on", "stopped" (bt_stop_flag) or "released"
  link,          \* the Wi-Fi station: "down", "connecting", "assoc", "ip"
  event,         \* status the event task is about to set, or NoWrite
  sdk,           \* where the SDK's task is in a cloud status callback
  ui,            \* the screen shown
  uipc, m_current_step, m_current_err, m_should_restart,  \* UIProvTip
  tutorial_complete,                        \* the property of that name
  facts,         \* what has really happened, see Facts
  reported,      \* since the last connection an error status was stored or a
                 \* text shown
  ignored        \* ... or a disconnection was ignored by the sleeping device

netVars  == <<in_provision, m_prov_status, s_wifi_connect_retry_num,
              s_ap_find_retry_num, event>>
iotVars  == <<m_connected, pass_provision, sdk>>
tipVars  == <<uipc, m_current_step, m_current_err, m_should_restart>>
envVars  == <<bt, link, tutorial_complete, facts, reported, ignored>>
vars == <<netVars, iotVars, tipVars, envVars, ui>>

Init ==
  /\ in_provision = FALSE /\ m_prov_status = prov_no_need
  /\ s_wifi_connect_retry_num = 0 /\ s_ap_find_retry_num = 0
  /\ event = NoWrite
  /\ m_connected = FALSE /\ pass_provision = FALSE /\ sdk = "start"
  /\ uipc = "idle" /\ m_current_step = 0 /\ m_current_err = 0
  /\ m_should_restart = FALSE
  /\ bt = "off" /\ link = "down" /\ reported = FALSE /\ ignored = FALSE
  /\ ui = "loading"
  /\ tutorial_complete \in BOOLEAN
  /\ facts \in {{}, {"creds"}}
-----------------------------------------------------------------------------
(* The SDK's task: start-up, BLE configuration, cloud status. *)

\* tuya_dev_init_event_cb(): a configured device boots without BLE, another one
\* is provisioned; nothing happens when the configuration cannot be read.
tuya_dev_init_event_cb ==
  /\ sdk = "start"
  /\ sdk' = "idle"
  /\ \/ UNCHANGED <<in_provision, m_prov_status, pass_provision, bt, ui>>
     \/ /\ tutorial_complete /\ "creds" \in facts
        /\ bt' = "released"
        /\ ui' = "boot"
        /\ UNCHANGED <<in_provision, m_prov_status, pass_provision>>
     \/ /\ ~(tutorial_complete /\ "creds" \in facts)
        /\ in_provision' = TRUE
        /\ m_prov_status' = prov_init
        /\ pass_provision' = TRUE
        /\ ui' = "prov"
        /\ UNCHANGED bt
  /\ UNCHANGED <<s_wifi_connect_retry_num, s_ap_find_retry_num, event,
                 m_connected, tipVars, link, tutorial_complete, facts, reported,
                 ignored>>

\* The SDK asks for BLE; the controller may fail.
tuya_iot_bt_init ==
  /\ sdk = "idle" /\ bt \in {"off", "stopped"}
  /\ bt' = "on"
  /\ UNCHANGED <<netVars, iotVars, tipVars, link, tutorial_complete, facts,
                 reported, ignored, ui>>

\* NETCFG_EVENT_BLE_COMPLETED: the phone has sent its credentials.
ble_netcfg_event_on ==
  /\ sdk = "idle" /\ bt = "on"
  /\ facts' = facts \cup {"creds"}
  /\ UNCHANGED <<netVars, iotVars, tipVars, bt, link, tutorial_complete,
                 reported, ignored, ui>>

\* tuya_iot_bt_stop() sets the status whatever it was, BLE or not; the SDK
\* calls it once it has credentials.
tuya_iot_bt_stop ==
  /\ sdk = "idle" /\ "creds" \in facts
  /\ bt' = IF bt = "released" THEN bt ELSE "stopped"
  /\ m_prov_status' = prov_ble_connected
  /\ UNCHANGED <<in_provision, s_wifi_connect_retry_num, s_ap_find_retry_num,
                 event, iotVars, tipVars, link, tutorial_complete, facts,
                 reported, ignored, ui>>

\* The phone or the tutorial sets the property.
TutorialComplete ==
  /\ ~tutorial_complete
  /\ tutorial_complete' = TRUE
  /\ UNCHANGED <<netVars, iotVars, tipVars, bt, link, facts, reported, ignored,
                 ui>>

\* The SDK connects the station with the credentials it has.
SdkConnect ==
  /\ sdk = "idle" /\ "creds" \in facts /\ link = "down"
  /\ link' = "connecting"
  /\ UNCHANGED <<netVars, iotVars, tipVars, bt, tutorial_complete, facts,
                 reported, ignored, ui>>

\* The cloud connection is up; the callback may be carried out late.
CloudUp ==
  /\ sdk = "idle" /\ link = "ip"
  /\ facts' = facts \cup {"cloud"}
  /\ sdk' = "status"
  /\ UNCHANGED <<netVars, m_connected, pass_provision, tipVars, bt, link,
                 tutorial_complete, reported, ignored, ui>>

\* net_status_change_handler(STAT_CLOUD_CONN), one step per shared variable:
\* the status, the connection, connect_cb() and at last in_provision.
net_status_change_handler ==
  /\ \/ /\ sdk = "status"
        /\ m_prov_status' = IF in_provision THEN prov_activated
                            ELSE m_prov_status
        /\ sdk' = "connection"
        /\ UNCHANGED <<in_provision, m_connected, pass_provision>>
     \/ /\ sdk = "connection"
        /\ m_connected' = TRUE
        /\ sdk' = "report"
        /\ UNCHANGED <<in_provision, m_prov_status, pass_provision>>
     \/ /\ sdk = "report"
        /\ pass_provision' = FALSE
        /\ sdk' = "done"
        /\ UNCHANGED <<in_provision, m_prov_status, m_connected>>
     \/ /\ sdk = "done"
        /\ in_provision' = FALSE
        /\ sdk' = "idle"
        /\ UNCHANGED <<m_prov_status, m_connected, pass_provision>>
  /\ UNCHANGED <<s_wifi_connect_retry_num, s_ap_find_retry_num, event, tipVars,
                 envVars, ui>>

Sdk == tuya_dev_init_event_cb \/ net_status_change_handler
-----------------------------------------------------------------------------
(* The Wi-Fi event task. *)

\* Mutant: a new connection does not reset the retry counters.
WifiConnectedNoReset ==
  /\ event = NoWrite /\ link = "connecting"
  /\ link' = "assoc"
  /\ reported' = FALSE /\ ignored' = FALSE
  /\ facts' = facts \cup {"assoc"}
  /\ UNCHANGED <<netVars, iotVars, tipVars, bt, tutorial_complete, ui>>

\* SYSTEM_EVENT_STA_CONNECTED
WifiConnected ==
  /\ event = NoWrite /\ link = "connecting"
  /\ link' = "assoc"
  /\ s_wifi_connect_retry_num' = 0
  /\ s_ap_find_retry_num' = 0
  /\ reported' = FALSE /\ ignored' = FALSE
  /\ facts' = facts \cup {"assoc"}
  /\ UNCHANGED <<in_provision, m_prov_status, event, iotVars, tipVars, bt,
                 tutorial_complete, ui>>

\* SYSTEM_EVENT_STA_GOT_IP, also when the address is renewed; the DHCP client
\* may post it behind the loss of the link.
WifiGotIp ==
  /\ event = NoWrite /\ "assoc" \in facts
  /\ link' = IF link \in {"assoc", "ip"} THEN "ip" ELSE link
  /\ facts' = facts \cup {"ip"}
  /\ event' = IF in_provision THEN prov_wifi_connected ELSE NoWrite
  /\ UNCHANGED <<in_provision, m_prov_status, s_wifi_connect_retry_num,
                 s_ap_find_retry_num, iotVars, tipVars, bt, tutorial_complete,
                 reported, ignored, ui>>

\* ui_text_tip(): replaces any screen but the boot screen.
TextTip == ui' = IF ui = "boot" THEN "boot" ELSE "text"

\* The failure is reported: a status for the provisioning screen, which
\* set_prov_status() is yet to store, or a text.
Report(status) ==
  \/ in_provision /\ event' = status /\ UNCHANGED <<ui, reported>>
  \/ /\ ~in_provision /\ TextTip
     /\ reported' = (reported \/ ui # "boot")
     /\ UNCHANGED event

\* Mutant: the retries go on for ever.
RetryForever(count, max, status) ==
  /\ count' = count + 1
  /\ link' = "connecting"
  /\ IF count = max THEN Report(status) ELSE UNCHANGED <<event, ui, reported>>

\* One reason's retries: connect again, the last time with a message, then
\* give up.
Retry(count, max, status) ==
  /\ count' = IF count <= max THEN count + 1 ELSE count
  /\ link' = IF count <= max THEN "connecting" ELSE "down"
  /\ IF count = max THEN Report(status) ELSE UNCHANGED <<event, ui, reported>>

\* WIFI_REASON_(4WAY_)HANDSHAKE_TIMEOUT
DisconnectedHandshake ==
  /\ link' = "down"
  /\ event' = IF in_provision THEN prov_pwd_error ELSE NoWrite
  /\ facts' = facts \cup {"refused"}
  /\ UNCHANGED <<s_wifi_connect_retry_num, s_ap_find_retry_num, ui, reported>>

\* WIFI_REASON_NO_AP_FOUND
DisconnectedNoAp ==
  /\ Retry(s_ap_find_retry_num, WIFI_AP_FIND_MAXNUM_RETRY, prov_ap_not_found)
  /\ facts' = facts \cup {"noap"}
  /\ UNCHANGED s_wifi_connect_retry_num

\* Any other reason.
DisconnectedOther ==
  /\ Retry(s_wifi_connect_retry_num, WIFI_CONNECT_MAXNUM_RETRY,
           prov_wifi_conn_fail)
  /\ UNCHANGED <<s_ap_find_retry_num, facts>>

\* SYSTEM_EVENT_STA_DISCONNECTED; a sleeping device does nothing.
WifiDisconnected ==
  /\ event = NoWrite /\ link # "down"
  /\ \/ /\ link' = "down"
        /\ ignored' = TRUE
        /\ UNCHANGED <<s_wifi_connect_retry_num, s_ap_find_retry_num, event,
                       m_connected, ui, reported, facts>>
     \/ /\ m_connected' = FALSE
        /\ DisconnectedHandshake \/ DisconnectedNoAp \/ DisconnectedOther
        /\ UNCHANGED ignored
  /\ UNCHANGED <<in_provision, m_prov_status, pass_provision, sdk, tipVars, bt,
                 tutorial_complete>>

\* Mutant: the text is shown during provisioning as well.
WifiRssiLowText ==
  /\ event = NoWrite /\ link \in {"assoc", "ip"}
  /\ TextTip /\ UNCHANGED event
  /\ UNCHANGED <<in_provision, m_prov_status, s_wifi_connect_retry_num,
                 s_ap_find_retry_num, iotVars, tipVars, envVars>>

\* SYSTEM_EVENT_STA_BSS_RSSI_LOW
WifiRssiLow ==
  /\ event = NoWrite /\ link \in {"assoc", "ip"}
  /\ \/ in_provision /\ event' = prov_rssi_low /\ UNCHANGED ui
     \/ ~in_provision /\ TextTip /\ UNCHANGED event
  /\ UNCHANGED <<in_provision, m_prov_status, s_wifi_connect_retry_num,
                 s_ap_find_retry_num, iotVars, tipVars, envVars>>

\* What the handler of a disconnection reports.
Failures == {prov_wifi_conn_fail, prov_pwd_error, prov_ap_not_found}

\* set_prov_status(), after in_provision was tested.
set_prov_status ==
  /\ event # NoWrite
  /\ m_prov_status' = event
  /\ reported' = (reported \/ event \in Failures)
  /\ event' = NoWrite
  /\ UNCHANGED <<in_provision, s_wifi_connect_retry_num, s_ap_find_retry_num,
                 iotVars, tipVars, bt, link, tutorial_complete, facts, ignored,
                 ui>>
-----------------------------------------------------------------------------
(* The provisioning screen; its timer calls next() every 100 ms. *)

IsError(status) == status > prov_err_start

\* Mutant: a restart is ordered for every error.
CheckErrorAny(status) ==
  /\ m_should_restart' =
       (m_should_restart \/ (status # m_current_err /\ IsError(status)))
  /\ m_current_err' = IF IsError(status) THEN status ELSE 0

\* Mutant: only the password error orders a restart.
CheckErrorPwd(status) ==
  /\ m_should_restart' =
       (m_should_restart \/ (status # m_current_err /\ status = prov_pwd_error))
  /\ m_current_err' = IF IsError(status) THEN status ELSE 0

\* check_error(): a new error is shown, two of them order a restart.
CheckError(status) ==
  /\ m_should_restart' =
       (m_should_restart \/ (status # m_current_err
                              /\ status \in {prov_pwd_error, prov_ap_not_found}))
  /\ m_current_err' = IF IsError(status) THEN status ELSE 0

\* The first half of next(): the restart, then the errors.
NextCheck ==
  /\ ui = "prov" /\ uipc = "idle" /\ ~m_should_restart
  /\ CheckError(m_prov_status)
  /\ uipc' = IF IsError(m_prov_status) THEN "idle" ELSE "step"
  /\ UNCHANGED <<netVars, iotVars, m_current_step, envVars, ui>>

\* Boot::soft_reboot(), when the delay is over: only what is in the flash stays.
SoftReboot ==
  /\ ui = "prov" /\ uipc = "idle" /\ m_should_restart
  /\ in_provision' = FALSE /\ m_prov_status' = prov_no_need
  /\ s_wifi_connect_retry_num' = 0 /\ s_ap_find_retry_num' = 0
  /\ event' = NoWrite
  /\ m_connected' = FALSE /\ pass_provision' = FALSE /\ sdk' = "start"
  /\ uipc' = "idle" /\ m_current_step' = 0 /\ m_current_err' = 0
  /\ m_should_restart' = FALSE
  /\ bt' = "off" /\ link' = "down" /\ reported' = FALSE /\ ignored' = FALSE
  /\ ui' = "loading"
  /\ facts' \in {{}, facts \cap {"creds"}}
  /\ UNCHANGED tutorial_complete

\* Mutant: an error status counts as having got that far.
ReachStatusAny(status) == m_prov_status >= status

\* Mutant: the status has to be passed.
ReachStatusBeyond(status) ==
  m_prov_status > status /\ m_prov_status < prov_err_start

\* reach_status() reads the status again.
reach_status(status) ==
  m_prov_status >= status /\ m_prov_status < prov_err_start

\* What each step of the screen waits for.
Awaited == [s \in 1 .. 3 |-> IF s = 1 THEN prov_ble_connected
                             ELSE IF s = 2 THEN prov_wifi_connected
                             ELSE prov_activated]

\* The second half of next(); the last step leaves the screen once the tutorial
\* is complete.
NextStep ==
  /\ ui = "prov" /\ uipc = "step"
  /\ uipc' = "idle"
  /\ \/ /\ m_current_step = 0
        /\ m_current_step' = 1
        /\ UNCHANGED ui
     \/ /\ m_current_step \in 1 .. 3
        /\ m_current_step' = IF reach_status(Awaited[m_current_step])
                             THEN m_current_step + 1 ELSE m_current_step
        /\ UNCHANGED ui
     \/ /\ m_current_step = 4
        /\ ui' = IF tutorial_complete THEN "main" ELSE ui
        /\ UNCHANGED m_current_step
  /\ UNCHANGED <<netVars, iotVars, m_current_err, m_should_restart, envVars>>

Tip == NextCheck \/ NextStep \/ SoftReboot
-----------------------------------------------------------------------------
Next ==
  \/ tuya_dev_init_event_cb \/ net_status_change_handler
  \/ tuya_iot_bt_init \/ ble_netcfg_event_on \/ tuya_iot_bt_stop
  \/ SdkConnect \/ CloudUp \/ TutorialComplete
  \/ WifiConnected \/ WifiGotIp \/ WifiDisconnected \/ WifiRssiLow
  \/ set_prov_status
  \/ NextCheck \/ NextStep \/ SoftReboot

Spec == Init /\ [][Next]_vars

\* The three tasks carry on what they have begun and the screen's timer fires;
\* of the phone, the access point and the cloud nothing is assumed.
FairSpec ==
  Spec /\ WF_vars(Sdk) /\ WF_vars(Tip) /\ WF_vars(set_prov_status)
-----------------------------------------------------------------------------
(* Properties. *)

\* Every variable keeps its type; the retry counters stop one beyond the limit.
TypeOK ==
  /\ in_provision \in BOOLEAN /\ m_prov_status \in Status
  /\ s_wifi_connect_retry_num \in 0 .. WIFI_CONNECT_MAXNUM_RETRY + 1
  /\ s_ap_find_retry_num \in 0 .. WIFI_AP_FIND_MAXNUM_RETRY + 1
  /\ event \in Status \cup {NoWrite}
  /\ m_connected \in BOOLEAN /\ pass_provision \in BOOLEAN
  /\ sdk \in {"start", "idle", "status", "connection", "report", "done"}
  /\ uipc \in {"idle", "step"} /\ m_current_step \in 0 .. 4
  /\ m_current_err \in Status /\ m_should_restart \in BOOLEAN
  /\ bt \in {"off", "on", "stopped", "released"}
  /\ link \in {"down", "connecting", "assoc", "ip"}
  /\ facts \subseteq Facts /\ tutorial_complete \in BOOLEAN
  /\ reported \in BOOLEAN /\ ignored \in BOOLEAN
  /\ ui \in {"loading", "boot", "prov", "text", "main"}

\* The provisioning screen never claims more than has happened, although its
\* status goes back and forth: "configuring" needs credentials, "router
\* success" an address, "activated" the cloud.
StepsEarned ==
  /\ m_current_step >= 2 => "creds" \in facts
  /\ m_current_step >= 3 => "ip" \in facts
  /\ m_current_step >= 4 => "cloud" \in facts

\* The restart that the screen orders is not cancelled by a later success, so it
\* must not be ordered lightly: only after the access point has refused the
\* device or was not found.
RestartEarned ==
  m_should_restart => "refused" \in facts \/ "noap" \in facts

\* While it is provisioned, the device stops trying to connect only when since
\* the last connection a failure has been stored as the status, or is what the
\* handler stores next.  Whether the screen's next poll still finds it there is
\* another matter: tuya_iot_bt_stop() may overwrite it first.
GiveUpReported ==
  [][in_provision /\ in_provision' /\ link # "down" /\ link' = "down"
       => reported \/ ignored' \/ event' = prov_pwd_error]_vars

\* A text tip takes the provisioning screen away, and its last step with it, on
\* a device that has been activated only: during provisioning the same trouble
\* is shown on the screen itself, whatever the SDK's task does meanwhile.
TipAfterActivation ==
  [][ui = "prov" /\ ui' = "text" => "cloud" \in facts]_vars

\* The provisioning screen does not get stuck on a device with its tutorial
\* complete whose status stays "activated" ...
ActivationLeavesScreen ==
  ~<>[](ui = "prov" /\ m_prov_status = prov_activated /\ tutorial_complete)

\* ... nor with an error that orders a restart.
ErrorLeavesScreen ==
  ~<>[](ui = "prov" /\ m_prov_status \in {prov_pwd_error, prov_ap_not_found})
=============================================================================
