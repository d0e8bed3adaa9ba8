------------------------- MODULE ProvisioningProof -------------------------
(***************************************************************************)
(* Proofs about Provisioning, for any retry limits.                        *)
(***************************************************************************)
EXTENDS Provisioning, TLAPS

\* The two halves of TypeOK, for provers of different strengths.
TypeBool ==
  /\ in_provision \in BOOLEAN /\ m_connected \in BOOLEAN
  /\ pass_provision \in BOOLEAN /\ m_should_restart \in BOOLEAN
  /\ tutorial_complete \in BOOLEAN /\ reported \in BOOLEAN /\ ignored \in BOOLEAN

TypeData ==
  /\ m_prov_status \in Status
  /\ s_wifi_connect_retry_num \in 0 .. WIFI_CONNECT_MAXNUM_RETRY + 1
  /\ s_ap_find_retry_num \in 0 .. WIFI_AP_FIND_MAXNUM_RETRY + 1
  /\ event \in Status \cup {NoWrite}
  /\ sdk \in {"start", "idle", "status", "connection", "report", "done"}
  /\ uipc \in {"idle", "step"} /\ m_current_step \in 0 .. 4
  /\ m_current_err \in Status
  /\ bt \in {"off", "on", "stopped", "released"}
  /\ link \in {"down", "connecting", "assoc", "ip"}
  /\ facts \subseteq Facts
  /\ ui \in {"loading", "boot", "prov", "text", "main"}

\* A status, set or about to be set, has its reason among the facts.
Backed(status) ==
  /\ status \in prov_ble_connected .. prov_activated => "creds" \in facts
  /\ status \in prov_wifi_connected .. prov_activated => "ip" \in facts
  /\ status = prov_activated => "cloud" \in facts
  /\ status = prov_pwd_error => "refused" \in facts
  /\ status = prov_ap_not_found => "noap" \in facts

\* What the link and the SDK's callback say has happened.
FactsInv ==
  /\ link # "down" => "creds" \in facts
  /\ link = "ip" => "ip" \in facts
  /\ sdk \notin {"start", "idle"} => "cloud" \in facts
  /\ "cloud" \in facts => "ip" \in facts
  /\ "ip" \in facts \/ "assoc" \in facts => "creds" \in facts

EarnedInv ==
  /\ FactsInv
  /\ Backed(m_prov_status) /\ Backed(event)
  /\ StepsEarned /\ RestartEarned
  /\ ui = "prov" /\ ~in_provision => "cloud" \in facts

\* A failure is stored as the status, or the event task is about to store it.
Noted == reported \/ event \in Failures \/ ~in_provision

\* Retries that have run out were reported, and none are made before the start.
GiveUpInv ==
  /\ s_wifi_connect_retry_num > WIFI_CONNECT_MAXNUM_RETRY => Noted
  /\ s_ap_find_retry_num > WIFI_AP_FIND_MAXNUM_RETRY => Noted
  /\ sdk = "start" => /\ link = "down"
                      /\ s_wifi_connect_retry_num = 0
                      /\ s_ap_find_retry_num = 0

ProvInv == TypeOK /\ EarnedInv /\ GiveUpInv
-----------------------------------------------------------------------------
USE DEF prov_no_need, prov_init, prov_ble_connected, prov_wifi_connected,
        prov_activated, prov_err_start, prov_wifi_conn_fail, prov_pwd_error,
        prov_ap_not_found, prov_rssi_low, NoWrite

\* The halves of TypeOK make it up.
LEMMA TypeSplit == TypeOK <=> TypeBool /\ TypeData
BY DEF TypeOK, TypeBool, TypeData

\* Every step leaves the flags Booleans.
LEMMA BoolStep == TypeBool /\ [Next]_vars => TypeBool'
<1> SUFFICES ASSUME TypeBool, [Next]_vars PROVE TypeBool'
  OBVIOUS
<1> USE DEF TypeBool
<1>1. CASE tuya_dev_init_event_cb
  BY <1>1 DEF tuya_dev_init_event_cb, tipVars
<1>2. CASE net_status_change_handler
  BY <1>2 DEF net_status_change_handler, tipVars, envVars
<1>3. CASE tuya_iot_bt_init
  BY <1>3 DEF tuya_iot_bt_init, netVars, iotVars, tipVars
<1>4. CASE ble_netcfg_event_on
  BY <1>4 DEF ble_netcfg_event_on, netVars, iotVars, tipVars
<1>5. CASE tuya_iot_bt_stop
  BY <1>5 DEF tuya_iot_bt_stop, iotVars, tipVars
<1>6. CASE SdkConnect
  BY <1>6 DEF SdkConnect, netVars, iotVars, tipVars
<1>7. CASE CloudUp
  BY <1>7 DEF CloudUp, netVars, tipVars
<1>8. CASE TutorialComplete
  BY <1>8 DEF TutorialComplete, netVars, iotVars, tipVars
<1>9. CASE WifiConnected
  BY <1>9 DEF WifiConnected, iotVars, tipVars
<1>10. CASE WifiGotIp
  BY <1>10 DEF WifiGotIp, iotVars, tipVars
<1>11. CASE WifiDisconnected
  BY <1>11 DEF WifiDisconnected, DisconnectedHandshake, DisconnectedNoAp,
             DisconnectedOther, Retry, Report, TextTip, tipVars
<1>12. CASE WifiRssiLow
  BY <1>12 DEF WifiRssiLow, TextTip, iotVars, tipVars, envVars
<1>13. CASE set_prov_status
  BY <1>13 DEF set_prov_status, iotVars, tipVars, envVars
<1>14. CASE NextCheck
  BY <1>14 DEF NextCheck, CheckError, IsError, netVars, iotVars, envVars
<1>15. CASE NextStep
  BY <1>15 DEF NextStep, netVars, iotVars, envVars
<1>16. CASE SoftReboot
  BY <1>16 DEF SoftReboot
<1>17. CASE UNCHANGED vars
  BY <1>17 DEF vars, netVars, iotVars, tipVars, envVars
<1> QED
  BY <1>1, <1>2, <1>3, <1>4, <1>5, <1>6, <1>7, <1>8, <1>9, <1>10, <1>11,
     <1>12, <1>13, <1>14, <1>15, <1>16, <1>17 DEF Next

\* Every step preserves the types of the other variables.
LEMMA DataStep == TypeData /\ [Next]_vars => TypeData'
<1> SUFFICES ASSUME TypeData, [Next]_vars PROVE TypeData'
  OBVIOUS
<1> USE RetryAssumption DEF TypeData, Status, Facts
<1>1. CASE tuya_dev_init_event_cb
  BY <1>1 DEF tuya_dev_init_event_cb, tipVars
<1>2. CASE net_status_change_handler
  BY <1>2 DEF net_status_change_handler, tipVars, envVars
<1>3. CASE tuya_iot_bt_init
  BY <1>3 DEF tuya_iot_bt_init, netVars, iotVars, tipVars
<1>4. CASE ble_netcfg_event_on
  BY <1>4 DEF ble_netcfg_event_on, netVars, iotVars, tipVars
<1>5. CASE tuya_iot_bt_stop
  BY <1>5 DEF tuya_iot_bt_stop, iotVars, tipVars
<1>6. CASE SdkConnect
  BY <1>6 DEF SdkConnect, netVars, iotVars, tipVars
<1>7. CASE CloudUp
  BY <1>7 DEF CloudUp, netVars, tipVars
<1>8. CASE TutorialComplete
  BY <1>8 DEF TutorialComplete, netVars, iotVars, tipVars
<1>9. CASE WifiConnected
  BY <1>9 DEF WifiConnected, iotVars, tipVars
<1>10. CASE WifiGotIp
  BY <1>10 DEF WifiGotIp, iotVars, tipVars
<1>11. CASE WifiDisconnected
  <2> USE <1>11 DEF WifiDisconnected, tipVars
  <2>1. CASE link' = "down" /\ UNCHANGED <<s_wifi_connect_retry_num,
               s_ap_find_retry_num, event, ui, facts>>
    BY <2>1
  <2>2. CASE DisconnectedHandshake
    BY <2>2 DEF DisconnectedHandshake
  <2>3. CASE DisconnectedNoAp
    BY <2>3 DEF DisconnectedNoAp, Retry, Report, TextTip
  <2>4. CASE DisconnectedOther
    BY <2>4 DEF DisconnectedOther, Retry, Report, TextTip
  <2> QED
    BY <2>1, <2>2, <2>3, <2>4
<1>12. CASE WifiRssiLow
  BY <1>12 DEF WifiRssiLow, TextTip, iotVars, tipVars, envVars
<1>13. CASE set_prov_status
  BY <1>13 DEF set_prov_status, iotVars, tipVars, envVars
<1>14. CASE NextCheck
  BY <1>14 DEF NextCheck, CheckError, IsError, netVars, iotVars, envVars
<1>15. CASE NextStep
  BY <1>15 DEF NextStep, netVars, iotVars, envVars
<1>16. CASE SoftReboot
  BY <1>16 DEF SoftReboot
<1>17. CASE UNCHANGED vars
  BY <1>17 DEF vars, netVars, iotVars, tipVars, envVars
<1> QED
  BY <1>1, <1>2, <1>3, <1>4, <1>5, <1>6, <1>7, <1>8, <1>9, <1>10, <1>11,
     <1>12, <1>13, <1>14, <1>15, <1>16, <1>17 DEF Next

\* Every step keeps the claims of status and screen backed by facts.
LEMMA EarnedStep == TypeOK /\ EarnedInv /\ [Next]_vars => EarnedInv'
<1> SUFFICES ASSUME TypeOK, EarnedInv, [Next]_vars PROVE EarnedInv'
  OBVIOUS
<1> USE DEF EarnedInv, FactsInv, Backed, StepsEarned, RestartEarned, TypeOK, Status
<1>1. CASE tuya_dev_init_event_cb
  BY <1>1 DEF tuya_dev_init_event_cb, tipVars
<1>2. CASE net_status_change_handler
  BY <1>2 DEF net_status_change_handler, tipVars, envVars
<1>3. CASE tuya_iot_bt_init
  BY <1>3 DEF tuya_iot_bt_init, netVars, iotVars, tipVars
<1>4. CASE ble_netcfg_event_on
  BY <1>4 DEF ble_netcfg_event_on, netVars, iotVars, tipVars
<1>5. CASE tuya_iot_bt_stop
  BY <1>5 DEF tuya_iot_bt_stop, iotVars, tipVars
<1>6. CASE SdkConnect
  BY <1>6 DEF SdkConnect, netVars, iotVars, tipVars
<1>7. CASE CloudUp
  BY <1>7 DEF CloudUp, netVars, tipVars
<1>8. CASE TutorialComplete
  BY <1>8 DEF TutorialComplete, netVars, iotVars, tipVars
<1>9. CASE WifiConnected
  BY <1>9 DEF WifiConnected, iotVars, tipVars
<1>10. CASE WifiGotIp
  BY <1>10 DEF WifiGotIp, iotVars, tipVars
<1>11. CASE WifiDisconnected
  BY <1>11 DEF WifiDisconnected, DisconnectedHandshake, DisconnectedNoAp,
             DisconnectedOther, Retry, Report, TextTip, tipVars
<1>12. CASE WifiRssiLow
  BY <1>12 DEF WifiRssiLow, TextTip, iotVars, tipVars, envVars
<1>13. CASE set_prov_status
  BY <1>13 DEF set_prov_status, iotVars, tipVars, envVars
<1>14. CASE NextCheck
  BY <1>14 DEF NextCheck, CheckError, IsError, netVars, iotVars, envVars
<1>15. CASE NextStep
  BY <1>15 DEF NextStep, netVars, iotVars, envVars, reach_status, Awaited
<1>16. CASE SoftReboot
  BY <1>16 DEF SoftReboot
<1>17. CASE UNCHANGED vars
  BY <1>17 DEF vars, netVars, iotVars, tipVars, envVars
<1> QED
  BY <1>1, <1>2, <1>3, <1>4, <1>5, <1>6, <1>7, <1>8, <1>9, <1>10, <1>11,
     <1>12, <1>13, <1>14, <1>15, <1>16, <1>17 DEF Next

\* Every step keeps exhausted retries reported.
LEMMA GiveUpStep == TypeOK /\ GiveUpInv /\ [Next]_vars => GiveUpInv'
<1> SUFFICES ASSUME TypeOK, GiveUpInv, [Next]_vars PROVE GiveUpInv'
  OBVIOUS
<1> USE RetryAssumption DEF GiveUpInv, Noted, Failures, TypeOK
<1>1. CASE tuya_dev_init_event_cb
  BY <1>1 DEF tuya_dev_init_event_cb, tipVars
<1>2. CASE net_status_change_handler
  BY <1>2 DEF net_status_change_handler, tipVars, envVars
<1>3. CASE tuya_iot_bt_init
  BY <1>3 DEF tuya_iot_bt_init, netVars, iotVars, tipVars
<1>4. CASE ble_netcfg_event_on
  BY <1>4 DEF ble_netcfg_event_on, netVars, iotVars, tipVars
<1>5. CASE tuya_iot_bt_stop
  BY <1>5 DEF tuya_iot_bt_stop, iotVars, tipVars
<1>6. CASE SdkConnect
  BY <1>6 DEF SdkConnect, netVars, iotVars, tipVars
<1>7. CASE CloudUp
  BY <1>7 DEF CloudUp, netVars, tipVars
<1>8. CASE TutorialComplete
  BY <1>8 DEF TutorialComplete, netVars, iotVars, tipVars
<1>9. CASE WifiConnected
  BY <1>9 DEF WifiConnected, iotVars, tipVars
<1>10. CASE WifiGotIp
  BY <1>10 DEF WifiGotIp, iotVars, tipVars
<1>11. CASE WifiDisconnected
  BY <1>11 DEF WifiDisconnected, DisconnectedHandshake, DisconnectedNoAp,
             DisconnectedOther, Retry, Report, TextTip, tipVars
<1>12. CASE WifiRssiLow
  BY <1>12 DEF WifiRssiLow, TextTip, iotVars, tipVars, envVars
<1>13. CASE set_prov_status
  BY <1>13 DEF set_prov_status, iotVars, tipVars, envVars
<1>14. CASE NextCheck
  BY <1>14 DEF NextCheck, CheckError, IsError, netVars, iotVars, envVars
<1>15. CASE NextStep
  BY <1>15 DEF NextStep, netVars, iotVars, envVars
<1>16. CASE SoftReboot
  BY <1>16 DEF SoftReboot
<1>17. CASE UNCHANGED vars
  BY <1>17 DEF vars, netVars, iotVars, tipVars, envVars
<1> QED
  BY <1>1, <1>2, <1>3, <1>4, <1>5, <1>6, <1>7, <1>8, <1>9, <1>10, <1>11,
     <1>12, <1>13, <1>14, <1>15, <1>16, <1>17 DEF Next

\* The initial states.
LEMMA InitEstablishes == Init => ProvInv
<1> SUFFICES ASSUME Init PROVE ProvInv
  OBVIOUS
<1>1. TypeOK
  <2>1. TypeBool
    BY DEF Init, TypeBool
  <2>2. TypeData
    BY RetryAssumption DEF Init, TypeData, Status, Facts
  <2> QED
    BY <2>1, <2>2, TypeSplit
<1>2. EarnedInv
  BY DEF Init, EarnedInv, FactsInv, Backed, StepsEarned, RestartEarned
<1>3. GiveUpInv
  BY RetryAssumption DEF Init, GiveUpInv
<1> QED
  BY <1>1, <1>2, <1>3 DEF ProvInv

\* ProvInv is an invariant: every status, the screen's step and an ordered restart
\* are backed by what happened, whatever the order in which the Wi-Fi event task,
\* the SDK's task and the screen's timer read and write the shared status.
THEOREM ProvInvariant == Spec => []ProvInv
<1>1. TypeOK /\ [Next]_vars => TypeOK'
  <2>1. TypeOK => TypeBool /\ TypeData
    BY TypeSplit
  <2>2. (TypeBool /\ TypeData)' => TypeOK'
    BY DEF TypeOK, TypeBool, TypeData
  <2> QED
    BY <2>1, <2>2, BoolStep, DataStep
<1>2. ProvInv /\ [Next]_vars => ProvInv'
  BY <1>1, EarnedStep, GiveUpStep DEF ProvInv
<1> QED
  BY <1>2, InitEstablishes, PTL DEF Spec

\* Type correctness of the provisioning state, for any retry limits: the counters
\* of net_event_handler() stop one beyond theirs.
THEOREM ProvTypeCorrect == Spec => []TypeOK
BY ProvInvariant, PTL DEF ProvInv

\* The provisioning screen claims no progress that has not been made, and orders
\* no restart without a refusal or a missing access point.
THEOREM ScreenHonest == Spec => [](StepsEarned /\ RestartEarned)
<1>1. ProvInv => StepsEarned /\ RestartEarned
  BY DEF ProvInv, EarnedInv
<1> QED
  BY <1>1, ProvInvariant, PTL

\* net_event_handler() gives up connecting during provisioning only when it has
\* stored a failure as the status or is about to, for any retry limits.
THEOREM GivesUpReported == Spec => GiveUpReported
<1> DEFINE Loss == in_provision /\ in_provision' /\ link # "down" /\ link' = "down"
                     => reported \/ ignored' \/ event' = prov_pwd_error
<1>1. ProvInv /\ [Next]_vars => [Loss]_vars
  <2> SUFFICES ASSUME ProvInv, Next, in_provision, in_provision',
                      link # "down", link' = "down"
               PROVE  reported \/ ignored' \/ event' = prov_pwd_error
    OBVIOUS
  <2>1. WifiDisconnected
    BY DEF Next, ProvInv, GiveUpInv, tuya_dev_init_event_cb,
           net_status_change_handler, tuya_iot_bt_init, ble_netcfg_event_on,
           tuya_iot_bt_stop, SdkConnect, CloudUp, TutorialComplete, WifiConnected,
           WifiGotIp, WifiRssiLow, set_prov_status, NextCheck, NextStep,
           SoftReboot, envVars
  <2>2. CASE DisconnectedHandshake
    BY <2>2 DEF DisconnectedHandshake
  <2>3. CASE DisconnectedNoAp
    BY <2>1, <2>3, RetryAssumption
       DEF DisconnectedNoAp, Retry, ProvInv, GiveUpInv, Noted, Failures, TypeOK,
           WifiDisconnected
  <2>4. CASE DisconnectedOther
    BY <2>1, <2>4, RetryAssumption
       DEF DisconnectedOther, Retry, ProvInv, GiveUpInv, Noted, Failures, TypeOK,
           WifiDisconnected
  <2> QED
    BY <2>1, <2>2, <2>3, <2>4 DEF WifiDisconnected
<1> QED
  BY <1>1, ProvInvariant, PTL DEF Spec, GiveUpReported

\* ui_text_tip() replaces the provisioning screen of an activated device only:
\* in_provision falls in the callback that reports the cloud connection.
THEOREM TipsAfterActivation == Spec => TipAfterActivation
<1> DEFINE Earned == ui = "prov" /\ ui' = "text" => "cloud" \in facts
<1>1. ProvInv /\ [Next]_vars => [Earned]_vars
  <2> SUFFICES ASSUME ProvInv, Next, ui = "prov", ui' = "text"
               PROVE  "cloud" \in facts
    OBVIOUS
  <2>1. WifiDisconnected \/ WifiRssiLow
    BY DEF Next, tuya_dev_init_event_cb,
           net_status_change_handler, tuya_iot_bt_init, ble_netcfg_event_on,
           tuya_iot_bt_stop, SdkConnect, CloudUp, TutorialComplete, WifiConnected,
           WifiGotIp, set_prov_status, NextCheck, NextStep, SoftReboot
  <2>2. CASE WifiDisconnected
    BY <2>2 DEF WifiDisconnected, DisconnectedHandshake, DisconnectedNoAp,
             DisconnectedOther, Retry, Report, ProvInv, EarnedInv
  <2>3. CASE WifiRssiLow
    BY <2>3 DEF WifiRssiLow, ProvInv, EarnedInv
  <2> QED
    BY <2>1, <2>2, <2>3
<1> QED
  BY <1>1, ProvInvariant, PTL DEF Spec, TipAfterActivation
=============================================================================
