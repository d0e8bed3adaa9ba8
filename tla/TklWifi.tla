------------------------------ MODULE TklWifi ------------------------------
(***************************************************************************)
(* The Wi-Fi adapter tkl_wifi.c: the SDK's operations, and the handler of  *)
(* the events.  Two threads post to the event loop: the driver, which      *)
(* waits for room, and lwIP's, whose DHCP client reports an address and    *)
(* does not wait.  The loop runs esp-idf's own handlers first: they start  *)
(* and stop the DHCP client, so it goes on after a lost link until the     *)
(* loop gets to the loss, and an address may be posted behind it.          *)
(***************************************************************************)
EXTENDS Naturals, Sequences

CONSTANT EventCap      \* events the loop holds

ASSUME EventAssumption == EventCap \in Nat \ {0}

VARIABLES
  wifi_sta_conn_status, wifi_sta_ip_addrs, s_wifi_sta_conne_evt_state,
  g_wifi_work_mode,
  tkl_event_cb,        \* registered by tkl_wifi_init()
  told,                \* the last event the SDK's callback was given
  link, esp_mode, started,              \* the driver
  netif,               \* esp_netif: "down", "up" (DHCP runs) or "bound"
  events,              \* posted, not yet handled
  late,                \* since the last loss an address was handled whose
                       \* interface had gone down before
  applied              \* the mode of a tkl_wifi_set_work_mode() just returned

adapterVars == <<wifi_sta_conn_status, wifi_sta_ip_addrs,
                 s_wifi_sta_conne_evt_state, told>>
driverVars  == <<link, esp_mode, started, events>>
netifVars   == <<netif, late>>
vars == <<adapterVars, g_wifi_work_mode, tkl_event_cb, driverVars, netifVars,
          applied>>

\* WF_STATION_STAT_E and WF_EVENT_E, with 0xFF for "no event yet".
StaStatus == {"WSS_IDLE", "WSS_CONNECTING", "WSS_PASSWD_WRONG",
              "WSS_NO_AP_FOUND", "WSS_CONN_FAIL", "WSS_CONN_SUCCESS",
              "WSS_GOT_IP"}
WifiEvent == {"WFE_CONNECTED", "WFE_CONNECT_FAILED", "WFE_DISCONNECTED"}
NoEvent == "0xFF"

\* WF_WK_MD_E and what tkl_wifi_set_work_mode() makes of it.
EspMode == [WWM_POWERDOWN |-> "NULL", WWM_SNIFFER |-> "APSTA",
            WWM_STATION |-> "STA", WWM_SOFTAP |-> "AP",
            WWM_STATIONAP |-> "APSTA"]
WorkMode == DOMAIN EspMode
NoMode == "WWM_UNKNOWN"

\* Reasons of a disconnection that the handler tells apart.
Reason == {"NO_AP_FOUND", "HANDSHAKE_TIMEOUT", "other"}
DriverEvent ==
  {"STA_START", "STA_CONNECTED", "SCAN_DONE", "AUTHMODE_CHANGE",
   "BEACON_TIMEOUT", "GOT_IP"} \cup Reason

Init ==
  /\ wifi_sta_conn_status = "WSS_IDLE" /\ wifi_sta_ip_addrs = FALSE
  /\ s_wifi_sta_conne_evt_state = NoEvent /\ told = NoEvent
  /\ g_wifi_work_mode = NoMode /\ tkl_event_cb = FALSE
  /\ link = "off" /\ esp_mode = "STA" /\ started = FALSE /\ events = <<>>
  /\ netif = "down" /\ late = FALSE
  /\ applied = NoMode
-----------------------------------------------------------------------------
(* The driver: each operation posts what it causes. *)

HasStation(mode) == mode \in {"STA", "APSTA"}

\* The station goes down: a connection that is lost is an event.
DownEvents == IF link = "assoc" THEN <<"other">> ELSE <<>>

\* The driver in a mode, started or not: link and events follow.
Drive(mode, on) ==
  /\ esp_mode' = mode
  /\ started' = on
  /\ LET up == HasStation(esp_mode) /\ started
         goesUp == HasStation(mode) /\ on
     IN  /\ link' = IF up /\ goesUp THEN link
                    ELSE IF goesUp THEN "started" ELSE "off"
         /\ events' = events \o (IF up /\ ~goesUp THEN DownEvents
                                 ELSE IF ~up /\ goesUp THEN <<"STA_START">>
                                 ELSE <<>>)
  /\ Len(events') <= EventCap

\* The driver waits for room in the event loop.
Post(event) == Len(events) < EventCap /\ events' = Append(events, event)

Driver ==
  /\ \/ link = "connecting" /\ link' = "assoc" /\ Post("STA_CONNECTED")
     \/ /\ link \in {"connecting", "assoc"}
        /\ link' = "started"
        /\ \E reason \in Reason : Post(reason)
     \/ /\ link = "assoc"
        /\ \E event \in {"AUTHMODE_CHANGE", "BEACON_TIMEOUT"} : Post(event)
        /\ UNCHANGED link
     \/ link # "off" /\ Post("SCAN_DONE") /\ UNCHANGED link
  /\ applied' = NoMode
  /\ UNCHANGED <<adapterVars, g_wifi_work_mode, tkl_event_cb, esp_mode, started,
                 netifVars>>

\* The DHCP client has an address, or a new one, whatever the link is by now;
\* its event is lost when the loop has no room.
esp_netif_dhcpc_cb ==
  /\ netif # "down"
  /\ netif' = "bound"
  /\ events' = IF Len(events) < EventCap
               THEN Append(events, "GOT_IP") ELSE events
  /\ applied' = NoMode
  /\ UNCHANGED <<adapterVars, g_wifi_work_mode, tkl_event_cb, link, esp_mode,
                 started, late>>

\* NetInterface answers some disconnections with esp_wifi_connect().
Reconnect ==
  /\ link = "started"
  /\ link' = "connecting"
  /\ applied' = NoMode
  /\ UNCHANGED <<adapterVars, g_wifi_work_mode, tkl_event_cb, esp_mode, started,
                 events, netifVars>>
-----------------------------------------------------------------------------
(* The operations of the SDK. *)

\* The callback is set last; a failure before that leaves the adapter unusable.
tkl_wifi_init ==
  /\ ~tkl_event_cb
  /\ tkl_event_cb' = TRUE
  /\ wifi_sta_ip_addrs' = FALSE
  /\ applied' = NoMode
  /\ UNCHANGED <<wifi_sta_conn_status, s_wifi_sta_conne_evt_state, told,
                 g_wifi_work_mode, driverVars, netifVars>>

\* Nothing is done for the mode the adapter believes to be in, and the sniffer
\* mode is only remembered; a failed call changes nothing.
tkl_wifi_set_work_mode(mode) ==
  /\ tkl_event_cb
  /\ IF mode \in {g_wifi_work_mode, "WWM_SNIFFER"}
     THEN UNCHANGED driverVars
     ELSE Drive(EspMode[mode], started)
  /\ g_wifi_work_mode' = mode
  /\ applied' = mode
  /\ UNCHANGED <<adapterVars, tkl_event_cb, netifVars>>

\* The driver is stopped, set to station mode and started; the call may fail
\* after each of these.
tkl_wifi_station_connect ==
  /\ tkl_event_cb
  /\ \/ Drive(esp_mode, FALSE)
     \/ Drive("STA", FALSE)
     \/ /\ esp_mode' = "STA" /\ started' = TRUE
        /\ link' = "started"
        /\ events' = events \o DownEvents \o <<"STA_START">>
        /\ Len(events') <= EventCap
  /\ applied' = NoMode
  /\ UNCHANGED <<adapterVars, g_wifi_work_mode, tkl_event_cb, netifVars>>

\* Disconnects and stops.
tkl_wifi_station_disconnect ==
  /\ tkl_event_cb
  /\ Drive(esp_mode, FALSE)
  /\ applied' = NoMode
  /\ UNCHANGED <<adapterVars, g_wifi_work_mode, tkl_event_cb, netifVars>>

\* Access point mode is set and started; the call may fail in between.
tkl_wifi_start_ap ==
  /\ tkl_event_cb
  /\ Drive("AP", started) \/ Drive("AP", TRUE)
  /\ applied' = NoMode
  /\ UNCHANGED <<adapterVars, g_wifi_work_mode, tkl_event_cb, netifVars>>

\* Setting an address also sets the mode of its interface.
tkl_wifi_set_mac(mode) ==
  /\ tkl_event_cb
  /\ Drive(mode, started)
  /\ applied' = NoMode
  /\ UNCHANGED <<adapterVars, g_wifi_work_mode, tkl_event_cb, netifVars>>
-----------------------------------------------------------------------------
(* tkl_wifi_event_handler(), one event at a time; esp-idf's handlers of the  *)
(* same event, which run before it, are part of the step.                   *)

\* wifi_default.c takes the interface up and down.
DefaultHandlers(event) ==
  /\ netif' = IF event = "STA_CONNECTED" THEN "up"
              ELSE IF event \in Reason THEN "down" ELSE netif
  /\ late' = IF event = "GOT_IP" THEN netif # "bound"
             ELSE late /\ event \notin Reason

\* The SDK's callback.
Notify(event) == told' = event

\* STA_START: connect; the status only follows if the driver accepts.
StaStart ==
  /\ \/ /\ wifi_sta_conn_status' = "WSS_CONNECTING"
        /\ link' = IF link = "started" THEN "connecting" ELSE link
     \/ UNCHANGED <<wifi_sta_conn_status, link>>
  /\ UNCHANGED <<wifi_sta_ip_addrs, s_wifi_sta_conne_evt_state, told>>

StaConnected ==
  /\ wifi_sta_conn_status' = "WSS_CONN_SUCCESS"
  /\ UNCHANGED <<wifi_sta_ip_addrs, s_wifi_sta_conne_evt_state, told, link>>

\* The status of each reason.
ReasonStatus(reason) ==
  IF reason = "NO_AP_FOUND" THEN "WSS_NO_AP_FOUND"
  ELSE IF reason = "HANDSHAKE_TIMEOUT" THEN "WSS_PASSWD_WRONG"
  ELSE "WSS_CONN_FAIL"

\* Mutant: only the end of an attempt is reported.
StaDisconnectedQuiet(reason) ==
  /\ wifi_sta_conn_status' = ReasonStatus(reason)
  /\ wifi_sta_ip_addrs' = FALSE
  /\ \/ /\ s_wifi_sta_conne_evt_state = "WFE_CONNECTED"
        /\ s_wifi_sta_conne_evt_state' = "WFE_DISCONNECTED"
        /\ UNCHANGED told
     \/ /\ s_wifi_sta_conne_evt_state # "WFE_CONNECTED"
        /\ s_wifi_sta_conne_evt_state' = "WFE_CONNECT_FAILED"
        /\ Notify("WFE_CONNECT_FAILED")
  /\ UNCHANGED link

\* The end of a connection and of an attempt are different events.
StaDisconnected(reason) ==
  LET event == IF s_wifi_sta_conne_evt_state = "WFE_CONNECTED"
               THEN "WFE_DISCONNECTED" ELSE "WFE_CONNECT_FAILED"
  IN  /\ wifi_sta_conn_status' = ReasonStatus(reason)
      /\ wifi_sta_ip_addrs' = FALSE
      /\ Notify(event)
      /\ s_wifi_sta_conne_evt_state' = event
      /\ UNCHANGED link

\* A scan without results, or whose results have been fetched, ends the
\* connection as far as the status goes; the event state stays.
ScanDone ==
  \/ /\ wifi_sta_conn_status' = "WSS_NO_AP_FOUND"
     /\ wifi_sta_ip_addrs' = FALSE
     /\ IF s_wifi_sta_conne_evt_state # "WFE_CONNECT_FAILED"
        THEN Notify("WFE_CONNECT_FAILED") ELSE UNCHANGED told
     /\ UNCHANGED <<s_wifi_sta_conne_evt_state, link>>
  \/ UNCHANGED <<adapterVars, link>>

\* Mutant: the address is dropped, the status is not.
LinkTroubleStatus ==
  /\ s_wifi_sta_conne_evt_state # "WFE_DISCONNECTED"
  /\ Notify("WFE_DISCONNECTED")
  /\ s_wifi_sta_conne_evt_state' = "WFE_DISCONNECTED"
  /\ wifi_sta_ip_addrs' = FALSE
  /\ UNCHANGED <<wifi_sta_conn_status, link>>

\* AUTHMODE_CHANGE and BEACON_TIMEOUT: a disconnection, if it is news.
LinkTrouble ==
  \/ /\ s_wifi_sta_conne_evt_state # "WFE_DISCONNECTED"
     /\ Notify("WFE_DISCONNECTED")
     /\ s_wifi_sta_conne_evt_state' = "WFE_DISCONNECTED"
     /\ wifi_sta_conn_status' = "WSS_CONN_FAIL"
     /\ wifi_sta_ip_addrs' = FALSE
     /\ UNCHANGED link
  \/ /\ s_wifi_sta_conne_evt_state = "WFE_DISCONNECTED"
     /\ UNCHANGED <<adapterVars, link>>

GotIp ==
  /\ wifi_sta_ip_addrs' = TRUE
  /\ wifi_sta_conn_status' = "WSS_GOT_IP"
  /\ Notify("WFE_CONNECTED")
  /\ s_wifi_sta_conne_evt_state' = "WFE_CONNECTED"
  /\ UNCHANGED link

tkl_wifi_event_handler ==
  /\ tkl_event_cb /\ events # <<>>
  /\ events' = Tail(events)
  /\ DefaultHandlers(Head(events))
  /\ LET event == Head(events)
     IN  \/ event = "STA_START" /\ StaStart
         \/ event = "STA_CONNECTED" /\ StaConnected
         \/ event \in Reason /\ StaDisconnected(event)
         \/ event = "SCAN_DONE" /\ ScanDone
         \/ event \in {"AUTHMODE_CHANGE", "BEACON_TIMEOUT"} /\ LinkTrouble
         \/ event = "GOT_IP" /\ GotIp
  /\ applied' = NoMode
  /\ UNCHANGED <<g_wifi_work_mode, tkl_event_cb, esp_mode, started>>
-----------------------------------------------------------------------------
Next ==
  \/ tkl_wifi_init
  \/ \E mode \in WorkMode : tkl_wifi_set_work_mode(mode)
  \/ \E mode \in {"STA", "AP"} : tkl_wifi_set_mac(mode)
  \/ tkl_wifi_station_connect \/ tkl_wifi_station_disconnect
  \/ tkl_wifi_start_ap
  \/ tkl_wifi_event_handler
  \/ Driver \/ esp_netif_dhcpc_cb \/ Reconnect

Spec == Init /\ [][Next]_vars

\* The event loop's task runs; nothing is assumed of the SDK and the driver.
FairSpec == Spec /\ WF_vars(tkl_wifi_event_handler)
-----------------------------------------------------------------------------
(* Properties. *)

\* Every variable keeps its type, the event loop its capacity.
TypeOK ==
  /\ wifi_sta_conn_status \in StaStatus /\ wifi_sta_ip_addrs \in BOOLEAN
  /\ s_wifi_sta_conne_evt_state \in WifiEvent \cup {NoEvent}
  /\ told \in WifiEvent \cup {NoEvent}
  /\ g_wifi_work_mode \in WorkMode \cup {NoMode} /\ tkl_event_cb \in BOOLEAN
  /\ link \in {"off", "started", "connecting", "assoc"}
  /\ esp_mode \in {"NULL", "STA", "AP", "APSTA"} /\ started \in BOOLEAN
  /\ events \in Seq(DriverEvent) /\ Len(events) <= EventCap
  /\ netif \in {"down", "up", "bound"} /\ late \in BOOLEAN
  /\ applied \in WorkMode \cup {NoMode}

\* tkl_wifi_get_ip() answers with the stored address when the status is "got
\* ip": then there is one, whatever scans and beacons did to either.
AddressWithStatus == wifi_sta_conn_status = "WSS_GOT_IP" => wifi_sta_ip_addrs

\* The station is associated and the interface has an address.
Standing == link = "assoc" /\ netif = "bound"

\* However late the handler sees the events and whatever the SDK did meanwhile:
\* once it has seen them all, neither the SDK nor the status takes a lost
\* connection for one that stands.  There is one way to it: an address that the
\* DHCP client posted behind the loss.
NoFalseConnected ==
  events = <<>> /\ ~Standing /\ ~late =>
    /\ told # "WFE_CONNECTED"
    /\ s_wifi_sta_conne_evt_state # "WFE_CONNECTED"
    /\ wifi_sta_conn_status # "WSS_GOT_IP"

\* A connection that was reported and is lost is reported lost, unless its
\* address came late.
LossReported ==
  told = "WFE_CONNECTED" /\ ~late /\ ~Standing ~> told # "WFE_CONNECTED"

\* A successful tkl_wifi_set_work_mode() has set the driver's mode ("set wifi
\* work mode", tkl_wifi.h:289); the sniffer mode is left to the sniffer.
WorkModeApplied ==
  applied \notin {NoMode, "WWM_SNIFFER"} => esp_mode = EspMode[applied]
=============================================================================
