---------------------------- MODULE TklWifiProof ----------------------------
(***************************************************************************)
(* Proofs about TklWifi, for event loops of any capacity.                  *)
(***************************************************************************)
EXTENDS TklWifi, TLAPS

\* The end of a connection is among the events ...
HasLoss(q) == \E j \in 1 .. Len(q) : q[j] \in Reason

\* ... follows every connection in it ...
Covered(q) ==
  \A i \in 1 .. Len(q) : q[i] = "STA_CONNECTED" =>
    \E j \in 1 .. Len(q) : j > i /\ q[j] \in Reason

\* ... precedes every connection in it ...
Preceded(q) ==
  \A i \in 1 .. Len(q) : q[i] = "STA_CONNECTED" =>
    \E j \in 1 .. Len(q) : j < i /\ q[j] \in Reason

\* ... lies between any two of them.
Separated(q) ==
  \A i, k \in 1 .. Len(q) :
    q[i] = "STA_CONNECTED" /\ q[k] = "STA_CONNECTED" /\ i < k =>
      \E j \in 1 .. Len(q) : i < j /\ j < k /\ q[j] \in Reason

\* The station is off unless the driver runs in a mode that has one.
StationInv == link # "off" => HasStation(esp_mode) /\ started

\* An adapter that believes in a connection has a bound interface, or a late
\* address; an interface that is up with the link gone will see the loss, and
\* sees it before the next connection.
LossInv ==
  /\ wifi_sta_conn_status = "WSS_GOT_IP"
       => s_wifi_sta_conne_evt_state = "WFE_CONNECTED"
  /\ told = "WFE_CONNECTED" => s_wifi_sta_conne_evt_state = "WFE_CONNECTED"
  /\ s_wifi_sta_conne_evt_state = "WFE_CONNECTED" => late \/ netif = "bound"
  /\ link # "assoc" => Covered(events)
  /\ link # "assoc" /\ netif # "down" => HasLoss(events)
  /\ netif # "down" => Preceded(events)
  /\ Separated(events)

\* Nothing has happened before tkl_wifi_init().
FreshInv == ~tkl_event_cb => wifi_sta_conn_status = "WSS_IDLE"

WifiInv == TypeOK /\ AddressWithStatus /\ FreshInv /\ StationInv /\ LossInv
-----------------------------------------------------------------------------
\* An event other than a connection leaves what is before it.
LEMMA AppendKeeps ==
  ASSUME NEW q \in Seq(DriverEvent), NEW e \in DriverEvent, e # "STA_CONNECTED"
  PROVE  /\ HasLoss(q) => HasLoss(Append(q, e))
         /\ Covered(q) => Covered(Append(q, e))
         /\ Preceded(q) => Preceded(Append(q, e))
         /\ Separated(q) => Separated(Append(q, e))
<1>1. /\ Len(Append(q, e)) = Len(q) + 1 /\ Len(q) \in Nat
      /\ \A i \in 1 .. Len(q) : Append(q, e)[i] = q[i]
      /\ Append(q, e)[Len(q) + 1] = e
  OBVIOUS
<1>2. HasLoss(q) => HasLoss(Append(q, e))
  BY <1>1 DEF HasLoss
<1>3. Covered(q) => Covered(Append(q, e))
  BY <1>1 DEF Covered
<1>4. Preceded(q) => Preceded(Append(q, e))
  BY <1>1 DEF Preceded
<1>5. Separated(q) => Separated(Append(q, e))
  BY <1>1 DEF Separated
<1> QED
  BY <1>2, <1>3, <1>4, <1>5

\* The end of a connection covers all connections before it.
LEMMA AppendLoss ==
  ASSUME NEW q \in Seq(DriverEvent), NEW e \in Reason
  PROVE  HasLoss(Append(q, e)) /\ Covered(Append(q, e))
<1>1. /\ Len(Append(q, e)) = Len(q) + 1 /\ Len(q) \in Nat
      /\ Append(q, e)[Len(q) + 1] = e
  BY DEF DriverEvent
<1>2. e # "STA_CONNECTED"
  BY DEF Reason
<1> QED
  BY <1>1, <1>2 DEF HasLoss, Covered

\* A connection comes behind the end of the one before it.
LEMMA AppendConnected ==
  ASSUME NEW q \in Seq(DriverEvent), NEW e \in DriverEvent, Covered(q)
  PROVE  /\ HasLoss(q) /\ Preceded(q) => Preceded(Append(q, e))
         /\ Separated(q) => Separated(Append(q, e))
<1>1. /\ Len(Append(q, e)) = Len(q) + 1 /\ Len(q) \in Nat
      /\ \A i \in 1 .. Len(q) : Append(q, e)[i] = q[i]
  OBVIOUS
<1>2. HasLoss(q) /\ Preceded(q) => Preceded(Append(q, e))
  BY <1>1 DEF HasLoss, Preceded
<1>3. Separated(q) => Separated(Append(q, e))
  BY <1>1 DEF Separated, Covered
<1> QED
  BY <1>2, <1>3

\* Handling the first event.
LEMMA TailKeeps ==
  ASSUME NEW q \in Seq(DriverEvent), q # <<>>
  PROVE  /\ Tail(q) \in Seq(DriverEvent) /\ Head(q) \in DriverEvent
         /\ Len(Tail(q)) = Len(q) - 1
         /\ HasLoss(q) /\ Head(q) \notin Reason => HasLoss(Tail(q))
         /\ Covered(q) => Covered(Tail(q))
         /\ Covered(q) /\ Head(q) = "STA_CONNECTED" => HasLoss(Tail(q))
         /\ Preceded(q) => Head(q) # "STA_CONNECTED"
         /\ Preceded(q) /\ Head(q) \notin Reason => Preceded(Tail(q))
         /\ Separated(q) => Separated(Tail(q))
         /\ Separated(q) /\ Head(q) = "STA_CONNECTED" => Preceded(Tail(q))
<1> DEFINE t == Tail(q)
<1>1. /\ Len(t) = Len(q) - 1 /\ Len(q) \in Nat /\ Len(q) > 0
      /\ \A i \in 1 .. Len(q) - 1 : t[i] = q[i + 1]
      /\ Head(q) = q[1]
      /\ t \in Seq(DriverEvent) /\ Head(q) \in DriverEvent
  OBVIOUS
\* A loss behind the first event moves one place up.
<1>2. ASSUME NEW j \in 1 .. Len(q), j # 1, q[j] \in Reason
      PROVE  j - 1 \in 1 .. Len(t) /\ t[j - 1] \in Reason
  BY <1>1, <1>2
<1>3. HasLoss(q) /\ Head(q) \notin Reason => HasLoss(t)
  <2> SUFFICES ASSUME HasLoss(q), Head(q) \notin Reason PROVE HasLoss(t)
    OBVIOUS
  <2>1. PICK j \in 1 .. Len(q) : q[j] \in Reason
    BY DEF HasLoss
  <2>2. j # 1
    BY <1>1, <2>1
  <2> QED
    BY <1>2, <2>1, <2>2 DEF HasLoss
<1>4. Covered(q) => Covered(t)
  <2> SUFFICES ASSUME Covered(q), NEW i \in 1 .. Len(t), t[i] = "STA_CONNECTED"
               PROVE  \E j \in 1 .. Len(t) : j > i /\ t[j] \in Reason
    BY DEF Covered
  <2>1. PICK j \in 1 .. Len(q) : j > i + 1 /\ q[j] \in Reason
    BY <1>1 DEF Covered
  <2>2. j # 1 /\ j - 1 > i
    BY <2>1
  <2> QED
    BY <1>2, <2>1, <2>2
<1>5. Covered(q) /\ Head(q) = "STA_CONNECTED" => HasLoss(t)
  <2> SUFFICES ASSUME Covered(q), Head(q) = "STA_CONNECTED" PROVE HasLoss(t)
    OBVIOUS
  <2>1. PICK j \in 1 .. Len(q) : j > 1 /\ q[j] \in Reason
    BY <1>1 DEF Covered
  <2>2. j # 1
    BY <2>1
  <2> QED
    BY <1>2, <2>1, <2>2 DEF HasLoss
<1>6. Preceded(q) => Head(q) # "STA_CONNECTED"
  BY <1>1 DEF Preceded
<1>7. Preceded(q) /\ Head(q) \notin Reason => Preceded(t)
  <2> SUFFICES ASSUME Preceded(q), Head(q) \notin Reason,
                      NEW i \in 1 .. Len(t), t[i] = "STA_CONNECTED"
               PROVE  \E j \in 1 .. Len(t) : j < i /\ t[j] \in Reason
    BY DEF Preceded
  <2>1. PICK j \in 1 .. Len(q) : j < i + 1 /\ q[j] \in Reason
    BY <1>1 DEF Preceded
  <2>2. j # 1 /\ j - 1 < i
    BY <1>1, <2>1
  <2> QED
    BY <1>2, <2>1, <2>2
<1>8. Separated(q) => Separated(t)
  <2> SUFFICES ASSUME Separated(q), NEW i \in 1 .. Len(t), NEW k \in 1 .. Len(t),
                      t[i] = "STA_CONNECTED", t[k] = "STA_CONNECTED", i < k
               PROVE  \E j \in 1 .. Len(t) : i < j /\ j < k /\ t[j] \in Reason
    BY DEF Separated
  <2>1. PICK j \in 1 .. Len(q) : i + 1 < j /\ j < k + 1 /\ q[j] \in Reason
    BY <1>1 DEF Separated
  <2>2. j # 1 /\ i < j - 1 /\ j - 1 < k
    BY <2>1
  <2> QED
    BY <1>2, <2>1, <2>2
<1>9. Separated(q) /\ Head(q) = "STA_CONNECTED" => Preceded(t)
  <2> SUFFICES ASSUME Separated(q), Head(q) = "STA_CONNECTED",
                      NEW i \in 1 .. Len(t), t[i] = "STA_CONNECTED"
               PROVE  \E j \in 1 .. Len(t) : j < i /\ t[j] \in Reason
    BY DEF Preceded
  <2>1. PICK j \in 1 .. Len(q) : 1 < j /\ j < i + 1 /\ q[j] \in Reason
    BY <1>1 DEF Separated
  <2>2. j # 1 /\ j - 1 < i
    BY <2>1
  <2> QED
    BY <1>2, <2>1, <2>2
<1> QED
  BY <1>1, <1>3, <1>4, <1>5, <1>6, <1>7, <1>8, <1>9

\* The types of the driver's variables.
DriverType ==
  /\ link \in {"off", "started", "connecting", "assoc"}
  /\ esp_mode \in {"NULL", "STA", "AP", "APSTA"} /\ started \in BOOLEAN
  /\ events \in Seq(DriverEvent) /\ Len(events) <= EventCap

\* What LossInv says of the events, of a link that is not up.
QueueInv(q) ==
  /\ q \in Seq(DriverEvent)
  /\ Covered(q) /\ Separated(q)
  /\ netif # "down" => HasLoss(q) /\ Preceded(q)

\* Losing the link puts the end of the connection, if there was one, behind
\* everything else.
LEMMA DownKeeps ==
  ASSUME TypeOK, LossInv
  PROVE  QueueInv(events \o DownEvents)
<1>1. /\ events \in Seq(DriverEvent) /\ "other" \in Reason
      /\ "other" \in DriverEvent /\ "other" # "STA_CONNECTED"
  BY DEF TypeOK, Reason, DriverEvent
<1>2. CASE link = "assoc"
  <2>1. events \o DownEvents = Append(events, "other")
    BY <1>1, <1>2 DEF DownEvents
  <2>2. Append(events, "other") \in Seq(DriverEvent)
    BY <1>1
  <2>3. /\ HasLoss(Append(events, "other")) /\ Covered(Append(events, "other"))
        /\ Preceded(events) => Preceded(Append(events, "other"))
        /\ Separated(events) => Separated(Append(events, "other"))
    BY <1>1, AppendLoss, AppendKeeps
  <2> QED
    BY <2>1, <2>2, <2>3 DEF LossInv, QueueInv
<1>3. CASE link # "assoc"
  <2>1. events \o DownEvents = events
    BY <1>1, <1>3 DEF DownEvents
  <2> QED
    BY <1>1, <1>3, <2>1 DEF LossInv, QueueInv
<1> QED
  BY <1>2, <1>3

\* A station that starts puts its event behind everything else.
LEMMA StartKeeps ==
  ASSUME NEW q, QueueInv(q)
  PROVE  QueueInv(q \o <<"STA_START">>)
<1>1. /\ "STA_START" \in DriverEvent /\ "STA_START" # "STA_CONNECTED"
      /\ q \in Seq(DriverEvent)
  BY DEF DriverEvent, QueueInv
<1>2. q \o <<"STA_START">> = Append(q, "STA_START")
  BY <1>1
<1>3. Append(q, "STA_START") \in Seq(DriverEvent)
  BY <1>1
<1>4. /\ HasLoss(q) => HasLoss(Append(q, "STA_START"))
      /\ Covered(q) => Covered(Append(q, "STA_START"))
      /\ Preceded(q) => Preceded(Append(q, "STA_START"))
      /\ Separated(q) => Separated(Append(q, "STA_START"))
  BY <1>1, AppendKeeps
<1> QED
  BY <1>2, <1>3, <1>4 DEF QueueInv

\* Every change of the driver's mode or activity preserves the invariant.
LEMMA DriveKeeps ==
  ASSUME TypeOK, StationInv, LossInv,
         NEW mode \in {"NULL", "STA", "AP", "APSTA"}, NEW on \in BOOLEAN,
         Drive(mode, on), UNCHANGED <<adapterVars, netifVars>>
  PROVE  DriverType' /\ StationInv' /\ LossInv'
<1> DEFINE up == HasStation(esp_mode) /\ started
           goesUp == HasStation(mode) /\ on
<1> USE DEF adapterVars, netifVars
<1>0. events \in Seq(DriverEvent) /\ events \o <<>> = events
      /\ esp_mode' = mode /\ started' = on /\ Len(events') <= EventCap
  BY DEF TypeOK, Drive
<1>1. CASE up /\ goesUp
  <2>1. link' = link /\ events' = events
    BY <1>0, <1>1 DEF Drive
  <2> QED
    BY <1>0, <1>1, <2>1 DEF LossInv, StationInv, DriverType, TypeOK
<1>2. CASE up /\ ~goesUp
  <2>1. link' = "off" /\ events' = events \o DownEvents
    BY <1>2 DEF Drive
  <2> QED
    BY <1>0, <2>1, DownKeeps DEF QueueInv, LossInv, StationInv, DriverType, TypeOK
<1>3. CASE ~up /\ goesUp
  <2>1. link = "off" /\ link' = "started" /\ events' = events \o <<"STA_START">>
    BY <1>3 DEF Drive, StationInv
  <2>2. QueueInv(events)
    BY <1>0, <2>1 DEF QueueInv, LossInv
  <2> QED
    BY <1>0, <1>3, <2>1, <2>2, StartKeeps
       DEF QueueInv, LossInv, StationInv, DriverType, TypeOK
<1>4. CASE ~up /\ ~goesUp
  <2>1. link = "off" /\ link' = "off" /\ events' = events
    BY <1>0, <1>4 DEF Drive, StationInv
  <2> QED
    BY <1>0, <2>1 DEF LossInv, StationInv, DriverType, TypeOK
<1> QED
  BY <1>1, <1>2, <1>3, <1>4

\* The types of what the handler changes.
HandledType ==
  /\ wifi_sta_conn_status \in StaStatus /\ wifi_sta_ip_addrs \in BOOLEAN
  /\ s_wifi_sta_conne_evt_state \in WifiEvent \cup {NoEvent}
  /\ told \in WifiEvent \cup {NoEvent}

\* Handling an event preserves the invariant.
LEMMA HandlerKeeps ==
  ASSUME WifiInv, tkl_wifi_event_handler
  PROVE  WifiInv'
<1> DEFINE event == Head(events)
<1> USE DEF WifiInv
<1>1. events \in Seq(DriverEvent) /\ events # <<>> /\ events' = Tail(events)
  BY DEF tkl_wifi_event_handler, TypeOK
<1>2. /\ events' \in Seq(DriverEvent) /\ event \in DriverEvent
      /\ Len(events') = Len(events) - 1
      /\ HasLoss(events) /\ event \notin Reason => HasLoss(events')
      /\ Covered(events) => Covered(events')
      /\ Covered(events) /\ event = "STA_CONNECTED" => HasLoss(events')
      /\ Preceded(events) => event # "STA_CONNECTED"
      /\ Preceded(events) /\ event \notin Reason => Preceded(events')
      /\ Separated(events) => Separated(events')
      /\ Separated(events) /\ event = "STA_CONNECTED" => Preceded(events')
  BY <1>1, TailKeeps
<1>3. Len(events') <= EventCap /\ UNCHANGED <<g_wifi_work_mode, tkl_event_cb,
                                             esp_mode, started>>
      /\ applied' = NoMode
  BY <1>1, <1>2, EventAssumption DEF tkl_wifi_event_handler, TypeOK
<1>4. HandledType' /\ link' \in {"off", "started", "connecting", "assoc"}
  BY DEF tkl_wifi_event_handler, StaStart, StaConnected, StaDisconnected,
         ReasonStatus, ScanDone, LinkTrouble, GotIp, Notify, HandledType,
         adapterVars, TypeOK, StaStatus, WifiEvent, NoEvent
<1>10. netif' \in {"down", "up", "bound"} /\ late' \in BOOLEAN
  BY DEF tkl_wifi_event_handler, DefaultHandlers, TypeOK
<1>5. TypeOK'
  BY <1>2, <1>3, <1>4, <1>10 DEF TypeOK, HandledType
<1>6. AddressWithStatus'
  BY DEF tkl_wifi_event_handler, StaStart, StaConnected, StaDisconnected,
         ReasonStatus, ScanDone, LinkTrouble, GotIp, Notify, adapterVars,
         AddressWithStatus
<1>7. StationInv'
  BY <1>3 DEF tkl_wifi_event_handler, StaStart, StaConnected, StaDisconnected,
         ScanDone, LinkTrouble, GotIp, StationInv
<1>8. LossInv'
  <2> USE <1>2 DEF LossInv
  <2>0. /\ netif' = IF event = "STA_CONNECTED" THEN "up"
                    ELSE IF event \in Reason THEN "down" ELSE netif
        /\ event = "GOT_IP" => late' = (netif # "bound")
        /\ event \notin Reason \cup {"GOT_IP"} => (late => late')
    BY DEF tkl_wifi_event_handler, DefaultHandlers, TypeOK
  <2>1. CASE event = "STA_START" /\ StaStart
    BY <2>0, <2>1 DEF StaStart, Reason, TypeOK
  <2>2. CASE event = "STA_CONNECTED" /\ StaConnected
    BY <2>0, <2>2 DEF StaConnected, Reason, TypeOK
  <2>3. CASE event \in Reason /\ StaDisconnected(event)
    BY <2>0, <2>3 DEF StaDisconnected, ReasonStatus, Notify, Reason
  <2>4. CASE event = "SCAN_DONE" /\ ScanDone
    BY <2>0, <2>4 DEF ScanDone, Notify, adapterVars, Reason, TypeOK
  <2>5. CASE event \in {"AUTHMODE_CHANGE", "BEACON_TIMEOUT"} /\ LinkTrouble
    BY <2>0, <2>5 DEF LinkTrouble, Notify, adapterVars, Reason, TypeOK
  <2>6. CASE event = "GOT_IP" /\ GotIp
    BY <2>0, <2>6 DEF GotIp, Notify, Reason, TypeOK
  <2> QED
    BY <2>1, <2>2, <2>3, <2>4, <2>5, <2>6 DEF tkl_wifi_event_handler
<1>9. FreshInv'
  BY <1>3 DEF tkl_wifi_event_handler, FreshInv
<1> QED
  BY <1>5, <1>6, <1>7, <1>8, <1>9

\* What the driver does by itself preserves the invariant.
LEMMA DriverKeeps ==
  ASSUME WifiInv, Driver
  PROVE  WifiInv'
<1> USE DEF WifiInv
<1>1. PICK e \in DriverEvent :
         /\ events' = Append(events, e) /\ Len(events) < EventCap
         /\ link' # "assoc" => /\ e # "STA_CONNECTED"
                               /\ e \in Reason \/ link' = link
         /\ e = "STA_CONNECTED" => link # "assoc"
  BY DEF Driver, Post, DriverEvent, Reason
<1>2. events \in Seq(DriverEvent) /\ Len(events) \in Nat
  BY DEF TypeOK
<1>3. events' \in Seq(DriverEvent) /\ Len(events') <= EventCap
  BY <1>1, <1>2, EventAssumption
<1>4. link' # "assoc" => Covered(events') /\ (netif # "down" => HasLoss(events'))
  BY <1>1, <1>2, AppendKeeps, AppendLoss DEF LossInv
<1>5. Separated(events') /\ (netif # "down" => Preceded(events'))
  BY <1>1, <1>2, AppendKeeps, AppendConnected DEF LossInv
<1>6. /\ UNCHANGED <<adapterVars, g_wifi_work_mode, tkl_event_cb, esp_mode,
                     started, netif, late>>
      /\ applied' = NoMode /\ link # "off"
      /\ link' \in {"started", "connecting", "assoc"}
  BY DEF Driver, TypeOK, netifVars
<1>7. TypeOK'
  BY <1>3, <1>6 DEF TypeOK, adapterVars
<1> QED
  BY <1>4, <1>5, <1>6, <1>7 DEF LossInv, StationInv, AddressWithStatus,
                               FreshInv, adapterVars

\* So does an address, whose event comes behind all others or is lost.
LEMMA AddressKeeps ==
  ASSUME WifiInv, esp_netif_dhcpc_cb
  PROVE  WifiInv'
<1> USE DEF WifiInv
<1>1. /\ events \in Seq(DriverEvent) /\ Len(events) \in Nat
      /\ "GOT_IP" \in DriverEvent /\ "GOT_IP" # "STA_CONNECTED"
  BY DEF TypeOK, DriverEvent
<1>2. /\ events' \in Seq(DriverEvent) /\ Len(events') <= EventCap
      /\ HasLoss(events) => HasLoss(events')
      /\ Covered(events) => Covered(events')
      /\ Preceded(events) => Preceded(events')
      /\ Separated(events) => Separated(events')
  <2>1. CASE events' = events
    BY <2>1 DEF TypeOK
  <2>2. CASE Len(events) < EventCap /\ events' = Append(events, "GOT_IP")
    BY <1>1, <2>2, AppendKeeps, EventAssumption
  <2> QED
    BY <2>1, <2>2 DEF esp_netif_dhcpc_cb
<1>3. /\ UNCHANGED <<adapterVars, g_wifi_work_mode, tkl_event_cb, link, esp_mode,
                     started, late>>
      /\ applied' = NoMode /\ netif # "down" /\ netif' = "bound"
  BY DEF esp_netif_dhcpc_cb
<1>4. TypeOK'
  BY <1>2, <1>3 DEF TypeOK, adapterVars
<1>5. LossInv'
  BY <1>2, <1>3 DEF LossInv, adapterVars
<1> QED
  BY <1>3, <1>4, <1>5 DEF StationInv, AddressWithStatus, FreshInv, adapterVars

\* An operation that drives the driver and leaves the handler's state alone.
LEMMA OperationKeeps ==
  ASSUME WifiInv, DriverType', StationInv', LossInv',
         UNCHANGED <<adapterVars, netifVars, tkl_event_cb>>,
         g_wifi_work_mode' \in WorkMode \cup {NoMode},
         applied' \in WorkMode \cup {NoMode}
  PROVE  WifiInv'
BY DEF WifiInv, DriverType, TypeOK, AddressWithStatus, FreshInv, adapterVars,
       netifVars

\* Every step preserves the invariant.
LEMMA WifiStep == WifiInv /\ [Next]_vars => WifiInv'
<1> SUFFICES ASSUME WifiInv, [Next]_vars PROVE WifiInv'
  OBVIOUS
<1>0. TypeOK /\ StationInv /\ LossInv /\ AddressWithStatus /\ FreshInv
  BY DEF WifiInv
<1>1. CASE tkl_wifi_init
  <2> USE <1>0, <1>1 DEF tkl_wifi_init, driverVars, netifVars
  <2>1. wifi_sta_ip_addrs' \in BOOLEAN /\ tkl_event_cb' \in BOOLEAN
    OBVIOUS
  <2>2. TypeOK'
    BY <2>1 DEF TypeOK
  <2>3. StationInv' /\ LossInv'
    BY DEF StationInv, LossInv
  <2>4. AddressWithStatus' /\ FreshInv'
    BY DEF AddressWithStatus, FreshInv
  <2> QED
    BY <2>2, <2>3, <2>4 DEF WifiInv
<1>2. ASSUME NEW mode \in WorkMode, tkl_wifi_set_work_mode(mode) PROVE WifiInv'
  <2>1. EspMode[mode] \in {"NULL", "STA", "AP", "APSTA"} /\ started \in BOOLEAN
    BY <1>0 DEF TypeOK, EspMode, WorkMode
  <2>2. DriverType' /\ StationInv' /\ LossInv'
    <3>1. CASE UNCHANGED driverVars
      BY <1>0, <1>2, <3>1
         DEF tkl_wifi_set_work_mode, driverVars, adapterVars, netifVars, DriverType,
             TypeOK, StationInv, LossInv
    <3>2. CASE Drive(EspMode[mode], started)
      BY <1>0, <1>2, <2>1, <3>2, DriveKeeps DEF tkl_wifi_set_work_mode
    <3> QED
      BY <1>2, <3>1, <3>2 DEF tkl_wifi_set_work_mode
  <2> QED
    BY <1>0, <1>2, <2>2, OperationKeeps DEF tkl_wifi_set_work_mode, TypeOK
<1>3. ASSUME NEW mode \in {"STA", "AP"}, tkl_wifi_set_mac(mode) PROVE WifiInv'
  <2>1. DriverType' /\ StationInv' /\ LossInv'
    BY <1>0, <1>3, DriveKeeps DEF tkl_wifi_set_mac, TypeOK
  <2> QED
    BY <1>0, <1>3, <2>1, OperationKeeps DEF tkl_wifi_set_mac, TypeOK
<1>4. CASE tkl_wifi_station_connect
  <2> USE DEF tkl_wifi_station_connect
  <2>1. DriverType' /\ StationInv' /\ LossInv'
    <3>1. CASE Drive(esp_mode, FALSE)
      BY <1>0, <1>4, <3>1, DriveKeeps DEF TypeOK
    <3>2. CASE Drive("STA", FALSE)
      BY <1>0, <1>4, <3>2, DriveKeeps
    <3>3. CASE /\ esp_mode' = "STA" /\ started' = TRUE
               /\ link' = "started"
               /\ events' = events \o DownEvents \o <<"STA_START">>
               /\ Len(events') <= EventCap
      <4>1. QueueInv(events')
        BY <1>0, <3>3, DownKeeps, StartKeeps
      <4> QED
        BY <1>0, <1>4, <3>3, <4>1 DEF DriverType, StationInv, HasStation, LossInv,
                                      QueueInv, adapterVars, netifVars
    <3> QED
      BY <1>4, <3>1, <3>2, <3>3
  <2> QED
    BY <1>0, <1>4, <2>1, OperationKeeps DEF TypeOK
<1>5. CASE tkl_wifi_station_disconnect
  <2>1. DriverType' /\ StationInv' /\ LossInv'
    BY <1>0, <1>5, DriveKeeps DEF tkl_wifi_station_disconnect, TypeOK
  <2> QED
    BY <1>0, <1>5, <2>1, OperationKeeps DEF tkl_wifi_station_disconnect, TypeOK
<1>6. CASE tkl_wifi_start_ap
  <2>1. DriverType' /\ StationInv' /\ LossInv'
    BY <1>0, <1>6, DriveKeeps DEF tkl_wifi_start_ap, TypeOK
  <2> QED
    BY <1>0, <1>6, <2>1, OperationKeeps DEF tkl_wifi_start_ap, TypeOK
<1>7. CASE tkl_wifi_event_handler
  BY <1>7, HandlerKeeps
<1>8. CASE Driver
  BY <1>8, DriverKeeps
<1>9. CASE Reconnect
  BY <1>0, <1>9 DEF Reconnect, adapterVars, netifVars, WifiInv, TypeOK, StationInv,
                    LossInv, AddressWithStatus, FreshInv
<1>10. CASE UNCHANGED vars
  BY <1>0, <1>10 DEF vars, adapterVars, driverVars, netifVars, WifiInv, TypeOK,
                     StationInv, LossInv, AddressWithStatus, FreshInv
<1>11. CASE esp_netif_dhcpc_cb
  BY <1>11, AddressKeeps
<1> QED
  BY <1>1, <1>2, <1>3, <1>4, <1>5, <1>6, <1>7, <1>8, <1>9, <1>10, <1>11 DEF Next

\* The initial state.
LEMMA WifiInit == Init => WifiInv
<1> SUFFICES ASSUME Init PROVE WifiInv
  OBVIOUS
<1>1. events = <<>> /\ Len(events) = 0 /\ events \in Seq(DriverEvent)
  BY DEF Init
<1>2. TypeOK
  <2>1. Len(events) <= EventCap
    BY <1>1, EventAssumption
  <2>2. /\ wifi_sta_conn_status \in StaStatus /\ wifi_sta_ip_addrs \in BOOLEAN
        /\ s_wifi_sta_conne_evt_state \in WifiEvent \cup {NoEvent}
        /\ told \in WifiEvent \cup {NoEvent} /\ tkl_event_cb \in BOOLEAN
        /\ started \in BOOLEAN /\ late \in BOOLEAN
    BY DEF Init, StaStatus
  <2> QED
    BY <1>1, <2>1, <2>2 DEF Init, TypeOK
<1>3. LossInv
  BY <1>1 DEF Init, LossInv, Covered, Separated, NoEvent
<1>4. StationInv /\ AddressWithStatus /\ FreshInv
  BY DEF Init, StationInv, AddressWithStatus, FreshInv
<1> QED
  BY <1>2, <1>3, <1>4 DEF WifiInv

\* For an event loop of any capacity: a stored address goes with the status "got
\* ip", and when all events are handled neither the SDK nor the status of the
\* adapter takes a lost connection for one that stands, unless its address was
\* posted behind the loss.
THEOREM StatusHonest == Spec => [](AddressWithStatus /\ NoFalseConnected)
<1>1. WifiInv => AddressWithStatus /\ NoFalseConnected
  BY DEF WifiInv, LossInv, HasLoss, Standing, NoFalseConnected
<1> QED
  BY <1>1, WifiInit, WifiStep, PTL DEF Spec

\* Type correctness of the adapter's state.
THEOREM WifiTypeCorrect == Spec => []TypeOK
<1>1. WifiInv => TypeOK
  BY DEF WifiInv
<1> QED
  BY <1>1, WifiInit, WifiStep, PTL DEF Spec
=============================================================================
