------------------------ MODULE WakeStation_proofs -------------------------
(***************************************************************************)
(* Proofs about WakeStation, for every set of networks, passwords and      *)
(* ports.  The inductive invariant is built in layers, each proved with    *)
(* the help of the ones before it: the types, the control state, the       *)
(* servers, the settings.                                                  *)
(***************************************************************************)
EXTENDS WakeStation, TLAPS

(* MaxPort is kept folded below: a literal interval would be enumerated.   *)
LEMMA MaxPortBound == MaxPort \in Nat /\ MaxPort > 2443
BY DEF MaxPort

(* The port that beginConfiguredServer settles on is never one of the two  *)
(* it must avoid, and settling twice changes nothing.                      *)
LEMMA UsablePort ==
    ASSUME NEW p \in AllPorts
    PROVE  /\ Usable(p) \in AllPorts
           /\ Acceptable(Usable(p))
           /\ Usable(Usable(p)) = Usable(p)
BY SMT, MaxPortBound
   DEF Usable, Acceptable, Reserved, AllPorts, DEFAULT_CONFIG_PORT

(* For every port a user may choose, the HTTPS port derived from it is a   *)
(* real port, is not the HTTP port and is not the port of the Alexa        *)
(* bridge: this is what refusing 79 and 80 and the special case for 65535  *)
(* are for.                                                                *)
THEOREM HttpsPortApart ==
    ASSUME NEW p \in Nat, Acceptable(p)
    PROVE  /\ HttpsPortFor(p) \in 1 .. MaxPort
           /\ HttpsPortFor(p) # p
           /\ HttpsPortFor(p) # AlexaPort
BY SMT, MaxPortBound DEF HttpsPortFor, Acceptable, Reserved, AlexaPort

-----------------------------------------------------------------------------
(* Types *)

\* The settings of an unconfigured board are settings.
LEMMA DefaultTypes ==
    /\ DefaultCfg \in Settings
    /\ NoAssoc \in Joins
    /\ NoSave \in Saves
    /\ EmptyNvs \in Flash
    /\ NotListening \in AllPorts
<1>1. /\ NoSsid \in Ssids
      /\ Open \in AllKeys
      /\ NotListening \in AllPorts
      /\ DEFAULT_CONFIG_PORT \in AllPorts
      /\ 0 \in AllPorts
      /\ 0 \in 0 .. 3
  BY SMT, MaxPortBound
     DEF Ssids, AllKeys, AllPorts, NotListening, DEFAULT_CONFIG_PORT
<1> QED
  BY <1>1, SMT DEF DefaultCfg, NoAssoc, NoSave, EmptyNvs, Settings, Joins,
                   Saves, Flash

\* A restart leaves RAM well typed.
LEMMA RebootTypes ==
    ASSUME TypeOK, Reboot, nvs' \in Flash
    PROVE  TypeOK'
BY DefaultTypes DEF TypeOK, Reboot

\* A board that is switched on is well typed.
LEMMA TypeInit == Init => TypeOK
<1>1. ASSUME NEW n \in [ssid: Networks, password: AllKeys, port: StoredPorts,
                        auto: BOOLEAN, forceAp: {FALSE}, facReset: {FALSE}]
      PROVE  n \in Flash
  <2>1. Networks \subseteq Ssids /\ StoredPorts \subseteq AllPorts
    BY PortAssumption DEF Ssids, AllPorts
  <2> QED
    BY <2>1 DEF Flash
<1> QED
  BY <1>1, DefaultTypes DEF TypeOK, Init

(* What the helpers of the handlers put into the variables.                *)
LEMMA FlashTypes ==
    ASSUME nvs \in Flash
    PROVE  /\ \A b \in BOOLEAN : [nvs EXCEPT !.forceAp = b] \in Flash
           /\ \A c \in Settings : Stored(c) \in Flash
           /\ [EmptyNvs EXCEPT !.facReset = TRUE] \in Flash
           /\ Loaded \in Settings
<1>1. \A b \in BOOLEAN : [nvs EXCEPT !.forceAp = b] \in Flash
  BY DEF Flash
<1>2. \A c \in Settings : Stored(c) \in Flash
  BY DEF Flash, Settings, Stored
<1>3. [EmptyNvs EXCEPT !.facReset = TRUE] \in Flash
  BY DefaultTypes DEF Flash
<1>4. Loaded \in Settings
  <2>1. DEFAULT_CONFIG_PORT \in AllPorts
    BY MaxPortBound, SMT DEF AllPorts, DEFAULT_CONFIG_PORT
  <2> QED
    BY <2>1, DefaultTypes DEF Loaded, Flash, Settings
<1> QED
  BY <1>1, <1>2, <1>3, <1>4

\* A usable port and its HTTPS port fit into 16 bits.
LEMMA PortTypes ==
    ASSUME NEW p \in AllPorts
    PROVE  HttpsPortFor(Usable(p)) \in AllPorts
BY UsablePort, HttpsPortApart, MaxPortBound, SMT DEF AllPorts, Acceptable

\* Making two servers leaves two ports, and each server running or not.
LEMMA ServerTypes ==
    ASSUME NEW p \in AllPorts, NEW q \in AllPorts, NEW b \in BOOLEAN,
           BeginServerOnPorts(p, q, b)
    PROVE  /\ httpPort' \in AllPorts /\ httpsPort' \in AllPorts
           /\ httpUp' \in BOOLEAN /\ httpsUp' \in BOOLEAN
BY DefaultTypes DEF BeginServerOnPorts, StartOutcomes

\* beginConfiguredServer keeps settings and ports well typed.
LEMMA ConfiguredTypes ==
    ASSUME NEW c \in Settings, BeginConfiguredServer(c)
    PROVE  /\ cfg' \in Settings
           /\ httpPort' \in AllPorts /\ httpsPort' \in AllPorts
           /\ httpUp' \in BOOLEAN /\ httpsUp' \in BOOLEAN
           /\ alexa' \in BOOLEAN /\ dnsActive' \in BOOLEAN
<1>1. c.port \in AllPorts
  BY DEF Settings
<1>2. Usable(c.port) \in AllPorts /\ HttpsPortFor(Usable(c.port)) \in AllPorts
  BY <1>1, UsablePort, PortTypes
<1>3. [c EXCEPT !.port = Usable(c.port)] \in Settings
  BY <1>2 DEF Settings
<1> QED
  BY <1>2, <1>3, ServerTypes DEF BeginConfiguredServer

\* The setup portal's ports are ports.
LEMMA PortalTypes ==
    ASSUME TypeOK, OpenPortal
    PROVE  /\ wifiMode' \in {"OFF", "STA", "AP", "AP_STA"}
           /\ assoc' \in Joins /\ linkUp' \in BOOLEAN
           /\ httpPort' \in AllPorts /\ httpsPort' \in AllPorts
           /\ httpUp' \in BOOLEAN /\ httpsUp' \in BOOLEAN
           /\ dnsActive' \in BOOLEAN
<1>1. SetupPort \in AllPorts /\ 443 \in AllPorts
  BY MaxPortBound, SMT DEF SetupPort, AllPorts
<1> QED
  BY <1>1, ServerTypes, DefaultTypes DEF OpenPortal

\* Starting to connect keeps the radio well typed.
LEMMA ConnectTypes ==
    ASSUME NEW c \in Settings, NEW from, BeginConnect(c, from)
    PROVE  wifiMode' = "STA" /\ assoc' \in Joins
BY DEF BeginConnect, Settings, Joins

\* startAccessPoint keeps every type, whether it restarts or not.
LEMMA AccessPointTypes ==
    ASSUME TypeOK, NEW next \in {"serve", "station", "apRetry"},
           NEW act \in {"NONE", "START_STA", "START_AP"}, NEW due \in BOOLEAN,
           StartAccessPoint(next, act, due)
    PROVE  TypeOK'
<1>1. CASE Reboot /\ nvs' = [nvs EXCEPT !.forceAp = TRUE]
  BY <1>1, FlashTypes, RebootTypes DEF TypeOK
<1>2. CASE ~Port80Held
  BY <1>2, PortalTypes DEF StartAccessPoint, TypeOK, outside
<1> QED
  BY <1>1, <1>2 DEF StartAccessPoint

\* The end of a save keeps every type.
LEMMA FinishSaveTypes ==
    ASSUME TypeOK, NEW c \in Settings, NEW b \in BOOLEAN, NEW a, NEW p,
           FinishSave(c, b, a, p),
           UNCHANGED <<radio, servers, retryDue, apRetryDue, forced, outside>>
    PROVE  TypeOK'
<1>1. nvs' \in Flash /\ cfg' \in Settings /\ save' \in Saves
  BY FlashTypes, DefaultTypes DEF FinishSave, TypeOK
<1>2. /\ pending' \in {"NONE", "START_STA", "START_AP"}
      /\ pendingDue' \in BOOLEAN
      /\ pc' = "serve" /\ caller' = "none"
  BY DEF FinishSave, TypeOK
<1> QED
  BY <1>1, <1>2 DEF TypeOK, radio, servers, outside

\* Every step keeps the types.
LEMMA TypeStep == TypeOK /\ [Next]_vars => TypeOK'
<1> SUFFICES ASSUME TypeOK, [Next]_vars PROVE TypeOK'
  OBVIOUS
<1> USE DEF radio, servers, timers, outside
<1>1. CASE Setup
  <2>1. nvs' \in Flash
    BY <1>1, FlashTypes, DefaultTypes DEF Setup, TypeOK, Flash
  <2>2. cfg' \in Settings /\ forced' \in BOOLEAN
    BY <1>1, FlashTypes DEF Setup, TypeOK, Flash
  <2> QED
    BY <1>1, <2>1, <2>2 DEF Setup, TypeOK
<1>2. CASE LeaveServe
  BY <1>2 DEF LeaveServe, TypeOK
<1>3. CASE ConnectSeen
  BY <1>3 DEF ConnectSeen, TypeOK
<1>4. CASE ConnectedStation
  BY <1>4 DEF ConnectedStation, TypeOK
<1>5. CASE PendingNothing
  BY <1>5 DEF PendingNothing, TypeOK
<1>6. CASE StationFine
  BY <1>6 DEF StationFine, TypeOK
<1>7. CASE StationNoRetry
  BY <1>7 DEF StationNoRetry, TypeOK
<1>8. CASE StationBack
  BY <1>8 DEF StationBack, TypeOK
<1>9. CASE ApRetryNothing
  BY <1>9 DEF ApRetryNothing, TypeOK
<1>10. CASE ApRetrySkipped
  BY <1>10 DEF ApRetrySkipped, ApRetryReady, TypeOK
<1>11. CASE HandleScan
  BY <1>11 DEF HandleScan, TypeOK
<1>12. CASE LinkComesUp
  BY <1>12 DEF LinkComesUp, TypeOK
<1>13. CASE LinkDrops
  <2>1. linkUp' \in BOOLEAN
    BY <1>13 DEF LinkDrops
  <2>2. UNCHANGED <<nvs, cfg, wifiMode, assoc, servers, pending, timers, pc,
                    caller, save, forced, outside>>
    BY <1>13 DEF LinkDrops
  <2> QED
    BY <2>1, <2>2 DEF TypeOK
<1>14. CASE ApClientChanges
  BY <1>14 DEF ApClientChanges, TypeOK
<1>15. CASE PendingElapses
  BY <1>15 DEF PendingElapses, TypeOK
<1>16. CASE RetryElapses
  BY <1>16 DEF RetryElapses, TypeOK
<1>17. CASE ApRetryElapses
  BY <1>17 DEF ApRetryElapses, TypeOK
<1>18. CASE ConnectedServe
  BY <1>18, ConfiguredTypes DEF ConnectedServe, TypeOK
<1>19. CASE PendingStation
  BY <1>19, ConfiguredTypes DEF PendingStation, TypeOK
<1>20. CASE ConnectedSave
  BY <1>20, FinishSaveTypes DEF ConnectedSave, TypeOK
<1>21. CASE FailedSave
  <2>1. [cfg EXCEPT !.password = save.password] \in Settings
    BY DEF TypeOK, Settings, Saves
  <2> QED
    BY <1>21, <2>1, FinishSaveTypes DEF FailedSave
<1>22. CASE FailedFallback
  BY <1>22, AccessPointTypes DEF FailedFallback, TypeOK
<1>23. CASE PendingAccessPoint
  BY <1>23, AccessPointTypes DEF PendingAccessPoint
<1>24. CASE StationGivesUp
  BY <1>24, AccessPointTypes DEF StationGivesUp, TypeOK
<1>25. CASE FailedStation
  BY <1>25 DEF FailedStation, TypeOK
<1>26. CASE FailedSaveRetry
  <2>1. cfg' \in Settings
    BY <1>26, DefaultTypes DEF FailedSaveRetry, TypeOK, Settings, Saves, AllKeys
  <2>2. wifiMode' = "STA" /\ assoc' \in Joins
    BY <1>26, <2>1, ConnectTypes DEF FailedSaveRetry
  <2>3. save' \in Saves
    BY <1>26, SMT DEF FailedSaveRetry, TypeOK, Saves
  <2> QED
    BY <1>26, <2>1, <2>2, <2>3 DEF FailedSaveRetry, BeginConnect, TypeOK
<1>27. CASE StationRetry
  BY <1>27, ConnectTypes DEF StationRetry, BeginConnect, TypeOK
<1>28. CASE ApRetryConnect
  BY <1>28, ConnectTypes DEF ApRetryConnect, BeginConnect, TypeOK
<1>29. CASE \E form \in Forms : HandleSaveConfig(form)
  <2> PICK form \in Forms : HandleSaveConfig(form)
    BY <1>29
  <2> DEFINE preserve == form.password = Open /\ cfg.password # Open
             first    == IF preserve THEN cfg.password ELSE form.password
             config   == [ssid |-> form.ssid, password |-> first,
                          port |-> form.port, auto |-> form.auto]
  <2>1. form.port \in AllPorts /\ Acceptable(form.port)
    BY SMT, PortAssumption, MaxPortBound
       DEF HandleSaveConfig, Acceptable, AllPorts, Forms
  <2>2. config \in Settings
    BY <2>1 DEF TypeOK, Settings, Forms, Ssids
  <2>3. [config EXCEPT !.password = cfg.password] \in Settings
    BY <2>2 DEF TypeOK, Settings
  <2>4. CASE FinishSave([config EXCEPT !.password = cfg.password],
                        TRUE, FALSE, cfg.port)
             /\ UNCHANGED <<radio, servers, retryDue, apRetryDue, forced,
                            outside>>
    BY <2>3, <2>4, FinishSaveTypes
  <2>5. CASE /\ cfg' = config
             /\ save' = [port |-> cfg.port, password |-> first,
                         left |-> IF preserve THEN 3 ELSE 0]
             /\ BeginConnect(config, "save")
             /\ UNCHANGED <<nvs, pending, pendingDue, servers, retryDue,
                            apRetryDue, routerUp, forced>>
    <3>1. save' \in Saves
      BY <2>2, <2>5 DEF TypeOK, Settings, Saves
    <3>2. wifiMode' = "STA" /\ assoc' \in Joins
      BY <2>2, <2>5, ConnectTypes
    <3> QED
      BY <2>2, <2>5, <3>1, <3>2 DEF BeginConnect, TypeOK
  <2> QED
    BY <2>4, <2>5 DEF HandleSaveConfig
<1>30. CASE FactoryReset
  BY <1>30, FlashTypes, RebootTypes DEF FactoryReset, TypeOK
<1>31. CASE PowerCycle
  BY <1>31, RebootTypes DEF PowerCycle, TypeOK
<1>32. CASE \E m \in Networks : RouterChanges(m)
  BY <1>32 DEF RouterChanges, TypeOK
<1>33. CASE UNCHANGED vars
  BY <1>33 DEF vars, TypeOK
<1>34. CASE SetupNetwork
  <2>1. CASE OpenPortal /\ pc' = "serve" /\ UNCHANGED <<caller, apClient>>
    BY <1>34, <2>1, PortalTypes DEF SetupNetwork, TypeOK
  <2>2. CASE BeginConnect(cfg, "setup")
               /\ UNCHANGED <<httpPort, httpsPort, httpUp, httpsUp, dnsActive>>
    <3>1. wifiMode' = "STA" /\ assoc' \in Joins
      BY <2>2, ConnectTypes DEF TypeOK
    <3> QED
      BY <1>34, <2>2, <3>1 DEF SetupNetwork, BeginConnect, TypeOK
  <2> QED
    BY <1>34, <2>1, <2>2 DEF SetupNetwork
<1> QED
  BY <1>1, <1>2, <1>3, <1>4, <1>5, <1>6, <1>7, <1>8, <1>9, <1>10, <1>11, <1>12, <1>13, <1>14, <1>15, <1>16, <1>17, <1>18, <1>19, <1>20, <1>21, <1>22, <1>23, <1>24, <1>25, <1>26, <1>27, <1>28, <1>29, <1>30, <1>31, <1>32, <1>33, <1>34
     DEF Next, MainTask, User, Environment

(* Every variable keeps its type whatever is stored, typed in or received; *)
(* in particular a port never leaves the 16 bits the firmware gives it     *)
(* (configPort - 1 and configPort + 1 in beginConfiguredServer).           *)
THEOREM TypeCorrect == Spec => []TypeOK
BY TypeInit, TypeStep, PTL DEF Spec

-----------------------------------------------------------------------------
(* The servers *)

\* The portal is one server, on port 80.
LEMMA PortalServes ==
    ASSUME OpenPortal
    PROVE  /\ httpPort' = SetupPort /\ httpsPort' = NotListening
           /\ dnsActive'
BY DEF OpenPortal, BeginServerOnPorts

\* beginConfiguredServer serves the usable port with HTTPS beside it.
LEMMA ConfiguredServes ==
    ASSUME TypeOK, BeginConfiguredServer(cfg)
    PROVE  /\ cfg' = [cfg EXCEPT !.port = Usable(cfg.port)]
           /\ httpPort' = Usable(cfg.port)
           /\ httpPort' = cfg'.port
           /\ httpsPort' = HttpsPortFor(httpPort')
           /\ httpsPort' \notin {NotListening, AlexaPort, httpPort'}
           /\ Acceptable(httpPort') /\ httpPort' # SetupPort
           /\ httpPort' # NotListening
           /\ alexa' /\ ~dnsActive'
<1> DEFINE port == Usable(cfg.port)
<1>1. cfg.port \in AllPorts
  BY DEF TypeOK, Settings
<1>2. Acceptable(port) /\ port \in Nat
  BY <1>1, UsablePort DEF AllPorts
<1>3. port # AlexaPort /\ port # NotListening
  BY <1>2, SMT DEF Acceptable, Reserved, AlexaPort, NotListening
<1>4. HttpsPortFor(port) \notin {NotListening, AlexaPort, port}
  BY <1>2, HttpsPortApart, MaxPortBound, SMT DEF NotListening
<1>5. httpPort' = port /\ httpsPort' = HttpsPortFor(port)
  BY DEF BeginConfiguredServer, BeginServerOnPorts
<1>6. cfg' = [cfg EXCEPT !.port = port] /\ alexa' /\ ~dnsActive'
  BY DEF BeginConfiguredServer
<1>7. cfg'.port = port
  BY <1>6 DEF TypeOK, Settings
<1> QED
  BY <1>2, <1>3, <1>4, <1>5, <1>6, <1>7 DEF AlexaPort, SetupPort

\* After a restart nothing listens.
LEMMA RebootSilences ==
    ASSUME Reboot
    PROVE  /\ Silent' /\ pc' = "setup" /\ caller' = "none" /\ ~Running'
           /\ ~forced' /\ wifiMode' = "OFF"
BY DEF Reboot, Silent, Running

\* startAccessPoint restarts the board or opens the portal.
LEMMA AccessPointServes ==
    ASSUME TypeOK, NEW next \in {"serve", "station", "apRetry"}, NEW act, NEW due,
           StartAccessPoint(next, act, due)
    PROVE  \/ Reboot
           \/ /\ httpPort' = SetupPort /\ httpsPort' = NotListening
              /\ dnsActive' /\ ~alexa'
              /\ wifiMode' = "AP" /\ pc' = next /\ caller' = "none"
              /\ UNCHANGED <<nvs, cfg, forced>>
<1>1. CASE Port80Held
  BY <1>1 DEF StartAccessPoint
<1>2. CASE ~Port80Held
  BY <1>2, PortalServes DEF StartAccessPoint, OpenPortal, Port80Held
<1> QED
  BY <1>1, <1>2

(* The two ways of handleSaveConfig: it answers at once or it connects.     *)
LEMMA SaveCases ==
    ASSUME TypeOK, NEW form \in Forms, HandleSaveConfig(form)
    PROVE  /\ pc = "serve" /\ form.port \in AllPorts /\ Acceptable(form.port)
           /\ UNCHANGED <<servers, retryDue, apRetryDue, routerUp, forced>>
           /\ \/ /\ UNCHANGED <<radio, apClient>>
                 /\ linkUp
                 /\ \E c \in Settings :
                       /\ c.ssid = form.ssid /\ c.port = form.port
                       /\ c.ssid = cfg.ssid /\ c.password = cfg.password
                       /\ FinishSave(c, TRUE, FALSE, cfg.port)
              \/ /\ cfg' \in Settings
                 /\ cfg'.ssid = form.ssid
                 /\ save'.password = cfg'.password
                 /\ BeginConnect(cfg', "save")
                 /\ UNCHANGED <<nvs, pending, pendingDue>>
<1> DEFINE preserve == form.password = Open /\ cfg.password # Open
           first    == IF preserve THEN cfg.password ELSE form.password
           config   == [ssid |-> form.ssid, password |-> first,
                        port |-> form.port, auto |-> form.auto]
           kept     == [config EXCEPT !.password = cfg.password]
<1>1. pc = "serve" /\ Acceptable(form.port)
      /\ UNCHANGED <<servers, retryDue, apRetryDue, routerUp, forced>>
  BY DEF HandleSaveConfig
<1>2. form.port \in AllPorts
  BY <1>1, SMT, PortAssumption, MaxPortBound DEF Acceptable, AllPorts, Forms
<1>3. config \in Settings /\ config.ssid = form.ssid
  BY <1>2 DEF TypeOK, Settings, Forms, Ssids
<1>4. kept \in Settings /\ kept.ssid = form.ssid /\ kept.port = form.port
      /\ kept.password = cfg.password
  BY <1>3 DEF TypeOK, Settings
<1>5. CASE /\ ~(form.ssid # cfg.ssid \/ form.password # Open) /\ linkUp
           /\ FinishSave(kept, TRUE, FALSE, cfg.port)
           /\ UNCHANGED <<radio, apClient>>
  BY <1>1, <1>2, <1>4, <1>5
<1>6. CASE /\ cfg' = config
           /\ save' = [port |-> cfg.port, password |-> first,
                       left |-> IF preserve THEN 3 ELSE 0]
           /\ BeginConnect(config, "save")
           /\ UNCHANGED <<nvs, pending, pendingDue>>
  BY <1>1, <1>2, <1>3, <1>6
<1> QED
  BY <1>5, <1>6 DEF HandleSaveConfig

\* Who waits for a connection, and in which mode, stays consistent.
LEMMA ControlStep == TypeOK /\ Control /\ [Next]_vars => Control'
<1> SUFFICES ASSUME TypeOK, Control, [Next]_vars PROVE Control'
  OBVIOUS
<1> USE DEF radio, servers, timers, outside
<1>1. CASE Setup
  <2>1. ~nvs'.forceAp /\ ~nvs'.facReset
    BY <1>1 DEF Setup, TypeOK, Flash, EmptyNvs
  <2> QED
    BY <1>1, <2>1 DEF Setup, Control
<1>2. CASE LeaveServe
  BY <1>2 DEF LeaveServe, Control
<1>3. CASE ConnectSeen
  BY <1>3 DEF ConnectSeen, Control
<1>4. CASE ConnectedServe
  BY <1>4, ConfiguredServes DEF ConnectedServe, Control, TypeOK, Settings
<1>5. CASE ConnectedSave
  <2>1. ~nvs'.forceAp /\ ~nvs'.facReset
    BY <1>5 DEF ConnectedSave, FinishSave, Stored, Control, TypeOK, Flash
  <2> QED
    BY <1>5, <2>1 DEF ConnectedSave, FinishSave, Control
<1>6. CASE ConnectedStation
  BY <1>6 DEF ConnectedStation, Control
<1>7. CASE FailedFallback
  BY <1>7, AccessPointServes, RebootSilences DEF FailedFallback, TimedOut, Control
<1>8. CASE FailedSaveRetry
  <2>1. cfg'.ssid = cfg.ssid
    BY <1>8 DEF FailedSaveRetry, TypeOK, Settings
  <2> QED
    BY <1>8, <2>1 DEF FailedSaveRetry, TimedOut, BeginConnect, Control
<1>9. CASE FailedSave
  <2>1. ~nvs'.forceAp /\ ~nvs'.facReset
    BY <1>9 DEF FailedSave, TimedOut, FinishSave, Stored, Control, TypeOK, Flash
  <2> QED
    BY <1>9, <2>1 DEF FailedSave, FinishSave, Control
<1>10. CASE FailedStation
  BY <1>10 DEF FailedStation, TimedOut, Control
<1>11. CASE PendingNothing
  BY <1>11 DEF PendingNothing, Control
<1>12. CASE PendingStation
  BY <1>12, ConfiguredServes DEF PendingStation, PendingReady, Control, TypeOK, Settings
<1>13. CASE PendingAccessPoint
  BY <1>13, AccessPointServes, RebootSilences DEF PendingAccessPoint, PendingReady, Control
<1>14. CASE StationFine
  BY <1>14 DEF StationFine, Control
<1>15. CASE StationRetry
  BY <1>15 DEF StationRetry, StationLost, BeginConnect, Control
<1>16. CASE StationNoRetry
  BY <1>16 DEF StationNoRetry, Control
<1>17. CASE StationBack
  BY <1>17 DEF StationBack, Control
<1>18. CASE StationGivesUp
  BY <1>18, AccessPointServes, RebootSilences DEF StationGivesUp, Control
<1>19. CASE ApRetryNothing
  BY <1>19 DEF ApRetryNothing, Control
<1>20. CASE ApRetrySkipped
  BY <1>20 DEF ApRetrySkipped, ApRetryReady, Control
<1>21. CASE ApRetryConnect
  BY <1>21 DEF ApRetryConnect, ApRetryReady, BeginConnect, Control
<1>22. CASE \E form \in Forms : HandleSaveConfig(form)
  <2> PICK form \in Forms : HandleSaveConfig(form)
    BY <1>22
  <2>1. CASE \E c \in Settings : FinishSave(c, TRUE, FALSE, cfg.port)
    <3>1. ~nvs'.forceAp /\ ~nvs'.facReset
      BY <2>1, SaveCases DEF FinishSave, Stored, Control, TypeOK, Flash
    <3> QED
      BY <2>1, <3>1, SaveCases DEF FinishSave, Control
  <2>2. CASE /\ cfg'.ssid = form.ssid
             /\ BeginConnect(cfg', "save")
             /\ UNCHANGED <<nvs, pending, pendingDue>>
    BY <2>2, SaveCases, NetworkAssumption DEF Forms, BeginConnect, Control
  <2> QED
    BY <2>1, <2>2, SaveCases
<1>23. CASE HandleScan
  BY <1>23 DEF HandleScan, Control
<1>24. CASE FactoryReset
  BY <1>24, RebootSilences DEF FactoryReset, Control
<1>25. CASE LinkComesUp
  BY <1>25 DEF LinkComesUp, Control
<1>26. CASE LinkDrops
  BY <1>26 DEF LinkDrops, Control
<1>27. CASE \E m \in Networks : RouterChanges(m)
  BY <1>27 DEF RouterChanges, Control
<1>28. CASE ApClientChanges
  BY <1>28 DEF ApClientChanges, Control
<1>29. CASE PendingElapses
  BY <1>29 DEF PendingElapses, Control
<1>30. CASE RetryElapses
  BY <1>30 DEF RetryElapses, Control
<1>31. CASE ApRetryElapses
  BY <1>31 DEF ApRetryElapses, Control
<1>32. CASE PowerCycle
  BY <1>32, RebootSilences DEF PowerCycle, Control
<1>33. CASE UNCHANGED vars
  BY <1>33 DEF vars, Control
<1>34. CASE SetupNetwork
  BY <1>34 DEF SetupNetwork, OpenPortal, BeginConnect, Control
<1> QED
  BY <1>1, <1>2, <1>3, <1>4, <1>5, <1>6, <1>7, <1>8, <1>9, <1>10, <1>11, <1>12, <1>13, <1>14, <1>15, <1>16, <1>17, <1>18, <1>19, <1>20, <1>21, <1>22, <1>23, <1>24, <1>25, <1>26, <1>27, <1>28, <1>29, <1>30, <1>31, <1>32, <1>33, <1>34
     DEF Next, MainTask, User, Environment


\* Requests are served only once setup() is over.
LEMMA RunningLater == Control /\ pc = "serve" => Running
BY DEF Control, Running

\* Every step keeps the listening servers consistent.
LEMMA ServersStep == TypeOK /\ Control /\ ServersKept /\ [Next]_vars => ServersKept'
<1> SUFFICES ASSUME TypeOK, Control, ServersKept, [Next]_vars PROVE ServersKept'
  OBVIOUS
<1> USE DEF radio, servers, timers, outside
<1>1. CASE Setup
  BY <1>1 DEF Setup, ServersKept, ServersConsistent, Running, Silent
<1>2. CASE LeaveServe
  BY <1>2 DEF LeaveServe, ServersKept, ServersConsistent, Running, Silent, Control
<1>3. CASE ConnectSeen
  BY <1>3 DEF ConnectSeen, ServersKept, ServersConsistent, Running, Silent, Control
<1>4. CASE ConnectedServe
  BY <1>4, ConfiguredServes
     DEF ConnectedServe, ServersKept, ServersConsistent, Running, Control
<1>5. CASE ConnectedSave
  BY <1>5 DEF ConnectedSave, FinishSave, ServersKept, ServersConsistent, Running, Silent, Control
<1>6. CASE ConnectedStation
  BY <1>6 DEF ConnectedStation, ServersKept, ServersConsistent, Running, Silent, Control
<1>7. CASE FailedFallback
  BY <1>7, AccessPointServes, RebootSilences
     DEF FailedFallback, TimedOut, ServersKept, ServersConsistent, Running, SetupPort, NotListening
<1>8. CASE FailedSaveRetry
  BY <1>8 DEF FailedSaveRetry, TimedOut, BeginConnect, ServersKept, ServersConsistent, Running, Silent, Control
<1>9. CASE FailedSave
  BY <1>9 DEF FailedSave, TimedOut, FinishSave, ServersKept, ServersConsistent, Running, Silent, Control
<1>10. CASE FailedStation
  BY <1>10 DEF FailedStation, TimedOut, ServersKept, ServersConsistent, Running, Silent, Control
<1>11. CASE PendingNothing
  BY <1>11 DEF PendingNothing, ServersKept, ServersConsistent, Running, Silent, Control
<1>12. CASE PendingStation
  BY <1>12, ConfiguredServes
     DEF PendingStation, PendingReady, ServersKept, ServersConsistent, Running, Control
<1>13. CASE PendingAccessPoint
  <2>1. StartAccessPoint("station", "NONE", FALSE)
    BY <1>13 DEF PendingAccessPoint
  <2>2. CASE Reboot
    BY <2>2, RebootSilences DEF ServersKept, ServersConsistent
  <2>3. CASE ~Reboot
    <3>1. ~Port80Held
      BY <2>1, <2>3 DEF StartAccessPoint
    <3> QED
      BY <2>1, <2>3, <3>1, PortalServes
         DEF StartAccessPoint, Port80Held, ServersKept, ServersConsistent,
             Running, SetupPort, NotListening
  <2> QED
    BY <2>2, <2>3
<1>14. CASE StationFine
  BY <1>14 DEF StationFine, ServersKept, ServersConsistent, Running, Silent, Control
<1>15. CASE StationRetry
  BY <1>15 DEF StationRetry, StationLost, BeginConnect, ServersKept, ServersConsistent, Running, Silent, Control
<1>16. CASE StationNoRetry
  BY <1>16 DEF StationNoRetry, ServersKept, ServersConsistent, Running, Silent, Control
<1>17. CASE StationBack
  BY <1>17 DEF StationBack, ServersKept, ServersConsistent, Running, Silent, Control
<1>18. CASE StationGivesUp
  BY <1>18, AccessPointServes, RebootSilences
     DEF StationGivesUp, ServersKept, ServersConsistent, Running, SetupPort, NotListening
<1>19. CASE ApRetryNothing
  BY <1>19 DEF ApRetryNothing, ServersKept, ServersConsistent, Running, Silent, Control
<1>20. CASE ApRetrySkipped
  BY <1>20 DEF ApRetrySkipped, ApRetryReady, ServersKept, ServersConsistent, Running, Silent, Control
<1>21. CASE ApRetryConnect
  BY <1>21 DEF ApRetryConnect, ApRetryReady, BeginConnect, ServersKept, ServersConsistent, Running, Silent, Control
<1>22. CASE \E form \in Forms : HandleSaveConfig(form)
  <2> PICK form \in Forms : HandleSaveConfig(form)
    BY <1>22
  <2>1. UNCHANGED servers /\ pc = "serve" /\ pc' \notin {"setup", "start"}
        /\ caller' # "setup"
    BY SaveCases DEF FinishSave, BeginConnect
  <2> QED
    BY <2>1, RunningLater DEF ServersKept, ServersConsistent, Running, Control
<1>23. CASE HandleScan
  BY <1>23 DEF HandleScan, ServersKept, ServersConsistent, Running, Silent, Control
<1>24. CASE FactoryReset
  BY <1>24, RebootSilences DEF FactoryReset, ServersKept, ServersConsistent
<1>25. CASE LinkComesUp
  BY <1>25 DEF LinkComesUp, ServersKept, ServersConsistent, Running, Silent, Control
<1>26. CASE LinkDrops
  BY <1>26 DEF LinkDrops, ServersKept, ServersConsistent, Running, Silent, Control
<1>27. CASE \E m \in Networks : RouterChanges(m)
  BY <1>27 DEF RouterChanges, ServersKept, ServersConsistent, Running, Silent, Control
<1>28. CASE ApClientChanges
  BY <1>28 DEF ApClientChanges, ServersKept, ServersConsistent, Running, Silent, Control
<1>29. CASE PendingElapses
  BY <1>29 DEF PendingElapses, ServersKept, ServersConsistent, Running, Silent, Control
<1>30. CASE RetryElapses
  BY <1>30 DEF RetryElapses, ServersKept, ServersConsistent, Running, Silent, Control
<1>31. CASE ApRetryElapses
  BY <1>31 DEF ApRetryElapses, ServersKept, ServersConsistent, Running, Silent, Control
<1>32. CASE PowerCycle
  BY <1>32, RebootSilences DEF PowerCycle, ServersKept, ServersConsistent
<1>33. CASE UNCHANGED vars
  BY <1>33 DEF vars, ServersKept, ServersConsistent, Running, Silent, Control
<1>34. CASE SetupNetwork
  <2>1. ~alexa /\ UNCHANGED alexa /\ Silent
    BY <1>34 DEF SetupNetwork, ServersKept, Running, Silent
  <2>2. CASE PortalWanted
    BY <1>34, <2>1, <2>2, PortalServes
       DEF SetupNetwork, Control, ServersKept, ServersConsistent, Running,
           SetupPort, NotListening
  <2>3. CASE ~PortalWanted
    BY <1>34, <2>1, <2>3
       DEF SetupNetwork, BeginConnect, ServersKept, ServersConsistent,
           Running, Silent
  <2> QED
    BY <2>2, <2>3
<1> QED
  BY <1>1, <1>2, <1>3, <1>4, <1>5, <1>6, <1>7, <1>8, <1>9, <1>10, <1>11, <1>12, <1>13, <1>14, <1>15, <1>16, <1>17, <1>18, <1>19, <1>20, <1>21, <1>22, <1>23, <1>24, <1>25, <1>26, <1>27, <1>28, <1>29, <1>30, <1>31, <1>32, <1>33, <1>34
     DEF Next, MainTask, User, Environment

-----------------------------------------------------------------------------
(* The port of the station *)

\* Every step keeps a station without an outstanding switch on its port.
LEMMA StationStep == TypeOK /\ Control /\ StationKept /\ [Next]_vars => StationKept'
<1> SUFFICES ASSUME TypeOK, Control, StationKept, [Next]_vars PROVE StationKept'
  OBVIOUS
<1> USE DEF radio, servers, timers, outside
<1>1. CASE Setup
  BY <1>1 DEF Setup, StationKept, Control
<1>2. CASE LeaveServe
  BY <1>2 DEF LeaveServe, StationKept, Control
<1>3. CASE ConnectSeen
  BY <1>3 DEF ConnectSeen, StationKept, Control
<1>4. CASE ConnectedServe
  BY <1>4, ConfiguredServes DEF ConnectedServe, StationKept
<1>5. CASE ConnectedSave
  BY <1>5 DEF ConnectedSave, FinishSave, RestartNeeded, StationKept, Control
<1>6. CASE ConnectedStation
  BY <1>6 DEF ConnectedStation, StationKept, Control
<1>7. CASE FailedFallback
  BY <1>7, AccessPointServes, RebootSilences DEF FailedFallback, TimedOut, StationKept
<1>8. CASE FailedSaveRetry
  BY <1>8 DEF FailedSaveRetry, TimedOut, BeginConnect, StationKept, Control
<1>9. CASE FailedSave
  BY <1>9 DEF FailedSave, TimedOut, FinishSave, RestartNeeded, StationKept, Control
<1>10. CASE FailedStation
  BY <1>10 DEF FailedStation, TimedOut, StationKept, Control
<1>11. CASE PendingNothing
  BY <1>11 DEF PendingNothing, StationKept, Control
<1>12. CASE PendingStation
  BY <1>12, ConfiguredServes DEF PendingStation, PendingReady, StationKept
<1>13. CASE PendingAccessPoint
  BY <1>13, AccessPointServes, RebootSilences DEF PendingAccessPoint, PendingReady, StationKept
<1>14. CASE StationFine
  BY <1>14 DEF StationFine, StationKept, Control
<1>15. CASE StationRetry
  BY <1>15 DEF StationRetry, StationLost, BeginConnect, StationKept, Control
<1>16. CASE StationNoRetry
  BY <1>16 DEF StationNoRetry, StationKept, Control
<1>17. CASE StationBack
  BY <1>17 DEF StationBack, StationKept, Control
<1>18. CASE StationGivesUp
  BY <1>18, AccessPointServes, RebootSilences DEF StationGivesUp, StationKept
<1>19. CASE ApRetryNothing
  BY <1>19 DEF ApRetryNothing, StationKept, Control
<1>20. CASE ApRetrySkipped
  BY <1>20 DEF ApRetrySkipped, ApRetryReady, StationKept, Control
<1>21. CASE ApRetryConnect
  BY <1>21 DEF ApRetryConnect, ApRetryReady, BeginConnect, StationKept, Control
<1>22. CASE \E form \in Forms : HandleSaveConfig(form)
  <2> PICK form \in Forms : HandleSaveConfig(form)
    BY <1>22
  <2>1. CASE \E c \in Settings : /\ UNCHANGED <<radio, apClient>>
                                /\ FinishSave(c, TRUE, FALSE, cfg.port)
    BY <2>1, SaveCases DEF FinishSave, RestartNeeded, StationKept, Control
  <2>2. CASE BeginConnect(cfg', "save")
    BY <2>2 DEF BeginConnect, StationKept
  <2> QED
    BY <2>1, <2>2, SaveCases
<1>23. CASE HandleScan
  BY <1>23 DEF HandleScan, StationKept, Control
<1>24. CASE FactoryReset
  BY <1>24, RebootSilences DEF FactoryReset, StationKept
<1>25. CASE LinkComesUp
  BY <1>25 DEF LinkComesUp, StationKept, Control
<1>26. CASE LinkDrops
  BY <1>26 DEF LinkDrops, StationKept, Control
<1>27. CASE \E m \in Networks : RouterChanges(m)
  BY <1>27 DEF RouterChanges, StationKept, Control
<1>28. CASE ApClientChanges
  BY <1>28 DEF ApClientChanges, StationKept, Control
<1>29. CASE PendingElapses
  BY <1>29 DEF PendingElapses, StationKept, Control
<1>30. CASE RetryElapses
  BY <1>30 DEF RetryElapses, StationKept, Control
<1>31. CASE ApRetryElapses
  BY <1>31 DEF ApRetryElapses, StationKept, Control
<1>32. CASE PowerCycle
  BY <1>32, RebootSilences DEF PowerCycle, StationKept
<1>33. CASE UNCHANGED vars
  BY <1>33 DEF vars, StationKept, Control
<1>34. CASE SetupNetwork
  BY <1>34 DEF SetupNetwork, OpenPortal, BeginConnect, StationKept
<1> QED
  BY <1>1, <1>2, <1>3, <1>4, <1>5, <1>6, <1>7, <1>8, <1>9, <1>10, <1>11, <1>12, <1>13, <1>14, <1>15, <1>16, <1>17, <1>18, <1>19, <1>20, <1>21, <1>22, <1>23, <1>24, <1>25, <1>26, <1>27, <1>28, <1>29, <1>30, <1>31, <1>32, <1>33, <1>34
     DEF Next, MainTask, User, Environment

-----------------------------------------------------------------------------
(* The settings in RAM and in Preferences *)

\* The same Preferences load the same settings.
LEMMA LoadedAgain == UNCHANGED nvs => Loaded' = Loaded
BY DEF Loaded

\* saveConfig makes a restart load what RAM holds.
LEMMA SavedSettings ==
    ASSUME TypeOK, Control, pc # "setup",
           NEW c \in Settings, c.ssid # NoSsid, cfg' = c, nvs' = Stored(c)
    PROVE  SettingsKept'
<1>1. /\ nvs'.facReset = FALSE /\ nvs'.ssid = c.ssid
      /\ nvs'.password = c.password /\ nvs'.port = c.port
      /\ nvs'.auto = c.auto
  BY DEF Stored, TypeOK, Flash, Settings
<1>2. Loaded' = [ssid |-> c.ssid, password |-> c.password,
                 port |-> IF c.port = 0 THEN DEFAULT_CONFIG_PORT ELSE c.port,
                 auto |-> c.auto]
  BY <1>1 DEF Loaded
<1>3. Usable(0) = DEFAULT_CONFIG_PORT
      /\ Usable(DEFAULT_CONFIG_PORT) = DEFAULT_CONFIG_PORT
  BY MaxPortBound, SMT DEF Usable, Acceptable, Reserved, DEFAULT_CONFIG_PORT
<1> QED
  BY <1>2, <1>3 DEF SettingsKept

\* Replacing an unusable port leaves what a restart will serve.
LEMMA ConfiguredSettings ==
    ASSUME TypeOK, SettingsKept, pc # "setup", caller # "save",
           UNCHANGED nvs, BeginConfiguredServer(cfg)
    PROVE  SettingsKept'
<1>1. /\ cfg' = [cfg EXCEPT !.port = Usable(cfg.port)]
      /\ cfg.port \in AllPorts
  BY ConfiguredServes DEF TypeOK, Settings
<1>2. /\ cfg'.ssid = cfg.ssid /\ cfg'.password = cfg.password
      /\ cfg'.auto = cfg.auto /\ cfg'.port = Usable(cfg.port)
  BY <1>1 DEF TypeOK, Settings
<1> QED
  BY <1>1, <1>2, UsablePort, LoadedAgain DEF SettingsKept

\* Every step keeps RAM and Preferences together.
LEMMA SettingsStep == TypeOK /\ Control /\ SettingsKept /\ [Next]_vars => SettingsKept'
<1> SUFFICES ASSUME TypeOK, Control, SettingsKept, [Next]_vars PROVE SettingsKept'
  OBVIOUS
<1> USE DEF radio, servers, timers, outside
<1>1. CASE Setup
  <2>1. cfg' = Loaded
    BY <1>1 DEF Setup
  <2>2. CASE nvs.facReset
    <3>1. nvs' = EmptyNvs
      BY <1>1, <2>2 DEF Setup
    <3>2. Loaded' = Loaded
      BY <2>2, <3>1 DEF Loaded, EmptyNvs, DefaultCfg
    <3> QED
      BY <2>1, <3>2 DEF SettingsKept
  <2>3. CASE ~nvs.facReset
    <3>1. nvs' = [nvs EXCEPT !.forceAp = FALSE]
      BY <1>1, <2>3 DEF Setup
    <3>2. /\ nvs'.ssid = nvs.ssid /\ nvs'.password = nvs.password
          /\ nvs'.port = nvs.port /\ nvs'.auto = nvs.auto
          /\ nvs'.facReset = nvs.facReset
      BY <3>1 DEF TypeOK, Flash
    <3>3. Loaded' = Loaded
      BY <3>2 DEF Loaded
    <3> QED
      BY <2>1, <3>3 DEF SettingsKept
  <2> QED
    BY <2>2, <2>3
<1>2. CASE LeaveServe
  BY <1>2, LoadedAgain DEF LeaveServe, SettingsKept, Control
<1>3. CASE ConnectSeen
  BY <1>3, LoadedAgain DEF ConnectSeen, SettingsKept, Control
<1>4. CASE ConnectedServe
  BY <1>4, ConfiguredSettings DEF ConnectedServe, Control
<1>5. CASE ConnectedSave
  BY <1>5, SavedSettings DEF ConnectedSave, FinishSave, Control, TypeOK
<1>6. CASE ConnectedStation
  BY <1>6, LoadedAgain DEF ConnectedStation, SettingsKept, Control
<1>7. CASE FailedFallback
  BY <1>7, AccessPointServes, RebootSilences, LoadedAgain
     DEF FailedFallback, TimedOut, SettingsKept, Control
<1>8. CASE FailedSaveRetry
  BY <1>8, LoadedAgain DEF FailedSaveRetry, TimedOut, BeginConnect, SettingsKept, Control
<1>9. CASE FailedSave
  <2> DEFINE c == [cfg EXCEPT !.password = save.password]
  <2>1. c \in Settings /\ c.ssid = cfg.ssid
    BY DEF TypeOK, Settings, Saves
  <2> QED
    BY <1>9, <2>1, SavedSettings DEF FailedSave, TimedOut, FinishSave, Control
<1>10. CASE FailedStation
  BY <1>10, LoadedAgain DEF FailedStation, TimedOut, SettingsKept, Control
<1>11. CASE PendingNothing
  BY <1>11, LoadedAgain DEF PendingNothing, SettingsKept, Control
<1>12. CASE PendingStation
  BY <1>12, ConfiguredSettings DEF PendingStation, PendingReady, Control
<1>13. CASE PendingAccessPoint
  BY <1>13, AccessPointServes, RebootSilences, LoadedAgain
     DEF PendingAccessPoint, PendingReady, SettingsKept, Control
<1>14. CASE StationFine
  BY <1>14, LoadedAgain DEF StationFine, SettingsKept, Control
<1>15. CASE StationRetry
  BY <1>15, LoadedAgain DEF StationRetry, StationLost, BeginConnect, SettingsKept, Control
<1>16. CASE StationNoRetry
  BY <1>16, LoadedAgain DEF StationNoRetry, SettingsKept, Control
<1>17. CASE StationBack
  BY <1>17, LoadedAgain DEF StationBack, SettingsKept, Control
<1>18. CASE StationGivesUp
  BY <1>18, AccessPointServes, RebootSilences, LoadedAgain
     DEF StationGivesUp, SettingsKept, Control
<1>19. CASE ApRetryNothing
  BY <1>19, LoadedAgain DEF ApRetryNothing, SettingsKept, Control
<1>20. CASE ApRetrySkipped
  BY <1>20, LoadedAgain DEF ApRetrySkipped, ApRetryReady, SettingsKept, Control
<1>21. CASE ApRetryConnect
  BY <1>21, LoadedAgain DEF ApRetryConnect, ApRetryReady, BeginConnect, SettingsKept, Control
<1>22. CASE \E form \in Forms : HandleSaveConfig(form)
  <2> PICK form \in Forms : HandleSaveConfig(form)
    BY <1>22
  <2>1. CASE \E c \in Settings : /\ c.ssid = form.ssid
                                /\ FinishSave(c, TRUE, FALSE, cfg.port)
    <3>1. form.ssid # NoSsid /\ pc = "serve"
      BY SaveCases, NetworkAssumption DEF Forms
    <3> QED
      BY <2>1, <3>1, SavedSettings DEF FinishSave
  <2>2. CASE BeginConnect(cfg', "save")
    BY <2>2 DEF BeginConnect, SettingsKept
  <2> QED
    BY <2>1, <2>2, SaveCases
<1>23. CASE HandleScan
  BY <1>23, LoadedAgain DEF HandleScan, SettingsKept, Control
<1>24. CASE FactoryReset
  BY <1>24, RebootSilences DEF FactoryReset, SettingsKept
<1>25. CASE LinkComesUp
  BY <1>25, LoadedAgain DEF LinkComesUp, SettingsKept, Control
<1>26. CASE LinkDrops
  BY <1>26, LoadedAgain DEF LinkDrops, SettingsKept, Control
<1>27. CASE \E m \in Networks : RouterChanges(m)
  BY <1>27, LoadedAgain DEF RouterChanges, SettingsKept, Control
<1>28. CASE ApClientChanges
  BY <1>28, LoadedAgain DEF ApClientChanges, SettingsKept, Control
<1>29. CASE PendingElapses
  BY <1>29, LoadedAgain DEF PendingElapses, SettingsKept, Control
<1>30. CASE RetryElapses
  BY <1>30, LoadedAgain DEF RetryElapses, SettingsKept, Control
<1>31. CASE ApRetryElapses
  BY <1>31, LoadedAgain DEF ApRetryElapses, SettingsKept, Control
<1>32. CASE PowerCycle
  BY <1>32, RebootSilences DEF PowerCycle, SettingsKept
<1>33. CASE UNCHANGED vars
  BY <1>33, LoadedAgain DEF vars, SettingsKept, Control
<1>34. CASE SetupNetwork
  BY <1>34, LoadedAgain
     DEF SetupNetwork, BeginConnect, SettingsKept, Control
<1> QED
  BY <1>1, <1>2, <1>3, <1>4, <1>5, <1>6, <1>7, <1>8, <1>9, <1>10, <1>11, <1>12, <1>13, <1>14, <1>15, <1>16, <1>17, <1>18, <1>19, <1>20, <1>21, <1>22, <1>23, <1>24, <1>25, <1>26, <1>27, <1>28, <1>29, <1>30, <1>31, <1>32, <1>33, <1>34
     DEF Next, MainTask, User, Environment

-----------------------------------------------------------------------------
(* The invariants of the specification *)

\* A fresh board, or one configured before, satisfies the invariant.
LEMMA InductiveInit == Init => Inductive
<1> SUFFICES ASSUME Init PROVE Inductive
  OBVIOUS
<1>1. TypeOK
  BY TypeInit
<1>2. Control
  BY DEF Init, Control
<1>3. ServersKept
  BY DEF Init, ServersKept, ServersConsistent, Silent, Running
<1>4. StationKept /\ SettingsKept
  BY DEF Init, StationKept, SettingsKept
<1> QED
  BY <1>1, <1>2, <1>3, <1>4 DEF Inductive

\* Every step keeps the invariant.
LEMMA InductiveStep == Inductive /\ [Next]_vars => Inductive'
BY TypeStep, ControlStep, ServersStep, StationStep, SettingsStep DEF Inductive

(* Types, control state, servers and settings hold together: none of the   *)
(* supervisor's invariants is kept by every step without the others.       *)
THEOREM InductiveInvariant == Spec => []Inductive
BY InductiveInit, InductiveStep, PTL DEF Spec

(* Whatever order requests, connection attempts, pending actions, timers   *)
(* and power failures come in, loop() drives servers for ports that fit    *)
(* together: the portal and the Alexa bridge never meet on port 80, and    *)
(* the two LAN servers have ports of their own, so that no start() fails   *)
(* for the sake of another listener of this board (beginServerOnPorts,     *)
(* beginFauxmo, startAccessPoint).                                         *)
THEOREM ServersAreConsistent == Spec => []ServersConsistent
<1>1. Inductive => ServersConsistent
  BY DEF Inductive, ServersKept
<1> QED
  BY <1>1, InductiveInvariant, PTL

(* A board that is a station and has no server switch outstanding has made *)
(* its servers for the configured port, whether or not they came up        *)
(* (handleSaveConfig, loop).                                               *)
THEOREM StationIsServed == Spec => []StationServed
<1>1. Inductive => StationServed
  BY DEF Inductive, Control, StationKept, StationServed
<1> QED
  BY <1>1, InductiveInvariant, PTL

(* Outside a save that is connecting, a power failure changes nothing      *)
(* about the network, password and port in use (saveConfig, setup).        *)
THEOREM RestartIsFaithful == Spec => []RestartKeepsSettings
<1>1. Inductive => RestartKeepsSettings
  BY DEF Inductive, SettingsKept, RestartKeepsSettings, Running
<1> QED
  BY <1>1, InductiveInvariant, PTL

-----------------------------------------------------------------------------
(* The restart that frees port 80 *)

\* Until the portal is open no step drops the wish for it but a power cut that
\* comes after it was taken out of Preferences.
LEMMA ForcedStep ==
    ASSUME Inductive, [Next]_vars, PortalWished
    PROVE  \/ PortalWished' /\ ~Running'
           \/ ~PortalWished' /\ httpPort' = SetupPort /\ dnsActive'
           \/ ~nvs.forceAp /\ PowerCycle
<1>1. TypeOK /\ pc \in {"setup", "start"} /\ caller = "none"
      /\ (nvs.forceAp <=> pc = "setup")
  BY DEF Inductive, Control, PortalWished
<1>2. CASE Setup
  BY <1>1, <1>2 DEF Setup, PortalWished, Running
<1>3. CASE SetupNetwork
  <2>1. ~nvs.forceAp /\ forced
    BY <1>1, <1>3 DEF SetupNetwork, PortalWished
  <2>2. OpenPortal /\ ~PortalWished'
    BY <1>3, <2>1 DEF SetupNetwork, PortalWanted, PortalWished
  <2> QED
    BY <2>2, PortalServes
<1>4. CASE PowerCycle
  BY <1>4, RebootSilences DEF PowerCycle, PortalWished
<1>5. CASE \/ LinkComesUp \/ LinkDrops \/ ApClientChanges
           \/ \E m \in Networks : RouterChanges(m)
           \/ PendingElapses \/ RetryElapses \/ ApRetryElapses
           \/ UNCHANGED vars
  BY <1>1, <1>5 DEF LinkComesUp, LinkDrops, ApClientChanges, RouterChanges,
       PendingElapses, RetryElapses, ApRetryElapses, vars, PortalWished,
       Running
<1>6. ~(User \/ (MainTask /\ ~Setup /\ ~SetupNetwork))
  BY <1>1 DEF User, HandleSaveConfig, HandleScan, FactoryReset, MainTask,
       LeaveServe, ConnectSeen, ConnectedServe, ConnectedSave,
       ConnectedStation, FailedFallback, FailedSaveRetry, FailedSave,
       FailedStation, TimedOut, PendingNothing, PendingStation,
       PendingAccessPoint, PendingReady, StationFine, StationRetry,
       StationNoRetry, StationBack, StationGivesUp, ApRetryNothing,
       ApRetrySkipped, ApRetryConnect, ApRetryReady
<1> QED
  BY <1>2, <1>3, <1>4, <1>5, <1>6 DEF Next, Environment

(* A restart asked for to free port 80 ends in the setup portal however    *)
(* often the power fails, but for one moment: when setup() has taken the   *)
(* wish out of Preferences and has not opened the portal yet               *)
(* (force_ap_once in startAccessPoint and setup).                          *)
THEOREM ForcedPortalIsReached == Spec => ForcedPortal
<1>1. Inductive /\ [Next]_vars
        => [PortalWished =>
               \/ PortalWished' /\ ~Running'
               \/ ~PortalWished' /\ httpPort' = SetupPort /\ dnsActive'
               \/ ~nvs.forceAp /\ PowerCycle]_vars
  BY ForcedStep
<1> QED
  BY <1>1, InductiveInvariant, PTL DEF Spec, ForcedPortal

-----------------------------------------------------------------------------
(* The link *)

\* A board without a link that is no station and connects for nobody.
LEMMA UnlinkedKept ==
    ASSUME ~linkUp', wifiMode' # "STA", caller' # "save"
    PROVE  LinkKept'
BY DEF LinkKept

\* startAccessPoint, either way, takes the link down.
LEMMA AccessPointUnlinks ==
    ASSUME NEW next, NEW act, NEW due, StartAccessPoint(next, act, due)
    PROVE  LinkKept'
BY UnlinkedKept DEF StartAccessPoint, Reboot, OpenPortal

\* A connect with the credentials in RAM keeps the driver on them.
LEMMA ConnectKeepsLink ==
    ASSUME NEW c \in Settings, NEW from, BeginConnect(c, from),
           cfg'.ssid = c.ssid, cfg'.password = c.password,
           from = "save" => c.password \in {save'.password, Open}
    PROVE  LinkKept'
BY DEF BeginConnect, LinkKept

\* A step that leaves driver, settings and the saved password alone, or only
\* loses the link, keeps what is known of it.
LEMMA LinkUntouched ==
    ASSUME LinkKept, linkUp' => linkUp, UNCHANGED <<wifiMode, assoc>>,
           cfg'.ssid = cfg.ssid, cfg'.password = cfg.password,
           caller' = "save" => caller = "save" /\ save' = save
    PROVE  LinkKept'
BY DEF LinkKept

\* Every step keeps the link on the configured network.
LEMMA LinkStep == TypeOK /\ Control /\ LinkKept /\ [Next]_vars => LinkKept'
<1> SUFFICES ASSUME TypeOK, Control, LinkKept, [Next]_vars PROVE LinkKept'
  OBVIOUS
<1> USE DEF radio, servers, timers, outside
<1>1. CASE Setup
  <2>1. wifiMode # "STA" /\ caller # "save"
    BY <1>1 DEF Setup, Control
  <2> QED
    BY <1>1, <2>1 DEF Setup, LinkKept
<1>2. CASE ConnectedServe \/ PendingStation
  <2>1. cfg' = [cfg EXCEPT !.port = Usable(cfg.port)]
    BY <1>2 DEF ConnectedServe, PendingStation, BeginConfiguredServer
  <2>2. cfg'.ssid = cfg.ssid /\ cfg'.password = cfg.password
    BY <2>1 DEF TypeOK, Settings
  <2> QED
    BY <1>2, <2>2, LinkUntouched DEF ConnectedServe, PendingStation
<1>3. CASE ConnectedSave
  BY <1>3, LinkUntouched DEF ConnectedSave, FinishSave
<1>4. CASE FailedSave
  <2>1. wifiMode = "STA" /\ assoc.password \in {save.password, Open}
    BY <1>4 DEF FailedSave, Control, LinkKept
  <2>2. cfg' = [cfg EXCEPT !.password = save.password] /\ caller' = "none"
        /\ UNCHANGED radio
    BY <1>4 DEF FailedSave, FinishSave
  <2>3. cfg'.ssid = cfg.ssid /\ cfg'.password = save.password
    BY <2>2 DEF TypeOK, Settings
  <2> QED
    BY <2>1, <2>2, <2>3 DEF LinkKept
<1>5. CASE FailedSaveRetry
  <2>1. cfg' \in Settings /\ cfg'.password \in {save'.password, Open}
    BY <1>5, DefaultTypes
       DEF FailedSaveRetry, TypeOK, Settings, Saves, AllKeys
  <2> QED
    BY <1>5, <2>1, ConnectKeepsLink DEF FailedSaveRetry
<1>6. CASE FailedFallback \/ PendingAccessPoint \/ StationGivesUp
  BY <1>6, AccessPointUnlinks
     DEF FailedFallback, PendingAccessPoint, StationGivesUp
<1>7. CASE StationRetry \/ ApRetryConnect
  <2>1. \E from \in {"station", "apRetry"} : BeginConnect(cfg, from)
    BY <1>7 DEF StationRetry, ApRetryConnect
  <2> QED
    BY <1>7, <2>1, ConnectKeepsLink DEF StationRetry, ApRetryConnect, TypeOK
<1>8. CASE \E form \in Forms : HandleSaveConfig(form)
  <2> PICK form \in Forms : HandleSaveConfig(form)
    BY <1>8
  <2>1. CASE /\ UNCHANGED radio
             /\ \E c \in Settings :
                   /\ c.ssid = cfg.ssid /\ c.password = cfg.password
                   /\ FinishSave(c, TRUE, FALSE, cfg.port)
    BY <2>1, LinkUntouched DEF FinishSave
  <2>2. CASE /\ cfg' \in Settings
             /\ save'.password = cfg'.password
             /\ BeginConnect(cfg', "save")
    BY <2>2, ConnectKeepsLink
  <2> QED
    BY <2>1, <2>2, SaveCases
<1>9. CASE HandleScan
  BY <1>9 DEF HandleScan, LinkKept, Control
<1>10. CASE FactoryReset \/ PowerCycle
  BY <1>10, UnlinkedKept DEF FactoryReset, PowerCycle, Reboot
<1>11. CASE LinkComesUp
  BY <1>11 DEF LinkComesUp, LinkKept
<1>12. CASE \/ LinkDrops
            \/ \E m \in Networks : RouterChanges(m)
  BY <1>12, LinkUntouched DEF LinkDrops, RouterChanges
<1>13. CASE \/ LeaveServe \/ ConnectSeen \/ ConnectedStation \/ FailedStation
            \/ PendingNothing \/ StationFine \/ StationNoRetry \/ StationBack
            \/ ApRetryNothing \/ ApRetrySkipped
  BY <1>13, LinkUntouched
     DEF LeaveServe, ConnectSeen, ConnectedStation, FailedStation,
         PendingNothing, StationFine, StationNoRetry, StationBack,
         ApRetryNothing, ApRetrySkipped
<1>14. CASE \/ ApClientChanges \/ PendingElapses \/ RetryElapses
            \/ ApRetryElapses \/ UNCHANGED vars
  BY <1>14, LinkUntouched
     DEF ApClientChanges, PendingElapses, RetryElapses, ApRetryElapses, vars
<1>15. CASE SetupNetwork
  <2>1. CASE OpenPortal /\ UNCHANGED <<caller, apClient>>
    BY <1>15, <2>1, UnlinkedKept DEF SetupNetwork, OpenPortal, Control
  <2>2. CASE BeginConnect(cfg, "setup")
    BY <1>15, <2>2, ConnectKeepsLink DEF SetupNetwork, TypeOK
  <2> QED
    BY <1>15, <2>1, <2>2 DEF SetupNetwork
<1> QED
  BY <1>1, <1>2, <1>3, <1>4, <1>5, <1>6, <1>7, <1>8, <1>9, <1>10, <1>11, <1>12, <1>13, <1>14, <1>15
     DEF Next, MainTask, User, Environment

(* However saves, late links, retries and restarts follow each other, the  *)
(* link is to the configured network, and with the configured password     *)
(* unless that network wants none (connectPreservingPassword).             *)
THEOREM LinkIsOfTheNetwork == Spec => []LinkOfNetwork
<1>1. Init => LinkKept
  BY DEF Init, LinkKept
<1>2. Inductive /\ LinkKept /\ [Next]_vars => LinkKept'
  BY LinkStep DEF Inductive
<1>3. LinkKept => LinkOfNetwork
  BY DEF LinkKept, LinkOfNetwork
<1> QED
  BY <1>1, <1>2, <1>3, InductiveInvariant, PTL DEF Spec

-----------------------------------------------------------------------------
(* The setup portal *)

\* startAccessPoint leaves the board off, or in the portal.
LEMMA AccessPointPortal ==
    ASSUME NEW next, NEW act, NEW due, StartAccessPoint(next, act, due)
    PROVE  ApMode' => Portal'
<1>1. CASE Reboot
  BY <1>1 DEF Reboot, ApMode
<1>2. CASE ~Reboot
  BY <1>2, PortalServes DEF StartAccessPoint, Port80Held, Portal
<1> QED
  BY <1>1, <1>2

\* No step but PendingStation takes the portal from a board in setup mode.
LEMMA PortalStep ==
    ASSUME Inductive, [Next]_vars, ApMode', ~Portal'
    PROVE  (ApMode /\ ~Portal) \/ PendingStation
<1> SUFFICES ASSUME ~PendingStation PROVE ApMode /\ ~Portal
  OBVIOUS
<1> USE DEF radio, servers, timers, outside
<1>1. CASE UNCHANGED <<wifiMode, servers>>
  BY <1>1 DEF ApMode, Portal
<1>2. ~SetupNetwork
  BY PortalServes DEF SetupNetwork, BeginConnect, ApMode, Portal
<1>3. ~(\/ FailedFallback \/ PendingAccessPoint \/ StationGivesUp
        \/ FactoryReset \/ PowerCycle)
  BY AccessPointPortal
     DEF FailedFallback, PendingAccessPoint, StationGivesUp, FactoryReset,
         PowerCycle, Reboot, ApMode
<1>4. ~(FailedSaveRetry \/ StationRetry \/ ApRetryConnect)
  BY DEF FailedSaveRetry, StationRetry, ApRetryConnect, BeginConnect, ApMode
<1>5. ~ConnectedServe
  BY DEF ConnectedServe, Inductive, Control, ApMode
<1>6. CASE \E form \in Forms : HandleSaveConfig(form)
  BY <1>1, <1>6 DEF HandleSaveConfig, BeginConnect, ApMode
<1>7. CASE HandleScan
  BY <1>7 DEF HandleScan, ApMode, Portal
<1>8. CASE \/ Setup \/ LeaveServe \/ ConnectSeen \/ ConnectedSave \/ ConnectedStation
           \/ FailedSave \/ FailedStation \/ PendingNothing \/ StationFine
           \/ StationNoRetry \/ StationBack \/ ApRetryNothing
           \/ ApRetrySkipped
  BY <1>1, <1>8
     DEF Setup, LeaveServe, ConnectSeen, ConnectedSave, ConnectedStation, FailedSave,
         FailedStation, PendingNothing, StationFine, StationNoRetry,
         StationBack, ApRetryNothing, ApRetrySkipped
<1>9. CASE \/ LinkComesUp \/ LinkDrops \/ ApClientChanges
           \/ \E m \in Networks : RouterChanges(m)
           \/ PendingElapses \/ RetryElapses \/ ApRetryElapses
           \/ UNCHANGED vars
  BY <1>1, <1>9
     DEF LinkComesUp, LinkDrops, ApClientChanges, RouterChanges,
         PendingElapses, RetryElapses, ApRetryElapses, vars
<1> QED
  BY <1>2, <1>3, <1>4, <1>5, <1>6, <1>7, <1>8, <1>9
     DEF Next, MainTask, User, Environment

(* In access-point mode the setup portal is opened with the radio, and     *)
(* whatever follows, only a server switch that was still pending takes it  *)
(* away (startAccessPoint, loop).                                          *)
THEOREM PortalIsKept == Spec => PortalKept
<1>1. Inductive /\ [Next]_vars
        => [ApMode' /\ ~Portal' => (ApMode /\ ~Portal) \/ PendingStation]_vars
  BY PortalStep
<1> QED
  BY <1>1, InductiveInvariant, PTL DEF Spec, PortalKept

-----------------------------------------------------------------------------
(* The listening sockets implement WakeService *)

\* Nothing listens at first.
LEMMA ServiceInit == Init => Service!Init
BY DEF Init, Service!Init, Offered, Listening

\* A restart is a restart.
LEMMA ServiceRestarts ==
    ASSUME Reboot
    PROVE  Service!Restart
BY DEF Reboot, Service!Restart, Offered, Listening

\* Opening the portal is opening the portal.
LEMMA ServicePortal ==
    ASSUME ~alexa, OpenPortal, UNCHANGED alexa
    PROVE  Service!OpenPortal
<1>1. httpPort' = 80 /\ httpsPort' = 0 /\ httpsUp' = FALSE
  BY PortalServes DEF OpenPortal, BeginServerOnPorts, SetupPort, NotListening
<1>2. Offered' = {80} /\ Listening' \subseteq {80}
  BY <1>1 DEF Offered, Listening, NotListening
<1> QED
  BY <1>2 DEF Service!OpenPortal, Service!BridgePort

\* beginConfiguredServer serves a pair of LAN ports beside the bridge.
LEMMA ServiceLan ==
    ASSUME TypeOK, BeginConfiguredServer(cfg)
    PROVE  Service!ServeLan
<1> DEFINE p == httpPort'
           q == httpsPort'
<1>1. p = Usable(cfg.port) /\ q = HttpsPortFor(p) /\ Acceptable(p)
  BY ConfiguredServes
<1>2. p \in Nat /\ p \in 1 .. MaxPort /\ p # AlexaPort
  BY <1>1, MaxPortBound, SMT DEF Acceptable, Reserved, AlexaPort
<1>3. q \in 1 .. MaxPort /\ q # p /\ q # AlexaPort
  BY <1>1, <1>2, HttpsPortApart
<1>4. MaxPort = Service!MaxPort /\ AlexaPort = Service!BridgePort
  BY DEF MaxPort, Service!MaxPort, AlexaPort, Service!BridgePort
<1>5. Service!IsLanPort(p) /\ Service!IsLanPort(q)
  BY <1>2, <1>3, <1>4 DEF Service!IsLanPort
<1>6. {p, q} \ {NotListening} = {p, q}
  BY <1>2, <1>3, MaxPortBound, SMT DEF NotListening
<1>7. Service!IsServerPair({p, q})
  BY <1>3, <1>5 DEF Service!IsServerPair
<1>8. Offered' = {p, q} /\ Listening' \subseteq {p, q}
  BY <1>6 DEF Offered, Listening
<1> QED
  BY <1>7, <1>8 DEF Service!ServeLan, BeginConfiguredServer

\* startAccessPoint is a restart or opens the portal.
LEMMA ServiceAccessPoint ==
    ASSUME NEW next, NEW act, NEW due, StartAccessPoint(next, act, due)
    PROVE  Service!Restart \/ Service!OpenPortal
<1>1. CASE Port80Held
  BY <1>1, ServiceRestarts DEF StartAccessPoint
<1>2. CASE ~Port80Held
  BY <1>2, ServicePortal DEF StartAccessPoint, Port80Held
<1> QED
  BY <1>1, <1>2

\* Every step is a step of WakeService or leaves the sockets alone.
LEMMA ServiceStep == Inductive /\ [Next]_vars => [Service!Next]_(Service!vars)
<1> SUFFICES ASSUME Inductive, [Next]_vars PROVE [Service!Next]_(Service!vars)
  OBVIOUS
<1> USE DEF radio, servers, timers, outside, Offered, Listening
<1>1. CASE Setup
  BY <1>1 DEF Setup, Service!vars
<1>2. CASE LeaveServe
  BY <1>2 DEF LeaveServe, Service!vars
<1>3. CASE ConnectSeen
  BY <1>3 DEF ConnectSeen, Service!vars
<1>4. CASE ConnectedServe
  BY <1>4, ServiceLan DEF ConnectedServe, Inductive, Service!Next
<1>5. CASE ConnectedSave
  BY <1>5 DEF ConnectedSave, Service!vars
<1>6. CASE ConnectedStation
  BY <1>6 DEF ConnectedStation, Service!vars
<1>7. CASE FailedFallback
  BY <1>7, ServiceAccessPoint DEF FailedFallback, Service!Next
<1>8. CASE FailedSaveRetry
  BY <1>8 DEF FailedSaveRetry, Service!vars
<1>9. CASE FailedSave
  BY <1>9 DEF FailedSave, Service!vars
<1>10. CASE FailedStation
  BY <1>10 DEF FailedStation, Service!vars
<1>11. CASE PendingNothing
  BY <1>11 DEF PendingNothing, Service!vars
<1>12. CASE PendingStation
  BY <1>12, ServiceLan DEF PendingStation, Inductive, Service!Next
<1>13. CASE PendingAccessPoint
  BY <1>13, ServiceAccessPoint DEF PendingAccessPoint, Service!Next
<1>14. CASE StationFine
  BY <1>14 DEF StationFine, Service!vars
<1>15. CASE StationRetry
  BY <1>15 DEF StationRetry, Service!vars
<1>16. CASE StationNoRetry
  BY <1>16 DEF StationNoRetry, Service!vars
<1>17. CASE StationBack
  BY <1>17 DEF StationBack, Service!vars
<1>18. CASE StationGivesUp
  BY <1>18, ServiceAccessPoint DEF StationGivesUp, Service!Next
<1>19. CASE ApRetryNothing
  BY <1>19 DEF ApRetryNothing, Service!vars
<1>20. CASE ApRetrySkipped
  BY <1>20 DEF ApRetrySkipped, Service!vars
<1>21. CASE ApRetryConnect
  BY <1>21 DEF ApRetryConnect, Service!vars
<1>22. CASE \E form \in Forms : HandleSaveConfig(form)
  BY <1>22 DEF HandleSaveConfig, Service!vars
<1>23. CASE HandleScan
  BY <1>23 DEF HandleScan, Service!vars
<1>24. CASE FactoryReset
  BY <1>24, ServiceRestarts DEF FactoryReset, Service!Next
<1>25. CASE LinkComesUp
  BY <1>25 DEF LinkComesUp, Service!vars
<1>26. CASE LinkDrops
  BY <1>26 DEF LinkDrops, Service!vars
<1>27. CASE \E m \in Networks : RouterChanges(m)
  BY <1>27 DEF RouterChanges, Service!vars
<1>28. CASE ApClientChanges
  BY <1>28 DEF ApClientChanges, Service!vars
<1>29. CASE PendingElapses
  BY <1>29 DEF PendingElapses, Service!vars
<1>30. CASE RetryElapses
  BY <1>30 DEF RetryElapses, Service!vars
<1>31. CASE ApRetryElapses
  BY <1>31 DEF ApRetryElapses, Service!vars
<1>32. CASE PowerCycle
  BY <1>32, ServiceRestarts DEF PowerCycle, Service!Next
<1>33. CASE UNCHANGED vars
  BY <1>33 DEF vars, Service!vars
<1>34. CASE SetupNetwork
  <2>1. ~alexa /\ UNCHANGED alexa
    BY <1>34 DEF SetupNetwork, Inductive, ServersKept, Running, Silent
  <2>2. CASE OpenPortal
    BY <2>1, <2>2, ServicePortal DEF Service!Next
  <2>3. CASE ~OpenPortal
    BY <1>34, <2>1, <2>3 DEF SetupNetwork, Service!vars
  <2> QED
    BY <2>2, <2>3
<1> QED
  BY <1>1, <1>2, <1>3, <1>4, <1>5, <1>6, <1>7, <1>8, <1>9, <1>10, <1>11, <1>12, <1>13, <1>14, <1>15, <1>16, <1>17, <1>18, <1>19, <1>20, <1>21, <1>22, <1>23, <1>24, <1>25, <1>26, <1>27, <1>28, <1>29, <1>30, <1>31, <1>32, <1>33, <1>34
     DEF Next, MainTask, User, Environment

(* Seen from the network the supervisor is a WakeService: every step of    *)
(* setup(), loop() and the handlers is a restart, the opening of the       *)
(* portal, a start of the LAN servers, or invisible.                       *)
THEOREM ServiceIsProvided == Spec => ServiceProvided
BY ServiceInit, ServiceStep, InductiveInvariant, PTL
   DEF Spec, ServiceProvided, Service!Spec

=============================================================================
