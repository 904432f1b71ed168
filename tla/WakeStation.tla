---------------------------- MODULE WakeStation ----------------------------
(***************************************************************************)
(* The network supervisor of the ESP32 Wake firmware: setup(), loop() and  *)
(* the request handlers that decide whether the board is a WiFi station    *)
(* serving the LAN or an access point serving the setup portal.            *)
(*                                                                         *)
(* The main task is one thread of control.  pc names the point of setup()  *)
(* or loop() it has reached; between two such points the radio, the        *)
(* router, the clients, the timers and the power supply take steps of      *)
(* their own.  A call of connectToSavedWifi blocks the main task, so it is *)
(* the state pc = "connecting" with the caller remembered.                 *)
(*                                                                         *)
(* millis() comparisons are abstracted to flags that become true when the  *)
(* interval has elapsed; relay, LED, status and IPv6 work of the main task *)
(* touches nothing in this module.                                         *)
(***************************************************************************)
EXTENDS Integers

CONSTANTS
    Networks,        \* the SSIDs a board may be configured for
    Passwords,       \* non-empty WiFi passwords
    NoSsid,          \* the empty SSID: no network configured
    Open,            \* the empty password
    RouterPassword,  \* what each network's router really expects
    FormPorts,       \* values submitted in the "port" field of /api/config
    StoredPorts      \* values an older firmware may have left in NVS

ASSUME NetworkAssumption ==
    /\ NoSsid \notin Networks
    /\ Open \notin Passwords
    /\ RouterPassword \in [Networks -> Passwords \cup {Open}]

\* Ports are uint16_t.
MaxPort == 65535

ASSUME PortAssumption ==
    /\ FormPorts \subseteq Nat
    /\ StoredPorts \subseteq 0 .. MaxPort

VARIABLES
    nvs,          \* Preferences: the configuration that survives a restart
    cfg,          \* the same settings in RAM
    wifiMode,     \* WiFi.getMode()
    assoc,        \* what the last WiFi.begin asked the driver to join
    linkUp,       \* WiFi.status() == WL_CONNECTED
    httpPort,     \* the port httpServer was made for, NotListening if none
    httpsPort,    \* the port httpsServer was made for, NotListening if none
    httpUp,       \* httpServer->isRunning(): its start() succeeded
    httpsUp,      \* httpsServer->isRunning()
    alexa,        \* fauxmoStarted: the Hue emulation owns port 80
    dnsActive,    \* dnsServerActive
    pending,      \* pendingServerAction
    pendingDue,   \* millis() >= pendingServerActionAt
    retryDue,     \* millis() - lastRetryAt > 30000
    apRetryDue,   \* millis() - lastApRetryAt > 60000
    pc,           \* where the main task is
    caller,       \* who called connectToSavedWifi
    save,         \* locals of a handleSaveConfig that is connecting
    forced,       \* forceAccessPoint, a local of setup()
    routerUp,     \* the networks in range
    apClient      \* WiFi.softAPgetStationNum() > 0

radio   == <<wifiMode, assoc, linkUp>>
servers == <<httpPort, httpsPort, httpUp, httpsUp, alexa, dnsActive>>
timers  == <<pendingDue, retryDue, apRetryDue>>
outside == <<routerUp, apClient>>
vars    == <<nvs, cfg, radio, servers, pending, timers, pc, caller, save,
             forced, outside>>

-----------------------------------------------------------------------------
(* Ports *)

DEFAULT_CONFIG_PORT == 2443
SetupPort           == 80
AlexaPort           == 80
NotListening        == 0

\* Mutants: the port 79 check forgotten; the port 65535 case forgotten.
ReservedAlexaOnly       == {80}
HttpsPortForNextOnly(p) == p + 1

\* The ports beginConfiguredServer and handleSaveConfig both refuse.
Reserved == {79, 80}

\* handleSaveConfig's checks on the submitted port.
Acceptable(p) == p \in 1 .. MaxPort /\ p \notin Reserved

\* beginConfiguredServer replaces a stored port it cannot use.
Usable(p) == IF Acceptable(p) THEN p ELSE DEFAULT_CONFIG_PORT

HttpsPortFor(p) == IF p >= MaxPort THEN p - 1 ELSE p + 1

\* What start() of a server for port p can end in.  It fails on a port that
\* another listener of this board holds, and may fail anywhere: for want of a
\* socket, of memory for TLS, or on a port a closed connection still occupies.
StartOutcomes(p, taken) == IF p \in taken THEN {FALSE} ELSE BOOLEAN

-----------------------------------------------------------------------------
(* Types *)

Ssids      == Networks \cup {NoSsid}
AllKeys    == Passwords \cup {Open}
AllPorts   == 0 .. MaxPort
Settings   == [ssid: Ssids, password: AllKeys, port: AllPorts, auto: BOOLEAN]
Flash      == [ssid: Ssids, password: AllKeys, port: AllPorts, auto: BOOLEAN,
               forceAp: BOOLEAN, facReset: BOOLEAN]
Joins      == [ssid: Ssids, password: AllKeys, auto: BOOLEAN]
Saves      == [port: AllPorts, password: AllKeys, left: 0 .. 3]
NoAssoc    == [ssid |-> NoSsid, password |-> Open, auto |-> FALSE]
NoSave     == [port |-> NotListening, password |-> Open, left |-> 0]
EmptyNvs   == [ssid |-> NoSsid, password |-> Open, port |-> 0,
               auto |-> TRUE, forceAp |-> FALSE, facReset |-> FALSE]
DefaultCfg == [ssid |-> NoSsid, password |-> Open,
               port |-> DEFAULT_CONFIG_PORT, auto |-> TRUE]

Forms == [ssid: Networks, password: AllKeys, port: FormPorts, auto: BOOLEAN]

TypeOK ==
    /\ nvs \in Flash
    /\ cfg \in Settings
    /\ wifiMode \in {"OFF", "STA", "AP", "AP_STA"}
    /\ assoc \in Joins
    /\ linkUp \in BOOLEAN
    /\ httpPort \in AllPorts
    /\ httpsPort \in AllPorts
    /\ httpUp \in BOOLEAN
    /\ httpsUp \in BOOLEAN
    /\ alexa \in BOOLEAN
    /\ dnsActive \in BOOLEAN
    /\ pending \in {"NONE", "START_STA", "START_AP"}
    /\ pendingDue \in BOOLEAN
    /\ retryDue \in BOOLEAN
    /\ apRetryDue \in BOOLEAN
    /\ pc \in {"setup", "start", "serve", "pending", "station", "stationCheck",
               "apRetry", "connecting", "joined"}
    /\ caller \in {"none", "setup", "save", "station", "apRetry"}
    /\ save \in Saves
    /\ forced \in BOOLEAN
    /\ routerUp \in SUBSET Networks
    /\ apClient \in BOOLEAN

-----------------------------------------------------------------------------
(* Pieces of the handlers *)

\* ESP.restart() or a power cycle: everything in RAM is lost.
Reboot ==
    /\ pc' = "setup"
    /\ caller' = "none"
    /\ save' = NoSave
    /\ forced' = FALSE
    /\ cfg' = DefaultCfg
    /\ wifiMode' = "OFF"
    /\ assoc' = NoAssoc
    /\ linkUp' = FALSE
    /\ httpPort' = NotListening
    /\ httpsPort' = NotListening
    /\ httpUp' = FALSE
    /\ httpsUp' = FALSE
    /\ alexa' = FALSE
    /\ dnsActive' = FALSE
    /\ pending' = "NONE"
    /\ pendingDue' = FALSE
    /\ retryDue' = FALSE
    /\ apRetryDue' = FALSE
    /\ apClient' = FALSE
    /\ UNCHANGED routerUp

\* beginServerOnPorts: the old servers are stopped before the new ones start.
\* Nothing looks at what start() returns.
BeginServerOnPorts(port, secure, enableHttps) ==
    LET held == IF alexa THEN {AlexaPort} ELSE {}
    IN  /\ httpPort' = port
        /\ httpUp' \in StartOutcomes(port, held)
        /\ \/ /\ enableHttps
              /\ httpsPort' = secure
              /\ httpsUp' \in StartOutcomes(secure,
                                 held \cup IF httpUp' THEN {port} ELSE {})
           \/ /\ ~enableHttps
              /\ httpsPort' = NotListening
              /\ httpsUp' = FALSE

\* beginConfiguredServer, after its callers have stopped the DNS hijack.
BeginConfiguredServer(config) ==
    LET port == Usable(config.port)
    IN  /\ cfg' = [config EXCEPT !.port = port]
        /\ BeginServerOnPorts(port, HttpsPortFor(port), TRUE)
        /\ alexa' = TRUE
        /\ dnsActive' = FALSE

\* startAccessPoint once port 80 is free.
OpenPortal ==
    /\ wifiMode' = "AP"
    /\ assoc' = NoAssoc
    /\ linkUp' = FALSE
    /\ dnsActive' = TRUE
    /\ BeginServerOnPorts(SetupPort, 443, FALSE)

\* Mutant: the setup portal is opened without looking at the Hue emulation.
Port80HeldNever == FALSE

\* Once the Hue emulation has port 80 only a restart gives it back.
Port80Held == alexa

\* startAccessPoint, returning to the point "next" of loop() with the given
\* pending action and deadline.
StartAccessPoint(next, action, due) ==
    \/ /\ Port80Held
       /\ nvs' = [nvs EXCEPT !.forceAp = TRUE]
       /\ Reboot
    \/ /\ ~Port80Held
       /\ OpenPortal
       /\ pc' = next
       /\ caller' = "none"
       /\ pending' = action
       /\ pendingDue' = due
       /\ UNCHANGED <<nvs, cfg, alexa, retryDue, apRetryDue, save, outside,
                      forced>>

\* connectToSavedWifi up to its waiting loop: the soft AP goes down and the
\* driver starts joining with the credentials in RAM.
BeginConnect(config, from) ==
    /\ wifiMode' = "STA"
    /\ assoc' = [ssid |-> config.ssid, password |-> config.password,
                 auto |-> config.auto]
    /\ linkUp' = FALSE
    /\ apClient' = FALSE
    /\ pc' = "connecting"
    /\ caller' = from

-----------------------------------------------------------------------------
(* setup() *)

\* The settings setup() puts in RAM.  A pending factory reset wipes them.
Loaded ==
    IF nvs.facReset \/ nvs.ssid = NoSsid
    THEN [DefaultCfg EXCEPT !.auto = nvs.facReset \/ nvs.auto]
    ELSE [ssid |-> nvs.ssid, password |-> nvs.password,
          port |-> IF nvs.port = 0 THEN DEFAULT_CONFIG_PORT ELSE nvs.port,
          auto |-> nvs.auto]

\* setup() up to preferences.end(): force_ap_once is taken out of Preferences
\* and remembered in a local.
Setup ==
    /\ pc = "setup"
    /\ cfg' = Loaded
    /\ nvs' = IF nvs.facReset THEN EmptyNvs ELSE [nvs EXCEPT !.forceAp = FALSE]
    /\ forced' = nvs.forceAp
    /\ pc' = "start"
    /\ UNCHANGED <<radio, servers, pending, timers, caller, save, outside>>

\* Mutant: setup() drops force_ap_once when a network is stored.
PortalWantedUnconfigured == cfg.ssid = NoSsid

\* setup() goes to the portal on force_ap_once or without a network.
PortalWanted == forced \/ cfg.ssid = NoSsid

\* The end of setup(): startAccessPoint or startStationMode.
SetupNetwork ==
    /\ pc = "start"
    /\ forced' = FALSE
    /\ \/ /\ PortalWanted
          /\ OpenPortal
          /\ pc' = "serve"
          /\ UNCHANGED <<caller, apClient>>
       \/ /\ ~PortalWanted
          /\ BeginConnect(cfg, "setup")
          /\ UNCHANGED <<httpPort, httpsPort, httpUp, httpsUp, dnsActive>>
    /\ UNCHANGED <<nvs, cfg, alexa, pending, timers, save, routerUp>>

-----------------------------------------------------------------------------
(* Request handlers, run from httpServer->loop() and httpsServer->loop() *)

\* Some client can reach a server of this board.
ClientReaches ==
    /\ httpUp \/ httpsUp
    /\ linkUp \/ apClient

\* Mutants: a password already saved is not overwritten; a port change alone
\* does not restart the servers.
StoredKeepsPassword(config) ==
    [nvs EXCEPT !.ssid = config.ssid, !.port = config.port,
                !.auto = config.auto, !.facReset = FALSE]
RestartNeededIfAttempted(attempted, port, previousPort) == attempted

\* saveConfig
Stored(config) ==
    [nvs EXCEPT !.ssid = config.ssid, !.password = config.password,
                !.port = config.port, !.auto = config.auto,
                !.facReset = FALSE]

\* handleSaveConfig restarts the servers only when needed.
RestartNeeded(attempted, port, previousPort) ==
    attempted \/ port # previousPort

\* The end of handleSaveConfig: saveConfig, then what loop() must do next.
FinishSave(config, connected, attempted, previousPort) ==
    /\ cfg' = config
    /\ nvs' = Stored(config)
    /\ pc' = "serve"
    /\ caller' = "none"
    /\ save' = NoSave
    /\ \/ /\ ~connected
          /\ pending' = "START_AP"
          /\ pendingDue' = FALSE
       \/ /\ connected
          /\ RestartNeeded(attempted, config.port, previousPort)
          /\ pending' = "START_STA"
          /\ pendingDue' = FALSE
       \/ /\ connected
          /\ ~RestartNeeded(attempted, config.port, previousPort)
          /\ UNCHANGED <<pending, pendingDue>>

\* handleSaveConfig with a form that passes validation: it returns at once
\* when the link is up and the credentials are unchanged, else it connects.
\* A blank password with a saved one means connectPreservingPassword: the
\* saved password, then none, two rounds of both (left counts down).
HandleSaveConfig(form) ==
    LET provided == form.password # Open
        changed  == form.ssid # cfg.ssid \/ provided
        preserve == ~provided /\ cfg.password # Open
        first    == IF preserve THEN cfg.password ELSE form.password
        config   == [ssid |-> form.ssid, password |-> first,
                     port |-> form.port, auto |-> form.auto]
    IN  /\ pc = "serve"
        /\ ClientReaches
        /\ Acceptable(form.port)
        /\ \/ /\ ~changed /\ linkUp
              /\ FinishSave([config EXCEPT !.password = cfg.password],
                            TRUE, FALSE, cfg.port)
              /\ UNCHANGED <<radio, apClient>>
           \/ /\ changed \/ ~linkUp
              /\ cfg' = config
              /\ save' = [port |-> cfg.port, password |-> first,
                          left |-> IF preserve THEN 3 ELSE 0]
              /\ BeginConnect(config, "save")
              /\ UNCHANGED <<nvs, pending, pendingDue>>
        /\ UNCHANGED <<servers, retryDue, apRetryDue, routerUp, forced>>

\* handleScan while the soft AP is up leaves the radio in WIFI_AP_STA.
HandleScan ==
    /\ pc = "serve"
    /\ ClientReaches
    /\ wifiMode \in {"AP", "AP_STA"}
    /\ wifiMode' = "AP_STA"
    /\ UNCHANGED <<nvs, cfg, assoc, linkUp, servers, pending, timers, pc,
                   caller, save, outside, forced>>

\* clearSavedConfig and ESP.restart, from /reset, /api/config/reset or the
\* BOOT button held for RESET_HOLD_MS.
FactoryReset ==
    /\ pc = "serve"
    /\ nvs' = [EmptyNvs EXCEPT !.facReset = TRUE]
    /\ Reboot

\* All requests of this iteration are served.
LeaveServe ==
    /\ pc = "serve"
    /\ pc' = "pending"
    /\ UNCHANGED <<nvs, cfg, radio, servers, pending, timers, caller, save,
                   outside, forced>>

-----------------------------------------------------------------------------
(* connectToSavedWifi: waiting, and what its callers do with the result *)

\* The waiting loop sees WL_CONNECTED; the wait for a global IPv6 address
\* follows, at whose end the call returns true without looking again.
ConnectSeen ==
    /\ pc = "connecting"
    /\ linkUp
    /\ pc' = "joined"
    /\ UNCHANGED <<nvs, cfg, radio, servers, pending, timers, caller, save,
                   outside, forced>>

\* The call returns true to startStationMode or to the AP retry of loop().
ConnectedServe ==
    /\ pc = "joined"
    /\ caller \in {"setup", "apRetry"}
    /\ BeginConfiguredServer(cfg)
    /\ pc' = "serve"
    /\ caller' = "none"
    /\ UNCHANGED <<nvs, radio, pending, timers, save, outside, forced>>

ConnectedSave ==
    /\ pc = "joined"
    /\ caller = "save"
    /\ FinishSave(cfg, TRUE, TRUE, save.port)
    /\ UNCHANGED <<radio, servers, retryDue, apRetryDue, outside, forced>>

ConnectedStation ==
    /\ pc = "joined"
    /\ caller = "station"
    /\ pc' = "stationCheck"
    /\ caller' = "none"
    /\ UNCHANGED <<nvs, cfg, radio, servers, pending, timers, save, outside,
                   forced>>

\* The timeout expires.  The loop polls every 500 ms and does not look again
\* after its last pause, so the link may be up by now.  The timeout is far
\* longer than the 300 ms of a pending action.
TimedOut == pc = "connecting"

\* startStationMode, or the AP retry of loop(), falls back to the AP.
FailedFallback ==
    /\ TimedOut
    /\ caller \in {"setup", "apRetry"}
    /\ StartAccessPoint("serve", pending, pending # "NONE")

\* connectPreservingPassword alternates the saved password and none.
FailedSaveRetry ==
    /\ TimedOut
    /\ caller = "save"
    /\ save.left > 0
    /\ LET next == [cfg EXCEPT !.password =
                       IF save.left % 2 = 1 THEN Open ELSE save.password]
       IN  cfg' = next /\ BeginConnect(next, "save")
    /\ save' = [save EXCEPT !.left = @ - 1]
    /\ pendingDue' = (pending # "NONE")
    /\ UNCHANGED <<nvs, servers, pending, retryDue, apRetryDue, routerUp,
                   forced>>

FailedSave ==
    /\ TimedOut
    /\ caller = "save"
    /\ save.left = 0
    /\ FinishSave([cfg EXCEPT !.password = save.password], FALSE, TRUE,
                  save.port)
    /\ UNCHANGED <<radio, servers, retryDue, apRetryDue, outside, forced>>

FailedStation ==
    /\ TimedOut
    /\ caller = "station"
    /\ pc' = "stationCheck"
    /\ caller' = "none"
    /\ pendingDue' = (pending # "NONE")
    /\ UNCHANGED <<nvs, cfg, radio, servers, pending, retryDue, apRetryDue,
                   save, outside, forced>>

-----------------------------------------------------------------------------
(* The rest of loop(), in its order: the pending server action, the lost   *)
(* station, the AP retry.                                                  *)

\* Mutant: pending actions are taken in station mode only.
PendingReadyStation ==
    pc = "pending" /\ pending # "NONE" /\ pendingDue /\ wifiMode = "STA"

PendingReady == pc = "pending" /\ pending # "NONE" /\ pendingDue

PendingNothing ==
    /\ pc = "pending"
    /\ pending = "NONE" \/ ~pendingDue
    /\ pc' = "station"
    /\ UNCHANGED <<nvs, cfg, radio, servers, pending, timers, caller, save,
                   outside, forced>>

PendingStation ==
    /\ PendingReady
    /\ pending = "START_STA"
    /\ pending' = "NONE"
    /\ pendingDue' = FALSE
    /\ BeginConfiguredServer(cfg)
    /\ pc' = "station"
    /\ UNCHANGED <<nvs, radio, retryDue, apRetryDue, caller, save, outside,
                   forced>>

PendingAccessPoint ==
    /\ PendingReady
    /\ pending = "START_AP"
    /\ StartAccessPoint("station", "NONE", FALSE)

StationLost == wifiMode = "STA" /\ ~linkUp /\ cfg.ssid # NoSsid

StationFine ==
    /\ pc = "station"
    /\ ~StationLost
    /\ pc' = "apRetry"
    /\ UNCHANGED <<nvs, cfg, radio, servers, pending, timers, caller, save,
                   outside, forced>>

StationRetry ==
    /\ pc = "station"
    /\ StationLost
    /\ retryDue
    /\ retryDue' = FALSE
    /\ BeginConnect(cfg, "station")
    /\ UNCHANGED <<nvs, cfg, servers, pending, pendingDue, apRetryDue, save,
                   routerUp, forced>>

StationNoRetry ==
    /\ pc = "station"
    /\ StationLost
    /\ ~retryDue
    /\ pc' = "stationCheck"
    /\ UNCHANGED <<nvs, cfg, radio, servers, pending, timers, caller, save,
                   outside, forced>>

StationBack ==
    /\ pc = "stationCheck"
    /\ linkUp
    /\ pc' = "apRetry"
    /\ UNCHANGED <<nvs, cfg, radio, servers, pending, timers, caller, save,
                   outside, forced>>

StationGivesUp ==
    /\ pc = "stationCheck"
    /\ ~linkUp
    /\ StartAccessPoint("apRetry", pending, pendingDue)

\* Mutant: the AP retry expects the mode a scan leaves behind.
ApRetryReadyAfterScan ==
    pc = "apRetry" /\ wifiMode = "AP_STA" /\ cfg.auto /\ cfg.ssid # NoSsid
                   /\ apRetryDue

ApRetryReady ==
    pc = "apRetry" /\ wifiMode = "AP" /\ cfg.auto /\ cfg.ssid # NoSsid
                   /\ apRetryDue

ApRetryNothing ==
    /\ pc = "apRetry"
    /\ ~ApRetryReady
    /\ pc' = "serve"
    /\ UNCHANGED <<nvs, cfg, radio, servers, pending, timers, caller, save,
                   outside, forced>>

\* Somebody uses the setup AP: the next try is an interval away.
ApRetrySkipped ==
    /\ ApRetryReady
    /\ apClient
    /\ apRetryDue' = FALSE
    /\ pc' = "serve"
    /\ UNCHANGED <<nvs, cfg, radio, servers, pending, pendingDue, retryDue,
                   caller, save, outside, forced>>

ApRetryConnect ==
    /\ ApRetryReady
    /\ ~apClient
    /\ apRetryDue' = FALSE
    /\ BeginConnect(cfg, "apRetry")
    /\ UNCHANGED <<nvs, cfg, servers, pending, pendingDue, retryDue, save,
                   routerUp, forced>>

-----------------------------------------------------------------------------
(* Around the main task: WiFi driver, router, clients, time, power *)

\* The driver joins while a call waits for it, and keeps trying afterwards
\* when setAutoReconnect(true) was requested.
LinkComesUp ==
    /\ ~linkUp
    /\ wifiMode = "STA"
    /\ assoc.ssid \in routerUp
    /\ assoc.password = RouterPassword[assoc.ssid]
    /\ pc = "connecting" \/ assoc.auto
    /\ linkUp' = TRUE
    /\ UNCHANGED <<nvs, cfg, wifiMode, assoc, servers, pending, timers, pc,
                   caller, save, outside, forced>>

LinkDrops ==
    /\ linkUp
    /\ linkUp' = FALSE
    /\ UNCHANGED <<nvs, cfg, wifiMode, assoc, servers, pending, timers, pc,
                   caller, save, outside, forced>>

\* A network out of range takes the link that uses it down.
RouterChanges(n) ==
    /\ routerUp' = IF n \in routerUp THEN routerUp \ {n}
                                     ELSE routerUp \cup {n}
    /\ linkUp' = (linkUp /\ assoc.ssid \in routerUp')
    /\ UNCHANGED <<nvs, cfg, wifiMode, assoc, servers, pending, timers, pc,
                   caller, save, apClient, forced>>

ApClientChanges ==
    /\ wifiMode \in {"AP", "AP_STA"}
    /\ apClient' = ~apClient
    /\ UNCHANGED <<nvs, cfg, radio, servers, pending, timers, pc, caller,
                   save, routerUp, forced>>

PendingElapses ==
    /\ pending # "NONE" /\ ~pendingDue
    /\ pendingDue' = TRUE
    /\ UNCHANGED <<nvs, cfg, radio, servers, pending, retryDue, apRetryDue,
                   pc, caller, save, outside, forced>>

RetryElapses ==
    /\ ~retryDue
    /\ retryDue' = TRUE
    /\ UNCHANGED <<nvs, cfg, radio, servers, pending, pendingDue, apRetryDue,
                   pc, caller, save, outside, forced>>

ApRetryElapses ==
    /\ ~apRetryDue
    /\ apRetryDue' = TRUE
    /\ UNCHANGED <<nvs, cfg, radio, servers, pending, pendingDue, retryDue,
                   pc, caller, save, outside, forced>>

PowerCycle ==
    /\ Reboot
    /\ UNCHANGED nvs

-----------------------------------------------------------------------------
(* Specification *)

\* A board as it is switched on: fresh, or configured by some firmware.
Init ==
    /\ nvs \in {EmptyNvs} \cup
               [ssid: Networks, password: AllKeys, port: StoredPorts,
                auto: BOOLEAN, forceAp: {FALSE}, facReset: {FALSE}]
    /\ cfg = DefaultCfg
    /\ wifiMode = "OFF"
    /\ assoc = NoAssoc
    /\ linkUp = FALSE
    /\ httpPort = NotListening
    /\ httpsPort = NotListening
    /\ httpUp = FALSE
    /\ httpsUp = FALSE
    /\ alexa = FALSE
    /\ dnsActive = FALSE
    /\ pending = "NONE"
    /\ pendingDue = FALSE
    /\ retryDue = FALSE
    /\ apRetryDue = FALSE
    /\ pc = "setup"
    /\ caller = "none"
    /\ save = NoSave
    /\ forced = FALSE
    /\ routerUp \in SUBSET Networks
    /\ apClient = FALSE

\* The steps the main task takes by itself.
MainTask ==
    \/ Setup \/ SetupNetwork
    \/ LeaveServe
    \/ ConnectSeen \/ ConnectedServe \/ ConnectedSave \/ ConnectedStation
    \/ FailedFallback \/ FailedSaveRetry \/ FailedSave \/ FailedStation
    \/ PendingNothing \/ PendingStation \/ PendingAccessPoint
    \/ StationFine \/ StationRetry \/ StationNoRetry
    \/ StationBack \/ StationGivesUp
    \/ ApRetryNothing \/ ApRetrySkipped \/ ApRetryConnect

\* What a user asks for.
User ==
    \/ \E form \in Forms : HandleSaveConfig(form)
    \/ HandleScan
    \/ FactoryReset

Environment ==
    \/ LinkComesUp \/ LinkDrops
    \/ \E n \in Networks : RouterChanges(n)
    \/ ApClientChanges
    \/ PendingElapses \/ RetryElapses \/ ApRetryElapses
    \/ PowerCycle

Next == MainTask \/ User \/ Environment

Spec == Init /\ [][Next]_vars

\* The main task keeps running, time passes, a network in range that is tried
\* again and again with the right password is joined in the end, and not
\* always in the half second in which the waiting loop no longer looks.
Fairness ==
    /\ WF_vars(MainTask)
    /\ WF_vars(PendingElapses)
    /\ WF_vars(RetryElapses)
    /\ WF_vars(ApRetryElapses)
    /\ SF_vars(LinkComesUp)
    /\ SF_vars(ConnectSeen)

FairSpec == Spec /\ Fairness
-----------------------------------------------------------------------------
(* Properties *)

\* setup() is over and loop() runs.
Running == pc \notin {"setup", "start"} /\ caller # "setup"

\* Whatever order saves, retries, scans and pending actions come in, the
\* servers loop() drives are made for ports that fit together: the setup portal
\* on port 80 and the Alexa bridge, which needs the same port, never meet; the
\* DNS hijack lives exactly as long as the portal; on the LAN there are two
\* servers on ports of their own.  So no start() of this board fails because of
\* another one (beginServerOnPorts, beginFauxmo, startAccessPoint).
ServersConsistent ==
    Running =>
        /\ httpPort # NotListening
        /\ httpPort = SetupPort <=> ~alexa
        /\ httpPort = SetupPort <=> dnsActive
        /\ httpPort = SetupPort => httpsPort = NotListening
        /\ httpPort # SetupPort =>
               httpsPort \notin {NotListening, AlexaPort, httpPort}

\* As a station with no server switch outstanding, the board has its servers
\* on the port it is configured for: no path through saves, failed connects and
\* late retries forgets the switch that handleSaveConfig left to loop().  That
\* they listen is another matter: see StationAnswers.
StationServed ==
    wifiMode = "STA" /\ pending = "NONE" /\ pc = "serve"
        => httpPort = cfg.port

\* beginServerOnPorts reports "[HTTP] Server listening on port" without having
\* looked at what start() returned: a station whose server did not start stays
\* without one, and nothing in loop() tries again.
StationAnswers ==
    wifiMode = "STA" /\ pending = "NONE" /\ pc = "serve" => httpUp

\* What the board runs with is what it would start with after a power failure:
\* outside a save that is still connecting, RAM and Preferences agree on the
\* network, the password and the port that will be served (handleSaveConfig,
\* connectPreservingPassword and beginConfiguredServer all change RAM alone).
RestartKeepsSettings ==
    Running /\ caller # "save" =>
        /\ <<Loaded.ssid, Loaded.password, Loaded.auto>>
              = <<cfg.ssid, cfg.password, cfg.auto>>
        /\ Usable(Loaded.port) = Usable(cfg.port)

\* The three invariants above are inductive together with these facts about
\* the control state and the settings.
Control ==
    /\ pc \in {"connecting", "joined"} <=> caller # "none"
    /\ pc # "setup" => ~nvs.forceAp /\ ~nvs.facReset
    /\ caller # "none" => wifiMode = "STA"
    /\ caller = "save" => cfg.ssid # NoSsid
    /\ forced => pc = "start"
    /\ pc \in {"setup", "start"} => wifiMode = "OFF"

Silent == httpPort = NotListening /\ httpsPort = NotListening
              /\ ~httpUp /\ ~httpsUp /\ ~alexa /\ ~dnsActive

ServersKept ==
    /\ ~Running => Silent
    /\ ServersConsistent
    /\ Running /\ alexa => Acceptable(httpPort)

StationKept ==
    wifiMode = "STA" /\ pending = "NONE" /\ pc # "setup"
    /\ caller \in {"none", "station"}
        => httpPort = cfg.port

SettingsKept ==
    pc # "setup" /\ caller # "save" =>
        /\ <<Loaded.ssid, Loaded.password, Loaded.auto>>
              = <<cfg.ssid, cfg.password, cfg.auto>>
        /\ Usable(Loaded.port) = Usable(cfg.port)

Inductive ==
    TypeOK /\ Control /\ ServersKept /\ StationKept /\ SettingsKept

\* A restart that was asked for to free port 80 (startAccessPoint) ends in the
\* setup portal, however often the power fails before setup() has read the
\* wish, and the wish is forgotten once it is met.  It is lost in one way only:
\* setup() takes it out of Preferences well before it opens the portal, and a
\* power cut in between leaves no trace of it.
PortalWished == nvs.forceAp \/ forced
ForcedPortal ==
    [][PortalWished =>
          \/ PortalWished' /\ ~Running'
          \/ ~PortalWished' /\ httpPort' = SetupPort /\ dnsActive'
          \/ ~nvs.forceAp /\ PowerCycle]_vars

\* The ports of the servers there are, and of those that came up.
Offered   == {httpPort, httpsPort} \ {NotListening}
Listening == (IF httpUp THEN {httpPort} ELSE {})
                 \cup (IF httpsUp THEN {httpsPort} ELSE {})

\* Seen from outside, the listeners behave as WakeService promises.
Service == INSTANCE WakeService
               WITH offered <- Offered,
                    web     <- Listening,
                    bridge  <- alexa
ServiceProvided == Service!Spec

\* From some time on nobody submits the configuration form.
NobodySaves == <>[][~\E form \in Forms : HandleSaveConfig(form)]_vars

\* A server switch that a handler left to loop() is made or overtaken by a
\* restart, never left outstanding - once the user stops saving: every save
\* that fails to connect moves pendingServerActionAt.
PendingResolved ==
    NobodySaves => (pending # "NONE" ~> pending = "NONE")

\* The router is back, the stored credentials are right and automatic
\* reconnection is on.
Calm ==
    /\ nvs.auto
    /\ nvs.ssid \in routerUp
    /\ nvs.password = RouterPassword[nvs.ssid]
    /\ ~nvs.facReset
    /\ ~apClient

LanServed == linkUp /\ httpUp /\ httpPort # SetupPort

\* From some time on a server that is started comes up.
StartsSucceed == <>[](Running => httpUp)

\* The board recovers by itself from an outage (loop()'s AP retry): if from
\* some time on the conditions are right, nobody uses the setup AP or saves a
\* configuration, the power stays on, the driver does not lose the link and
\* starting a server succeeds, it serves the LAN again and again.  The
\* exception is a board whose radio a scan has left in WIFI_AP_STA.
Recovers ==
    /\ <>[](Calm /\ wifiMode # "AP_STA")
    /\ StartsSucceed
    /\ <>[][~(LinkDrops \/ PowerCycle)]_vars
    /\ NobodySaves
    => []<>LanServed

\* README: in AP mode the board "tries to reconnect every minute, but only
\* while nobody is connected to the AP", so that it "can recover by itself
\* after the network was lost" - with no exception for a board that has
\* scanned for networks.
RecoversAlways ==
    /\ <>[]Calm
    /\ StartsSucceed
    /\ <>[][~(LinkDrops \/ PowerCycle)]_vars
    /\ NobodySaves
    => []<>LanServed

\* "wifiPassword ends up holding whichever one actually worked" (the comment on
\* connectPreservingPassword): once handleSaveConfig's server switch is made,
\* the credentials that brought the link up are the configured ones.
LinkCredentials ==
    linkUp /\ pc = "serve" /\ pending = "NONE" =>
        <<assoc.ssid, assoc.password>> = <<cfg.ssid, cfg.password>>

\* What is left of it, however saves, late links and retries follow each other:
\* the link is to the configured network, and with the configured password unless
\* that network wants none.
LinkOfNetwork ==
    linkUp =>
        /\ assoc.ssid = cfg.ssid
        /\ assoc.password = cfg.password \/ RouterPassword[cfg.ssid] = Open

\* It is inductive with these: what the driver was last asked to join is the
\* configured network, and a save tries the saved password and none.
LinkKept ==
    /\ linkUp => wifiMode = "STA" /\ assoc.password = RouterPassword[assoc.ssid]
    /\ wifiMode = "STA" =>
           assoc.ssid = cfg.ssid /\ assoc.password \in {cfg.password, Open}
    /\ caller = "save" => assoc.password \in {save.password, Open}

\* ESP32_API.md: in access-point setup mode the setup page is on port 80,
\* HTTPS is disabled and DNS leads every name to it.
SetupPortal ==
    wifiMode \in {"AP", "AP_STA"} /\ pc = "serve"
        => httpPort = SetupPort /\ httpsPort = NotListening /\ dnsActive

\* Nothing else breaks it: in access-point mode the setup portal is opened with
\* the radio, and only a server switch that was still pending takes it away.
Portal   == httpPort = SetupPort /\ httpsPort = NotListening /\ dnsActive
ApMode   == wifiMode \in {"AP", "AP_STA"}
PortalKept ==
    [][ApMode' /\ ~Portal' => (ApMode /\ ~Portal) \/ PendingStation]_vars

=============================================================================
