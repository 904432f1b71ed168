------------------------------ MODULE PcTarget ------------------------------
(***************************************************************************)
(* Which computer the board wakes, pings and publishes: the PC's address,  *)
(* as the user typed it, as the Windows helper reports it over USB, or as  *)
(* the firmware infers it when the ISP renumbers the LAN.                  *)
(*                                                                         *)
(* An IPv6 address is its /64 prefix here, the half that renumbering       *)
(* changes; NoPrefix is "no global IPv6 address", and a target without a   *)
(* prefix is the LAN IPv4 address.  Preferences commits each put by        *)
(* itself: a handler changes RAM first and then puts its keys in the order *)
(* of todo, and the power may fail between any two of them.                *)
(***************************************************************************)
EXTENDS Integers, Sequences

CONSTANTS
    Ssids,      \* the networks a board may be configured for
    Prefixes,   \* the global /64 prefixes
    NoPrefix,   \* no global IPv6 address
    Absent,     \* a key an older firmware, or no firmware, has stored
    Limit,      \* the 180000 ms a helper report is good for, in ticks
    Wrap        \* the 2^32 ms after which millis() starts over, in ticks

ASSUME PrefixAssumption ==
    /\ NoPrefix \notin Prefixes
    /\ Absent \notin Prefixes \cup {NoPrefix}

ASSUME ClockAssumption ==
    Limit \in Nat /\ Wrap \in Nat /\ Limit < Wrap

VARIABLES
    ram,        \* the discovery settings the firmware works with
    nvs,        \* the same settings in Preferences
    todo,       \* keys the running handler has still to put, in order
    espNet,     \* the prefix of this board's own address on the LAN
    reported,   \* pcReportReceived
    age,        \* millis() - lastPcReportAt, which wraps
    quiet,      \* history: the true time since the last report, up to Wrap
    torn        \* history: a power cut has interrupted the puts of a handler

vars == <<ram, nvs, todo, espNet, reported, age, quiet, torn>>
heartbeat == <<reported, age, quiet>>

-----------------------------------------------------------------------------
Addresses == Prefixes \cup {NoPrefix}

\* lastEspIpv6; "on" is history: the network it was seen on.
Baselines  == [on: Ssids, prefix: Addresses]

Keys == {"ssid", "target", "v6", "auto", "pc", "esp", "inferred"}

Settings == [ssid: Ssids, target: Addresses, v6: BOOLEAN, auto: BOOLEAN,
             pc: Addresses, esp: Baselines, inferred: BOOLEAN]
Flash    == [ssid: Ssids, target: Addresses, v6: BOOLEAN, auto: BOOLEAN,
             pc: Addresses \cup {Absent}, esp: Baselines, inferred: BOOLEAN]

\* What Preferences answers for keys that are not there; s is the network the
\* board will be configured for.
EmptyFlash(s) ==
    [ssid |-> s, target |-> NoPrefix, v6 |-> TRUE, auto |-> FALSE,
     pc |-> Absent, esp |-> [on |-> s, prefix |-> NoPrefix],
     inferred |-> FALSE]

\* What /api/config asks for.
Forms == [ssid: Ssids, v6: BOOLEAN, auto: BOOLEAN, pc: Addresses]

TypeOK ==
    /\ ram \in Settings
    /\ nvs \in Flash
    /\ todo \in Seq(Keys)
    /\ espNet \in Addresses
    /\ reported \in BOOLEAN
    /\ age \in 0 .. Wrap - 1
    /\ quiet \in 0 .. Wrap
    /\ torn \in BOOLEAN

-----------------------------------------------------------------------------
(* Pieces of the handlers *)

\* selectPcTarget
Select(v6, pc) == IF v6 THEN pc ELSE NoPrefix

\* Mutant: a board upgraded from older firmware has no PC key.
LoadedAbsent(flash) ==
    [flash EXCEPT !.target = Select(flash.v6, flash.pc)]

\* loadDiscoveryConfig: without a PC key the old target address is the PC's.
Loaded(flash) ==
    LET pc == IF flash.pc = Absent THEN flash.target ELSE flash.pc
    IN  [flash EXCEPT !.pc = pc, !.target = Select(flash.v6, pc)]

\* Mutants: saveConfig without the flag; the baseline of another network kept.
SaveKeysWithoutInferred ==
    <<"ssid", "target", "v6", "auto", "pc", "esp">>
BaselineAfterKept(old, ssid) == old.esp

\* The orders of the puts in handleSerialLine, syncPcIpv6Prefix, saveConfig.
ReportKeys == <<"pc", "inferred", "target">>
BaselineKeys == <<"esp">>
RebaseKeys == <<"esp", "pc", "inferred", "target">>
SaveKeys   == <<"ssid", "target", "v6", "auto", "pc", "esp", "inferred">>

\* handleSaveConfig discards the baseline of another network.
BaselineAfter(old, ssid) ==
    IF ssid = old.ssid THEN old.esp
                       ELSE [on |-> ssid, prefix |-> NoPrefix]

\* currentGlobalIpv6
CurrentEsp == IF ram.v6 THEN espNet ELSE NoPrefix

\* canRebasePcPrefix
CanRebase == ram.esp.prefix # NoPrefix /\ ram.pc = ram.esp.prefix

Idle == todo = <<>>

-----------------------------------------------------------------------------
(* handleSerialLine: an acknowledged WAKE_NET report of the address v *)

Heard ==
    /\ reported' = TRUE
    /\ age' = 0
    /\ quiet' = 0

ReportIsNews(v) == ram.auto /\ (ram.pc # v \/ ram.inferred)

ReportTaken(v) ==
    /\ Idle
    /\ ReportIsNews(v)
    /\ Heard
    /\ ram' = [ram EXCEPT !.pc = v, !.inferred = FALSE,
                          !.target = Select(ram.v6, v)]
    /\ todo' = ReportKeys
    /\ UNCHANGED <<nvs, espNet, torn>>

ReportOnlyHeard(v) ==
    /\ Idle
    /\ ~ReportIsNews(v)
    /\ Heard
    /\ UNCHANGED <<ram, nvs, todo, espNet, torn>>

-----------------------------------------------------------------------------
(* syncPcIpv6Prefix: the board's own prefix is new or has changed *)

PrefixIsNew == CurrentEsp \notin {NoPrefix, ram.esp.prefix}

Observed == [on |-> ram.ssid, prefix |-> CurrentEsp]

SyncRebases ==
    /\ Idle
    /\ PrefixIsNew
    /\ CanRebase
    /\ ram' = [ram EXCEPT !.esp = Observed, !.pc = CurrentEsp,
                          !.inferred = TRUE,
                          !.target = Select(ram.v6, CurrentEsp)]
    /\ todo' = RebaseKeys
    /\ UNCHANGED <<nvs, espNet, heartbeat, torn>>

SyncObserves ==
    /\ Idle
    /\ PrefixIsNew
    /\ ~CanRebase
    /\ ram' = [ram EXCEPT !.esp = Observed]
    /\ todo' = BaselineKeys
    /\ UNCHANGED <<nvs, espNet, heartbeat, torn>>

-----------------------------------------------------------------------------
(* handleSaveConfig, clearSavedConfig, restarts *)

\* The discovery part of handleSaveConfig.  A new network takes the link down.
SaveDiscovery(form) ==
    LET pc       == IF form.auto THEN ram.pc ELSE form.pc
        inferred == ram.inferred /\ form.auto /\ form.ssid = ram.ssid
    IN  /\ Idle
        /\ ram' = [ssid |-> form.ssid, v6 |-> form.v6, auto |-> form.auto,
                   pc |-> pc, inferred |-> inferred,
                   esp |-> BaselineAfter(ram, form.ssid),
                   target |-> Select(form.v6, pc)]
        /\ todo' = SaveKeys
        /\ reported' = (reported /\ form.auto = ram.auto)
        /\ espNet' = IF form.ssid = ram.ssid THEN espNet ELSE NoPrefix
        /\ UNCHANGED <<nvs, age, quiet, torn>>

\* One Preferences.put of the running handler.
Put ==
    /\ ~Idle
    /\ nvs' = [nvs EXCEPT ![Head(todo)] = ram[Head(todo)]]
    /\ todo' = Tail(todo)
    /\ UNCHANGED <<ram, espNet, heartbeat, torn>>

\* Mutant: a board that has just started takes millis() for a report's age.
ReportedAfterBootTrue == TRUE

\* pcReportReceived starts false: lastPcReportAt and millis() both start at 0.
ReportedAfterBoot == FALSE

\* setup() after any restart.
Boot(flash) ==
    /\ ram' = Loaded(flash)
    /\ nvs' = flash
    /\ todo' = <<>>
    /\ espNet' = NoPrefix
    /\ reported' = ReportedAfterBoot
    /\ age' = 0
    /\ quiet' = quiet

\* Preferences.clear and ESP.restart.
FactoryReset(s) ==
    /\ Idle
    /\ Boot(EmptyFlash(s))
    /\ torn' = FALSE

PowerCycle ==
    /\ Boot(nvs)
    /\ torn' = (torn \/ ~Idle)

-----------------------------------------------------------------------------
(* The LAN and the clock *)

EspPrefixChanges(p) ==
    /\ espNet # p
    /\ espNet' = p
    /\ UNCHANGED <<ram, nvs, todo, heartbeat, torn>>

Tick ==
    /\ age' = (age + 1) % Wrap
    /\ quiet' = IF quiet = Wrap THEN Wrap ELSE quiet + 1
    /\ UNCHANGED <<ram, nvs, todo, espNet, reported, torn>>

\* A board without discovery settings, or one upgraded from a firmware that
\* knew a target address only.
Init ==
    /\ \E s \in Ssids, t \in Addresses :
           nvs = [EmptyFlash(s) EXCEPT !.target = t]
    /\ ram = Loaded(nvs)
    /\ todo = <<>>
    /\ espNet = NoPrefix
    /\ reported = FALSE
    /\ age = 0
    /\ quiet = 0
    /\ torn = FALSE

Next ==
    \/ \E v \in Addresses : ReportTaken(v) \/ ReportOnlyHeard(v)
    \/ SyncRebases \/ SyncObserves
    \/ \E form \in Forms : SaveDiscovery(form)
    \/ Put
    \/ \E s \in Ssids : FactoryReset(s)
    \/ PowerCycle
    \/ \E p \in Addresses : EspPrefixChanges(p)
    \/ Tick

Spec == Init /\ [][Next]_vars

-----------------------------------------------------------------------------
(* Properties *)

\* pollDdns may publish the PC's address.
PcPublishable ==
    /\ ram.pc # NoPrefix
    /\ ram.auto /\ ~ram.inferred => reported /\ age <= Limit

\* Between two handlers a power failure loses nothing: what loadDiscoveryConfig
\* would read is what the firmware works with, so every handler has put every
\* key it changed, and the target is the address the settings select - even
\* after restarts that fell between two puts, and on upgraded boards.
RestartKeepsDiscovery == Idle => ram = Loaded(nvs)

\* ESP32_API.md: "Changing the configured WiFi SSID discards the prefix
\* baseline": the prefix a rebase compares with was seen on the configured
\* network.
BaselineOfNetwork ==
    ram.esp.prefix # NoPrefix => ram.esp.on = ram.ssid

\* An address that counts as inferred has the prefix this board last saw.
InferredFollows == ram.inferred => ram.pc = ram.esp.prefix

\* As long as no power cut tears the puts of one handler apart, reports, saves,
\* network changes and renumberings in any order keep the baseline that of the
\* configured network and the inferred address on the board's own prefix
\* (syncPcIpv6Prefix rebases onto it and pollDdns publishes it unheard).
CoherentUnlessTorn == ~torn => BaselineOfNetwork /\ InferredFollows

\* README: a lost heartbeat blocks the PC's record in automatic mode, unless
\* its address is inferred.  It does across restarts, mode switches and saves,
\* until the helper has been silent for as long as millis() takes to wrap: then
\* its age starts over.
HelperHeard ==
    PcPublishable /\ ram.auto /\ ~ram.inferred /\ quiet < Wrap
        => quiet <= Limit

\* The properties above are inductive with these facts: a key that is not
\* waiting to be put holds what RAM holds, and an upgraded board's old target
\* address is not overwritten before the PC key exists.
Waiting == {todo[i] : i \in 1 .. Len(todo)}

TargetSelected == ram.target = Select(ram.v6, ram.pc)

Stored ==
    \A k \in Keys \ {"target"} :
        k \notin Waiting => ram[k] = Loaded(nvs)[k]

OldTargetKept ==
    "target" \in Waiting /\ "pc" \notin Waiting => nvs.pc # Absent

Coherent ==
    ~torn => /\ BaselineOfNetwork
             /\ InferredFollows
             /\ ram.inferred => ram.esp.prefix # NoPrefix

Inductive == TypeOK /\ TargetSelected /\ Stored /\ OldTargetKept /\ Coherent

\* HelperHeard is inductive with this: until millis() comes round, the age of
\* a report is the true time since.
AgeIsTrue == reported /\ quiet < Wrap => age = quiet
=============================================================================
