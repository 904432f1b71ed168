---------------------------- MODULE WakeControl ----------------------------
(***************************************************************************)
(* Who may press the PC's power button, change the configuration or erase  *)
(* it: the routes of src/main.cpp, the control password and the session of *)
(* the configuration page, the Alexa bridge and the board's reset button.  *)
(*                                                                         *)
(* One pass of loop() looks at the button, then lets the servers handle at *)
(* most one request; pc is where the pass is.  Anything in a pass may hold *)
(* it up for many seconds (a handler, a scan, a ping, a reconnection, the  *)
(* blinking), in which the power may fail and the user do anything with    *)
(* the button.  The Alexa bridge presses from a task of its own.           *)
(***************************************************************************)
EXTENDS Naturals, FiniteSets, FiniteSetsExt

CONSTANTS
    Browsers,
    Passwords,      \* everything a browser may submit as a password
    Blank,          \* the empty one, or none
    Default,        \* AP_PASSWORD
    Knows,          \* the passwords each browser has
    NoHash,         \* adminPasswordHash is empty: no control password
    Absent,         \* Preferences have no key
    MaxLogins,      \* bound: sessions issued
    Hold            \* RESET_HOLD_MS, in passes

ASSUME ControlAssumption ==
    /\ {Blank, Default} \subseteq Passwords /\ Blank # Default
    /\ Knows \in [Browsers -> SUBSET Passwords]
    /\ MaxLogins \in Nat /\ Hold \in Nat \ {0}
    /\ NoHash \notin Passwords /\ Absent \notin Passwords /\ Absent # NoHash

VARIABLES
    hash, session, issued,      \* adminPasswordHash, sessionToken, logins so far
    nvsHash, facReset,          \* Preferences: admin_pwd_hash, fac_rs_pd
    cookie,                     \* each browser's esp32auth
    relay, pc,
    alexa,                      \* what the bridge's task is doing
    button, booted,             \* the pin; bootInitialized
    detected, since,            \* holdDetected, time since holdStart
    moved, slipped, heldUp,     \* what happened between two looks of a hold
    past, acted                 \* history: hashes in force, who achieved what

auth    == <<hash, session, issued>>
nvs     == <<nvsHash, facReset>>
monitor == <<booted, detected, since>>
switch  == <<relay, alexa>>
user    == <<button, moved, slipped, heldUp>>
history == <<past, acted>>
vars    == <<auth, nvs, cookie, switch, pc, monitor, user, history>>

\* SHA-256 tells passwords apart, and no hash is empty.
Sha256Hex(p) == p

Tokens == 0 .. MaxLogins    \* 0: none

-----------------------------------------------------------------------------
(* Routes: buildRoutes and the servers' resolver *)

Methods == {"GET", "POST", "OPTIONS"}

Commands == [ status   |-> {"status", "/stt"},
              wake     |-> {"/wake", "/pw"},
              shutdown |-> {"/shutdown", "/sd", "/fsd"},
              reset    |-> {"/reset", "/api/reset", "/rs"} ]

Pages == { <<"GET", "/", "root">>,
           <<"GET", "/certificate-check", "certificate">>,
           <<"POST", "/login", "login">>,
           <<"POST", "/api/config", "save">>,
           <<"POST", "/api/config/reset", "configReset">>,
           <<"GET", "/api/network", "network">>,
           <<"GET", "/api/scan", "scan">>,
           <<"GET", "/generate_204", "probe">> }

CommandRoutes(cmd) ==
    { <<method, path, IF method = "OPTIONS" THEN "preflight" ELSE cmd>> :
      method \in Methods, path \in Commands[cmd] }

Routes == Pages \cup UNION {CommandRoutes(cmd) : cmd \in DOMAIN Commands}

\* What a browser asks for: the registered paths and the documented /status,
\* which is registered without its slash and so is not found.
Paths == ({"/status"} \cup {route[2] : route \in Routes}) \ {"status"}

\* The node with this method and path, or the default node.
ResolveNode ==
    [ asked \in Methods \X Paths |->
        LET matching == {r \in Routes : <<r[1], r[2]>> = asked}
        IN  IF matching = {} THEN "captivePortal"
                             ELSE (CHOOSE r \in matching : TRUE)[3] ]

-----------------------------------------------------------------------------
(* Authorisation *)

\* Mutant: without a session no cookie is as good as the session's.
IsConfigPageAuthorizedEmpty(b) == hash = NoHash \/ cookie[b] = session

IsConfigPageAuthorized(b) ==
    \/ hash = NoHash
    \/ session # 0 /\ cookie[b] = session

\* The method must be the one for a board with, or without, a password.
CheckActionAuthorized(method, p) ==
    IF hash = NoHash THEN method = "GET"
                     ELSE method = "POST" /\ Sha256Hex(p) = hash

\* The control password after a save: removing it sets the default one, and so
\* does any save on a board without one.
HashAfterSave(remove, p) ==
    IF remove \/ hash = NoHash THEN Sha256Hex(Default)
    ELSE IF p # Blank THEN Sha256Hex(p)
    ELSE hash

\* Mutant: Preferences are read without a default.
LoadedPlain(stored) == stored

Loaded(stored) == IF stored = Absent THEN Sha256Hex(Default) ELSE stored

Reached(b) == acted' = acted \cup {b}

-----------------------------------------------------------------------------
(* Handlers.  "Nothing" is an answer that changes nothing. *)

Nothing ==
    /\ pc' = "button"
    /\ UNCHANGED <<auth, nvs, cookie, switch, monitor, user, history>>

\* The pages of the configuration: shown with a session, else the login page
\* or 401.
Show(b) ==
    /\ IF IsConfigPageAuthorized(b) THEN Reached(b) ELSE UNCHANGED acted
    /\ pc' = "button"
    /\ UNCHANGED <<auth, nvs, cookie, switch, monitor, user, past>>

HandleLogin(b, p) ==
    IF hash # NoHash /\ Sha256Hex(p) # hash THEN Nothing ELSE
    /\ issued < MaxLogins
    /\ issued' = issued + 1
    /\ session' = issued'
    /\ cookie' = [cookie EXCEPT ![b] = session']
    /\ pc' = "button"
    /\ UNCHANGED <<hash, nvs, switch, monitor, user, history>>

\* The form changes the hash in RAM; it may then take long to connect.
HandleSaveConfig(b, remove, p) ==
    IF ~IsConfigPageAuthorized(b) THEN Nothing ELSE
    /\ hash' = HashAfterSave(remove, p)
    /\ past' = past \cup {hash'}
    /\ Reached(b)
    /\ pc' = "saving"
    /\ UNCHANGED <<session, issued, nvs, cookie, switch, monitor, user>>

Press(next) ==
    /\ relay' = "closed"
    /\ pc' = next
    /\ UNCHANGED <<auth, nvs, cookie, alexa, monitor, user, past>>

\* clearSavedConfig: RAM first, then Preferences.
ClearRam ==
    /\ hash' = Sha256Hex(Default)
    /\ past' = past \cup {hash'}
    /\ session' = 0
    /\ pc' = "clearing"
    /\ UNCHANGED <<issued, nvs, cookie, switch>>

HandleConfigReset(b) ==
    IF ~IsConfigPageAuthorized(b) THEN Nothing ELSE
    Reached(b) /\ ClearRam /\ UNCHANGED <<monitor, user>>

\* handleWake, handleShutdown, handleReset, handleStatus.
HandleCommand(b, cmd, method, p) ==
    IF ~CheckActionAuthorized(method, p) THEN Nothing ELSE
    /\ Reached(b)
    /\ \/ cmd = "wake" /\ Press("pressing")
       \/ cmd = "shutdown" /\ Press("forcing")
       \/ cmd = "reset" /\ ClearRam /\ UNCHANGED <<monitor, user>>
       \/ /\ cmd = "status"
          /\ pc' = "button"
          /\ UNCHANGED <<auth, nvs, cookie, switch, monitor, user, past>>

\* One request.  A form the save handler finds invalid changes nothing.
Request(b, method, path, p) ==
    /\ pc = "http"
    /\ LET handler == ResolveNode[<<method, path>>]
       IN  \/ handler \in DOMAIN Commands /\ HandleCommand(b, handler, method, p)
           \/ handler \in {"root", "network"} /\ Show(b)
           \/ handler = "login" /\ HandleLogin(b, p)
           \/ /\ handler = "save"
              /\ \/ \E remove \in BOOLEAN : HandleSaveConfig(b, remove, p)
                 \/ Nothing
           \/ handler = "configReset" /\ HandleConfigReset(b)
           \/ /\ handler \in {"certificate", "scan", "probe", "preflight",
                              "captivePortal"}
              /\ Nothing

NoRequest == pc = "http" /\ Nothing

\* Mutant: the relay is left closed.
ReleaseNothing ==
    /\ pc \in {"pressing", "forcing"}
    /\ pc' = "button"
    /\ UNCHANGED <<auth, nvs, cookie, switch, monitor, user, history>>

\* delay() is over, after 300 ms or after 7 s.
Release ==
    /\ pc \in {"pressing", "forcing"}
    /\ relay' = "open"
    /\ pc' = "button"
    /\ UNCHANGED <<auth, nvs, cookie, alexa, monitor, user, history>>

\* The bridge's callback presses in the task of the bridge, beside loop() and
\* its handlers: the two switch one relay.  "On" presses for 300 ms, "off" for
\* 7 s.  It asks for no password: whoever is on the LAN may call it.
AlexaCommand ==
    /\ alexa = "idle"
    /\ alexa' = "pressing"
    /\ relay' = "closed"
    /\ UNCHANGED <<auth, nvs, cookie, pc, monitor, user, history>>

AlexaRelease ==
    /\ alexa # "idle"
    /\ alexa' = "idle"
    /\ relay' = "open"
    /\ UNCHANGED <<auth, nvs, cookie, pc, monitor, user, history>>

\* Mutant: the hash is not stored with the rest.
SaveConfigWithoutHash ==
    /\ pc = "saving"
    /\ facReset' = FALSE
    /\ pc' = "button"
    /\ UNCHANGED <<auth, nvsHash, cookie, switch, monitor, user, history>>

SaveConfig ==
    /\ pc = "saving"
    /\ nvsHash' = hash
    /\ facReset' = FALSE
    /\ pc' = "button"
    /\ UNCHANGED <<auth, cookie, switch, monitor, user, history>>

\* preferences.clear(), and the flag that the next start is to see.
ClearPreferences ==
    /\ pc = "clearing"
    /\ nvsHash' = Absent
    /\ facReset' = FALSE
    /\ pc' = "flagging"
    /\ UNCHANGED <<auth, cookie, switch, monitor, user, history>>

FlagReset ==
    /\ pc = "flagging"
    /\ facReset' = TRUE
    /\ pc' = "restarting"
    /\ UNCHANGED <<auth, nvsHash, cookie, switch, monitor, user, history>>

\* Mutant: the flag is not removed by the start that has seen it.
BootFlagged ==
    /\ nvsHash' = IF facReset THEN Absent ELSE nvsHash
    /\ facReset' = facReset
    /\ hash' = Loaded(nvsHash')
    /\ past' = past \cup {hash'}
    /\ session' = 0
    /\ relay' = "open" /\ alexa' = "idle"
    /\ booted' = FALSE /\ detected' = FALSE /\ since' = 0
    /\ moved' = FALSE /\ slipped' = FALSE /\ heldUp' = FALSE
    /\ pc' = "button"
    /\ UNCHANGED <<issued, cookie, button, acted>>

\* setup(), after a restart or a power failure.
Boot ==
    /\ nvsHash' = IF facReset THEN Absent ELSE nvsHash
    /\ facReset' = FALSE
    /\ hash' = Loaded(nvsHash')
    /\ past' = past \cup {hash'}
    /\ session' = 0
    /\ relay' = "open" /\ alexa' = "idle"
    /\ booted' = FALSE /\ detected' = FALSE /\ since' = 0
    /\ moved' = FALSE /\ slipped' = FALSE /\ heldUp' = FALSE
    /\ pc' = "button"
    /\ UNCHANGED <<issued, cookie, button, acted>>

Restart == pc = "restarting" /\ Boot

PowerFails == Boot

-----------------------------------------------------------------------------
(* The reset button: monitorFactoryResetHold *)

Later == Min({since + 1, Hold})

\* The first look after a start ignores a button that is held.
FirstLookHeld ==
    /\ pc = "button" /\ ~booted /\ button
    /\ booted' = TRUE
    /\ moved' = FALSE /\ heldUp' = FALSE
    /\ pc' = "http"
    /\ UNCHANGED <<auth, nvs, cookie, switch, button, detected, since, slipped,
                   history>>

\* Mutant: the hold is not forgotten when the button is seen released.
SeesReleasedGoesOn ==
    /\ pc = "button" /\ ~button
    /\ booted' = TRUE
    /\ moved' = FALSE /\ heldUp' = FALSE
    /\ pc' = "http"
    /\ UNCHANGED <<auth, nvs, cookie, switch, button, detected, since, slipped,
                   history>>

SeesReleased ==
    /\ pc = "button" /\ ~button
    /\ booted' = TRUE
    /\ detected' = FALSE
    /\ since' = 0
    /\ moved' = FALSE /\ slipped' = FALSE /\ heldUp' = FALSE
    /\ pc' = "http"
    /\ UNCHANGED <<auth, nvs, cookie, switch, button, history>>

\* Mutant: every look at the held button starts the hold anew.
SeesHeldAnew ==
    /\ pc = "button" /\ booted /\ button
    /\ detected' = TRUE
    /\ since' = 0
    /\ moved' = FALSE /\ heldUp' = FALSE
    /\ slipped' = (detected /\ slipped /\ ~heldUp)
    /\ pc' = "http"
    /\ UNCHANGED <<auth, nvs, cookie, switch, booted, button, history>>

\* The hold begins, or has not lasted RESET_HOLD_MS yet.  What slipped in a
\* pass that was held up is not held against the board any longer.
SeesHeld ==
    /\ pc = "button" /\ booted /\ button
    /\ detected => Later < Hold
    /\ detected' = TRUE
    /\ since' = IF detected THEN Later ELSE 0
    /\ moved' = FALSE /\ heldUp' = FALSE
    /\ slipped' = (detected /\ slipped /\ ~heldUp)
    /\ pc' = "http"
    /\ UNCHANGED <<auth, nvs, cookie, switch, booted, button, history>>

SeesHeldLong ==
    /\ pc = "button" /\ booted /\ button
    /\ detected /\ Later = Hold
    /\ ClearRam
    /\ since' = Hold
    /\ UNCHANGED <<booted, detected, user, acted>>

\* A pass of a hold is held up, wherever it is: delays, a save or a lost station
\* that connects, a scan, pings, the blinking LED, a TLS handshake, stop().
Delayed ==
    /\ detected
    /\ since' = Later
    /\ heldUp' = TRUE
    /\ moved' = FALSE
    /\ UNCHANGED <<auth, nvs, cookie, switch, pc, booted, detected, button,
                   slipped, history>>

\* In a pass of a hold that nothing holds up, which takes milliseconds, the user
\* moves the button once at most.
MoveButton ==
    /\ ~moved
    /\ button' = ~button
    /\ moved' = detected
    /\ slipped' = (slipped \/ (detected /\ button))
    /\ UNCHANGED <<auth, nvs, cookie, switch, pc, monitor, heldUp, history>>

-----------------------------------------------------------------------------
Init ==
    /\ nvsHash \in {Absent, NoHash} \cup {Sha256Hex(p) : p \in Passwords \ {Blank}}
    /\ facReset = FALSE
    /\ hash = Loaded(nvsHash)
    /\ past = {hash}
    /\ session = 0 /\ issued = 0
    /\ cookie = [b \in Browsers |-> 0]
    /\ relay = "open" /\ alexa = "idle" /\ pc = "button"
    /\ button = FALSE /\ booted = FALSE /\ detected = FALSE /\ since = 0
    /\ moved = FALSE /\ slipped = FALSE /\ heldUp = FALSE
    /\ acted = {}

Look == FirstLookHeld \/ SeesReleased \/ SeesHeld \/ SeesHeldLong

Board ==
    \/ Look \/ NoRequest
    \/ Release \/ SaveConfig \/ ClearPreferences \/ FlagReset \/ Restart

Next ==
    \/ Board
    \/ \E b \in Browsers, method \in Methods, path \in Paths :
           \E p \in Knows[b] \cup {Blank} : Request(b, method, path, p)
    \/ AlexaCommand \/ AlexaRelease
    \/ Delayed
    \/ MoveButton
    \/ PowerFails

Spec == Init /\ [][Next]_vars

\* loop() runs again and again, and every delay and connection attempt ends.
FairSpec == Spec /\ WF_vars(Board)

-----------------------------------------------------------------------------
(* Properties *)

Hashes == {NoHash} \cup {Sha256Hex(p) : p \in Passwords}

TypeOK ==
    /\ hash \in Hashes
    /\ nvsHash \in Hashes \cup {Absent}
    /\ {session, issued} \subseteq Tokens /\ session <= issued
    /\ cookie \in [Browsers -> 0 .. issued]
    /\ relay \in {"open", "closed"}
    /\ alexa \in {"idle", "pressing"}
    /\ pc \in {"button", "http", "pressing", "forcing", "saving", "clearing",
               "flagging", "restarting"}
    /\ {facReset, button, booted, detected, moved, slipped, heldUp}
           \subseteq BOOLEAN
    /\ since \in 0 .. Hold
    /\ past \subseteq Hashes /\ hash \in past
    /\ acted \subseteq Browsers

\* Whoever knows none of the passwords the board has had presses no button,
\* changes and erases nothing and sees no configuration, by any path and
\* method, while another logs in, changes the password, resets the board or
\* cuts its power - unless the board once had no password.
StrangersShutOut ==
    \A b \in acted : \/ NoHash \in past
                     \/ \E p \in Knows[b] : Sha256Hex(p) \in past

\* Two tasks switch the relay, and however their presses overlap with each
\* other, with resets and with power failures, the PC's power button is pressed
\* only while one of them waits to release it.
Pressing == pc \in {"pressing", "forcing"} \/ alexa # "idle"

RelayOpenBetween == relay = "closed" => Pressing

\* handleShutdown holds the relay for "7000" ms, handleWake for 300 ms.  A press
\* of the other task that ends meanwhile opens the relay: the shutdown is cut
\* short, and the PC keeps running.
PressLasts == pc \in {"pressing", "forcing"} => relay = "closed"

\* What protects the board now will protect it after a power failure, except
\* inside the save or the reset that is changing it.
RestartKeepsPassword ==
    pc \notin {"saving", "clearing", "flagging", "restarting"} =>
        ~facReset /\ Loaded(nvsHash) = hash

\* A factory reset that has touched Preferences is complete after the restart,
\* wherever the power failed: the default password, no session, no flag left.
Forgotten == hash = Sha256Hex(Default) /\ nvsHash = Absent /\ ~facReset /\ session = 0

ResetForgets ==
    [][(pc \in {"flagging", "restarting"} /\ pc' = "button") => Forgotten']_vars

\* Nothing is erased because of a button that was released and pressed again,
\* unless that happened in a pass of loop() that was held up, so that nobody
\* looked: a hold is not the sum of several, and a delay excuses only what
\* slipped in it.
ErasedByHold ==
    [][SeesHeldLong => ~slipped \/ heldUp]_vars

\* A button that stays down resets the board, whatever it was doing and whoever
\* else uses it, if the power stays on - and again after every restart, since
\* only the first look after a start ignores it.
HoldErases ==
    <>[]button /\ <>[][PowerFails => pc = "restarting"]_vars
        => []<>(pc = "clearing")

\* ESP32_API.md: remove_admin_password "clears the control password and
\* invalidates the current session".
RemovalEndsSession ==
    [][\A b \in Browsers, p \in Passwords :
           pc = "http" /\ pc' = "saving" /\ HandleSaveConfig(b, TRUE, p)
               => session' = 0]_vars

-----------------------------------------------------------------------------
(* What the proofs need beside the properties *)

\* The browser knows a password the board has had, or once needed none.
Entitled(b) ==
    \/ NoHash \in past
    \/ \E p \in Knows[b] : Sha256Hex(p) \in past

\* A cookie is only given to whoever had the password, and the empty password
\* never is one.
CookiesEarned == \A b \in Browsers : cookie[b] # 0 => Entitled(b)

NeverBlank == hash # Sha256Hex(Blank) /\ nvsHash # Sha256Hex(Blank)

\* What a reset has erased stays erased until the restart.
Erased == pc \in {"flagging", "restarting"} => nvsHash = Absent

\* A button that slipped unseen from a hold was not looked at since.
Slipping ==
    /\ slipped => detected
    /\ detected => booted
    /\ slipped /\ ~heldUp => moved /\ ~button

Inductive ==
    /\ TypeOK /\ CookiesEarned /\ NeverBlank /\ Erased /\ Slipping
    /\ StrangersShutOut /\ RelayOpenBetween /\ RestartKeepsPassword
=============================================================================
