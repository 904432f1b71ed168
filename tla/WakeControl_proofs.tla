------------------------ MODULE WakeControl_proofs ------------------------
(***************************************************************************)
(* WakeControl for any browsers, passwords and lengths of the hold: a      *)
(* stranger gets nowhere, the relay is never left closed, the password is  *)
(* the one that a restart finds, a reset is complete after the restart,    *)
(* and a hold that slipped resets nothing.  The inductive invariant adds   *)
(* that cookies are only given to those who had a password of the board.   *)
(***************************************************************************)
EXTENDS WakeControl, TLAPS

USE DEF Sha256Hex

\* The earliest of two times.
LEMMA MinOfTwo ==
    ASSUME NEW a \in Nat, NEW b \in Nat
    PROVE  Min({a, b}) = IF a <= b THEN a ELSE b
  <1> DEFINE m == IF a <= b THEN a ELSE b
  <1>1. m \in {a, b} /\ \A y \in {a, b} : m =< y
    OBVIOUS
  <1>2. \A x \in {a, b} : (\A y \in {a, b} : x =< y) => x = m
    OBVIOUS
  <1> QED
    BY <1>1, <1>2 DEF Min

\* The time of a hold stays within the bound.
LEMMA LaterIsTime ==
    ASSUME TypeOK
    PROVE  Later \in 0 .. Hold
  <1>1. since + 1 \in Nat /\ Hold \in Nat
    BY ControlAssumption DEF TypeOK
  <1> QED
    BY <1>1, MinOfTwo DEF Later, TypeOK

\* A browser stays entitled: the board's past does not change.
LEMMA StaysEntitled ==
    ASSUME NEW b \in Browsers, Entitled(b), past \subseteq past'
    PROVE  Entitled(b)'
  BY DEF Entitled

\* Those who pass the test of the configuration page had a password.
LEMMA PageNeedsPassword ==
    ASSUME Inductive, NEW b \in Browsers, IsConfigPageAuthorized(b)
    PROVE  Entitled(b)
  BY DEF Inductive, TypeOK, CookiesEarned, IsConfigPageAuthorized, Entitled

\* Those who pass the test of the commands know the password.
LEMMA CommandNeedsPassword ==
    ASSUME Inductive, NEW b \in Browsers, NEW method,
           NEW p \in Knows[b] \cup {Blank}, CheckActionAuthorized(method, p)
    PROVE  Entitled(b)
  BY DEF Inductive, TypeOK, NeverBlank, CheckActionAuthorized, Entitled

\* A step that leaves the password and Preferences alone, or is at a place where
\* they are being changed, and gives no cookie.
LEMMA PasswordKept ==
    ASSUME Inductive, UNCHANGED <<hash, nvsHash, facReset, cookie, past, acted>>,
           pc' \in {"saving", "clearing"} \/
               (pc \notin {"saving", "clearing", "flagging", "restarting"}
                /\ pc' \notin {"flagging", "restarting"})
           \/ pc' = pc
    PROVE  /\ CookiesEarned' /\ NeverBlank' /\ Erased'
           /\ StrangersShutOut' /\ RestartKeepsPassword'
  BY DEF Inductive, CookiesEarned, Entitled, NeverBlank, Erased,
         StrangersShutOut, RestartKeepsPassword

-----------------------------------------------------------------------------
(* The initial state *)

LEMMA InitHolds == Init => Inductive
  <1> SUFFICES ASSUME Init PROVE Inductive
    OBVIOUS
  <1>1. nvsHash \in Hashes \cup {Absent} /\ hash \in Hashes
        /\ hash # Blank /\ nvsHash # Blank
    BY ControlAssumption DEF Init, Loaded, Hashes
  <1>2. TypeOK
    <2>1. 0 \in Tokens /\ 0 \in 0 .. Hold /\ 0 \in 0 .. 0
      BY ControlAssumption DEF Tokens
    <2>2. cookie \in [Browsers -> 0 .. issued]
      BY <2>1 DEF Init
    <2>3. /\ {facReset, button, booted, detected, moved, slipped, heldUp}
                 \subseteq BOOLEAN
          /\ past \subseteq Hashes /\ hash \in past /\ acted \subseteq Browsers
      BY <1>1 DEF Init
    <2>4. /\ {session, issued} \subseteq Tokens /\ session <= issued
          /\ since \in 0 .. Hold
      BY <2>1 DEF Init
    <2>5. relay = "open" /\ alexa = "idle" /\ pc = "button"
      BY DEF Init
    <2> QED
      BY <1>1, <2>2, <2>3, <2>4, <2>5 DEF TypeOK
  <1> QED
    BY <1>1, <1>2 DEF Init, Inductive, CookiesEarned, NeverBlank, Erased,
       Slipping, StrangersShutOut, RelayOpenBetween, Pressing, RestartKeepsPassword

-----------------------------------------------------------------------------
(* Handlers *)

LEMMA NothingStep ==
    ASSUME Inductive, pc = "http", Nothing
    PROVE  Inductive'
  <1>1. pc' = "button" /\ UNCHANGED <<hash, session, issued, nvsHash, facReset,
            cookie, relay, alexa, booted, detected, since, button, moved, slipped,
            heldUp, past, acted>>
    BY DEF Nothing, auth, nvs, switch, monitor, user, history
  <1>2. TypeOK' /\ Slipping' /\ RelayOpenBetween'
    BY <1>1 DEF Inductive, TypeOK, Slipping, RelayOpenBetween, Pressing
  <1> QED
    BY <1>1, <1>2, PasswordKept DEF Inductive

\* Whoever has achieved something was entitled to it.
LEMMA ReachedHolds ==
    ASSUME Inductive, NEW b \in Browsers, Entitled(b), Reached(b),
           past \subseteq past'
    PROVE  acted' \subseteq Browsers /\ StrangersShutOut'
  <1>1. acted' = acted \cup {b} /\ acted \subseteq Browsers
    BY DEF Inductive, TypeOK, Reached
  <1>2. \A d \in acted : Entitled(d)
    BY DEF Inductive, StrangersShutOut, Entitled
  <1> QED
    BY <1>1, <1>2, StaysEntitled DEF StrangersShutOut, Entitled

LEMMA ShowStep ==
    ASSUME Inductive, pc = "http", NEW b \in Browsers, Show(b)
    PROVE  Inductive'
  <1>1. pc' = "button" /\ UNCHANGED <<hash, session, issued, nvsHash, facReset,
            cookie, relay, alexa, booted, detected, since, button, moved, slipped,
            heldUp, past>>
    BY DEF Show, auth, nvs, switch, monitor, user
  <1>2. acted' \subseteq Browsers /\ StrangersShutOut'
    <2>1. CASE IsConfigPageAuthorized(b)
      BY <1>1, <2>1, PageNeedsPassword, ReachedHolds DEF Show
    <2>2. CASE ~IsConfigPageAuthorized(b)
      BY <1>1, <2>2 DEF Show, Inductive, TypeOK, StrangersShutOut
    <2> QED
      BY <2>1, <2>2
  <1>3. TypeOK' /\ Slipping' /\ RelayOpenBetween'
    BY <1>1, <1>2 DEF Inductive, TypeOK, Slipping, RelayOpenBetween, Pressing
  <1>4. CookiesEarned' /\ NeverBlank' /\ Erased' /\ RestartKeepsPassword'
    BY <1>1 DEF Inductive, CookiesEarned, Entitled, NeverBlank, Erased,
                RestartKeepsPassword
  <1> QED
    BY <1>2, <1>3, <1>4 DEF Inductive

LEMMA LoginStep ==
    ASSUME Inductive, pc = "http", NEW b \in Browsers,
           NEW p \in Knows[b] \cup {Blank}, HandleLogin(b, p)
    PROVE  Inductive'
  <1>1. CASE hash # NoHash /\ p # hash
    BY <1>1, NothingStep DEF HandleLogin
  <1>2. CASE ~(hash # NoHash /\ p # hash)
    <2>1. /\ pc' = "button" /\ issued < MaxLogins
          /\ issued' = issued + 1 /\ session' = issued + 1
          /\ cookie' = [cookie EXCEPT ![b] = issued + 1]
          /\ UNCHANGED <<hash, nvsHash, facReset, relay, alexa, booted, detected, since,
                         button, moved, slipped, heldUp, past, acted>>
      BY <1>2 DEF HandleLogin, nvs, switch, monitor, user, history
    <2>2. Entitled(b)
      BY <1>2 DEF Inductive, TypeOK, NeverBlank, Entitled
    <2>3. issued \in Nat /\ MaxLogins \in Nat
      BY ControlAssumption DEF Inductive, TypeOK, Tokens
    <2>4. cookie \in [Browsers -> 0 .. issued]
      BY DEF Inductive, TypeOK
    <2>5. cookie' \in [Browsers -> 0 .. issued']
      BY <2>1, <2>3, <2>4
    <2>6. {session', issued'} \subseteq Tokens /\ session' <= issued'
      BY <2>1, <2>3 DEF Tokens
    <2>7. TypeOK'
      BY <2>1, <2>5, <2>6 DEF Inductive, TypeOK
    <2>8. CookiesEarned'
      <3>1. \A d \in Browsers : d # b => cookie'[d] = cookie[d]
        BY <2>1, <2>4
      <3> QED
        BY <2>1, <2>2, <3>1 DEF Inductive, CookiesEarned, Entitled
    <2>9. /\ NeverBlank' /\ Erased' /\ Slipping' /\ StrangersShutOut'
          /\ RelayOpenBetween' /\ RestartKeepsPassword'
      BY <2>1 DEF Inductive, NeverBlank, Erased, Slipping, StrangersShutOut,
                  RelayOpenBetween, Pressing, RestartKeepsPassword
    <2> QED
      BY <2>7, <2>8, <2>9 DEF Inductive
  <1> QED
    BY <1>1, <1>2

LEMMA SaveConfigStep ==
    ASSUME Inductive, pc = "http", NEW b \in Browsers, NEW remove \in BOOLEAN,
           NEW p \in Knows[b] \cup {Blank}, HandleSaveConfig(b, remove, p)
    PROVE  Inductive'
  <1>1. CASE ~IsConfigPageAuthorized(b)
    BY <1>1, NothingStep DEF HandleSaveConfig
  <1>2. CASE IsConfigPageAuthorized(b)
    <2>1. /\ hash' = HashAfterSave(remove, p) /\ past' = past \cup {hash'}
          /\ pc' = "saving" /\ Reached(b)
          /\ UNCHANGED <<session, issued, nvsHash, facReset, cookie, relay,
                         alexa, booted, detected, since, button, moved,
                         slipped, heldUp>>
      BY <1>2 DEF HandleSaveConfig, nvs, switch, monitor, user
    <2>2. hash' \in Hashes /\ hash' # Blank
      BY <2>1, ControlAssumption
         DEF HashAfterSave, Hashes, Inductive, TypeOK, NeverBlank
    <2>3. acted' \subseteq Browsers /\ StrangersShutOut'
      BY <1>2, <2>1, PageNeedsPassword, ReachedHolds
    <2>4. TypeOK'
      BY <2>1, <2>2, <2>3 DEF Inductive, TypeOK
    <2>5. CookiesEarned'
      BY <2>1 DEF Inductive, CookiesEarned, Entitled
    <2>6. /\ NeverBlank' /\ Erased' /\ Slipping' /\ RelayOpenBetween'
          /\ RestartKeepsPassword'
      BY <2>1, <2>2 DEF Inductive, NeverBlank, Erased, Slipping,
                        RelayOpenBetween, Pressing, RestartKeepsPassword
    <2> QED
      BY <2>3, <2>4, <2>5, <2>6 DEF Inductive
  <1> QED
    BY <1>1, <1>2

\* The values in RAM are forgotten; Preferences are next.
LEMMA ClearRamHolds ==
    ASSUME Inductive, ClearRam, pc \in {"http", "button"}
    PROVE  /\ hash' \in Hashes /\ past' \subseteq Hashes /\ hash' \in past'
           /\ past \subseteq past'
           /\ {session', issued'} \subseteq Tokens /\ session' <= issued'
           /\ cookie' \in [Browsers -> 0 .. issued']
           /\ CookiesEarned' /\ NeverBlank' /\ Erased' /\ RelayOpenBetween'
           /\ RestartKeepsPassword'
  <1>1. /\ hash' = Default /\ past' = past \cup {Default} /\ session' = 0
        /\ pc' = "clearing"
        /\ UNCHANGED <<issued, nvsHash, facReset, cookie, relay, alexa>>
    BY DEF ClearRam, nvs, switch
  <1>2. Default \in Hashes /\ Default # Blank
    BY ControlAssumption DEF Hashes
  <1>3. issued \in Nat /\ 0 \in Tokens /\ 0 <= issued
    BY ControlAssumption DEF Inductive, TypeOK, Tokens
  <1> QED
    BY <1>1, <1>2, <1>3 DEF Inductive, TypeOK, CookiesEarned, Entitled,
       NeverBlank, Erased, RelayOpenBetween, Pressing, RestartKeepsPassword

\* A handler that resets the configuration.
LEMMA ResetStep ==
    ASSUME Inductive, pc = "http", NEW b \in Browsers, Entitled(b), Reached(b),
           ClearRam, UNCHANGED <<monitor, user>>
    PROVE  Inductive'
  <1>1. UNCHANGED <<booted, detected, since, button, moved, slipped, heldUp,
                    nvsHash, facReset, relay, alexa>> /\ pc' = "clearing"
    BY DEF monitor, user, ClearRam, nvs, switch
  <1>2. acted' \subseteq Browsers /\ StrangersShutOut'
    BY ClearRamHolds, ReachedHolds
  <1>3. TypeOK'
    BY <1>1, <1>2, ClearRamHolds DEF Inductive, TypeOK
  <1>4. Slipping'
    BY <1>1 DEF Inductive, Slipping
  <1> QED
    BY <1>2, <1>3, <1>4, ClearRamHolds DEF Inductive

LEMMA ConfigResetStep ==
    ASSUME Inductive, pc = "http", NEW b \in Browsers, HandleConfigReset(b)
    PROVE  Inductive'
  <1>1. CASE ~IsConfigPageAuthorized(b)
    BY <1>1, NothingStep DEF HandleConfigReset
  <1>2. CASE IsConfigPageAuthorized(b)
    BY <1>2, PageNeedsPassword, ResetStep DEF HandleConfigReset
  <1> QED
    BY <1>1, <1>2

\* Pressing the button leaves everything else as it is.
LEMMA PressHolds ==
    ASSUME Inductive, pc = "http", NEW next \in {"pressing", "forcing"},
           Press(next), acted' \subseteq Browsers, StrangersShutOut'
    PROVE  Inductive'
  <1>1. /\ relay' = "closed" /\ pc' = next
        /\ UNCHANGED <<hash, session, issued, nvsHash, facReset, cookie, alexa,
                       booted, detected, since, button, moved, slipped, heldUp,
                       past>>
    BY DEF Press, auth, nvs, monitor, user
  <1>2. TypeOK' /\ Slipping' /\ RelayOpenBetween'
    BY <1>1 DEF Inductive, TypeOK, Slipping, RelayOpenBetween, Pressing
  <1>3. CookiesEarned' /\ NeverBlank' /\ Erased' /\ RestartKeepsPassword'
    BY <1>1 DEF Inductive, CookiesEarned, Entitled, NeverBlank, Erased,
                RestartKeepsPassword
  <1> QED
    BY <1>2, <1>3 DEF Inductive

LEMMA CommandStep ==
    ASSUME Inductive, pc = "http", NEW b \in Browsers, NEW cmd, NEW method,
           NEW p \in Knows[b] \cup {Blank}, HandleCommand(b, cmd, method, p)
    PROVE  Inductive'
  <1>1. CASE ~CheckActionAuthorized(method, p)
    BY <1>1, NothingStep DEF HandleCommand
  <1>2. CASE CheckActionAuthorized(method, p)
    <2>1. Entitled(b) /\ Reached(b)
      BY <1>2, CommandNeedsPassword DEF HandleCommand
    <2>2. ASSUME NEW next \in {"pressing", "forcing"}, Press(next)
          PROVE  Inductive'
      <3>1. past' = past
        BY <2>2 DEF Press
      <3>2. acted' \subseteq Browsers /\ StrangersShutOut'
        BY <2>1, <3>1, ReachedHolds
      <3> QED
        BY <2>2, <3>2, PressHolds
    <2>3. CASE ClearRam /\ UNCHANGED <<monitor, user>>
      BY <2>1, <2>3, ResetStep
    <2>4. CASE /\ pc' = "button"
               /\ UNCHANGED <<auth, nvs, cookie, switch, monitor, user, past>>
      <3>1. pc' = "button" /\ UNCHANGED <<hash, session, issued, nvsHash,
                facReset, cookie, relay, alexa, booted, detected, since, button, moved,
                slipped, heldUp, past>>
        BY <2>4 DEF auth, nvs, switch, monitor, user
      <3>2. acted' \subseteq Browsers /\ StrangersShutOut'
        BY <2>1, <3>1, ReachedHolds
      <3>3. TypeOK' /\ Slipping' /\ RelayOpenBetween'
        BY <3>1, <3>2 DEF Inductive, TypeOK, Slipping, RelayOpenBetween, Pressing
      <3>4. CookiesEarned' /\ NeverBlank' /\ Erased' /\ RestartKeepsPassword'
        BY <3>1 DEF Inductive, CookiesEarned, Entitled, NeverBlank, Erased,
                    RestartKeepsPassword
      <3> QED
        BY <3>2, <3>3, <3>4 DEF Inductive
    <2> QED
      BY <1>2, <2>2, <2>3, <2>4 DEF HandleCommand
  <1> QED
    BY <1>1, <1>2

LEMMA RequestStep ==
    ASSUME Inductive, NEW b \in Browsers, NEW method \in Methods,
           NEW path \in Paths, NEW p \in Knows[b] \cup {Blank},
           Request(b, method, path, p)
    PROVE  Inductive'
  <1>1. /\ pc = "http"
        /\ \/ HandleCommand(b, ResolveNode[<<method, path>>], method, p)
           \/ Show(b)
           \/ HandleLogin(b, p)
           \/ \E remove \in BOOLEAN : HandleSaveConfig(b, remove, p)
           \/ HandleConfigReset(b)
           \/ Nothing
    BY DEF Request
  <1> QED
    BY <1>1, CommandStep, ShowStep, LoginStep, SaveConfigStep, ConfigResetStep,
       NothingStep

-----------------------------------------------------------------------------
(* The board *)

LEMMA AlexaStep ==
    ASSUME Inductive, AlexaCommand \/ AlexaRelease
    PROVE  Inductive'
  <1>1. /\ \/ relay' = "closed" /\ alexa' = "pressing"
           \/ relay' = "open" /\ alexa' = "idle"
        /\ UNCHANGED <<hash, session, issued, nvsHash, facReset, cookie, pc,
                       booted, detected, since, button, moved, slipped, heldUp,
                       past, acted>>
    BY DEF AlexaCommand, AlexaRelease, auth, nvs, monitor, user, history
  <1>2. TypeOK' /\ Slipping'
    BY <1>1 DEF Inductive, TypeOK, Slipping
  <1>3. RelayOpenBetween'
    BY <1>1 DEF RelayOpenBetween, Pressing
  <1> QED
    BY <1>1, <1>2, <1>3, PasswordKept DEF Inductive

LEMMA ReleaseStep ==
    ASSUME Inductive, Release
    PROVE  Inductive'
  <1>1. /\ relay' = "open" /\ pc' = "button" /\ pc \in {"pressing", "forcing"}
        /\ UNCHANGED <<hash, session, issued, nvsHash, facReset, cookie, alexa,
                       booted, detected, since, button, moved, slipped, heldUp,
                       past, acted>>
    BY DEF Release, auth, nvs, monitor, user, history
  <1>2. TypeOK' /\ Slipping' /\ RelayOpenBetween'
    BY <1>1 DEF Inductive, TypeOK, Slipping, RelayOpenBetween, Pressing
  <1> QED
    BY <1>1, <1>2, PasswordKept DEF Inductive

\* Storing makes the password in RAM the one that a restart finds.
LEMMA StoreStep ==
    ASSUME Inductive, SaveConfig
    PROVE  Inductive'
  <1>1. /\ nvsHash' = hash /\ facReset' = FALSE /\ pc' = "button"
        /\ pc = "saving"
        /\ UNCHANGED <<hash, session, issued, cookie, relay, alexa, booted, detected,
                       since, button, moved, slipped, heldUp, past, acted>>
    BY DEF SaveConfig, auth, switch, monitor, user, history
  <1>2. hash \in Hashes /\ hash # Absent
    BY ControlAssumption DEF Inductive, TypeOK, Hashes
  <1>3. TypeOK' /\ Slipping' /\ RelayOpenBetween'
    BY <1>1, <1>2 DEF Inductive, TypeOK, Slipping, RelayOpenBetween, Pressing
  <1>4. /\ CookiesEarned' /\ NeverBlank' /\ Erased' /\ StrangersShutOut'
        /\ RestartKeepsPassword'
    BY <1>1, <1>2 DEF Inductive, CookiesEarned, Entitled, NeverBlank, Erased,
                      StrangersShutOut, RestartKeepsPassword, Loaded
  <1> QED
    BY <1>3, <1>4 DEF Inductive

\* Both steps of a reset leave Preferences without a password.
LEMMA EraseStep ==
    ASSUME Inductive, ClearPreferences \/ FlagReset
    PROVE  Inductive'
  <1>1. /\ nvsHash' = Absent /\ facReset' \in BOOLEAN
        /\ pc' \in {"flagging", "restarting"} /\ pc \in {"clearing", "flagging"}
        /\ UNCHANGED <<hash, session, issued, cookie, relay, alexa, booted, detected,
                       since, button, moved, slipped, heldUp, past, acted>>
    BY DEF ClearPreferences, FlagReset, Inductive, Erased, auth, switch,
           monitor, user, history
  <1>2. Absent # Blank
    BY ControlAssumption
  <1>3. TypeOK' /\ Slipping' /\ RelayOpenBetween'
    BY <1>1 DEF Inductive, TypeOK, Slipping, RelayOpenBetween, Pressing
  <1>4. /\ CookiesEarned' /\ NeverBlank' /\ Erased' /\ StrangersShutOut'
        /\ RestartKeepsPassword'
    BY <1>1, <1>2 DEF Inductive, CookiesEarned, Entitled, NeverBlank, Erased,
                      StrangersShutOut, RestartKeepsPassword
  <1> QED
    BY <1>3, <1>4 DEF Inductive

\* A start finds a password that was stored, or none and takes the default one.
LEMMA BootStep ==
    ASSUME Inductive, Boot
    PROVE  Inductive'
  <1>1. /\ nvsHash' \in {nvsHash, Absent}
        /\ hash' = (IF nvsHash' = Absent THEN Default ELSE nvsHash')
        /\ past' = past \cup {hash'}
        /\ facReset' = FALSE /\ session' = 0 /\ relay' = "open"
        /\ alexa' = "idle" /\ booted' = FALSE /\ detected' = FALSE /\ since' = 0
        /\ moved' = FALSE /\ slipped' = FALSE /\ heldUp' = FALSE
        /\ pc' = "button"
        /\ UNCHANGED <<issued, cookie, button, acted>>
    BY DEF Boot, Loaded
  <1>2. nvsHash' \in Hashes \cup {Absent} /\ nvsHash' # Blank
    BY <1>1, ControlAssumption DEF Inductive, TypeOK, NeverBlank
  <1>3. hash' \in Hashes /\ hash' # Blank /\ hash' # Absent
    BY <1>1, <1>2, ControlAssumption DEF Hashes
  <1>4. 0 \in Tokens /\ 0 <= issued /\ 0 \in 0 .. Hold
    BY ControlAssumption DEF Inductive, TypeOK, Tokens
  <1>5. TypeOK'
    BY <1>1, <1>2, <1>3, <1>4 DEF Inductive, TypeOK
  <1>6. Slipping' /\ RelayOpenBetween' /\ Erased' /\ NeverBlank'
    BY <1>1, <1>2, <1>3 DEF Slipping, RelayOpenBetween, Pressing, Erased, NeverBlank
  <1>7. CookiesEarned' /\ StrangersShutOut'
    BY <1>1 DEF Inductive, CookiesEarned, Entitled, StrangersShutOut
  <1>8. RestartKeepsPassword'
    BY <1>1 DEF RestartKeepsPassword, Loaded
  <1> QED
    BY <1>5, <1>6, <1>7, <1>8 DEF Inductive

\* Looking at the button: the hold begins, goes on or is forgotten.
LEMMA LookStep ==
    ASSUME Inductive, FirstLookHeld \/ SeesReleased \/ SeesHeld
    PROVE  Inductive'
  <1>1. /\ pc = "button" /\ pc' = "http" /\ moved' = FALSE
        /\ UNCHANGED <<hash, session, issued, nvsHash, facReset, cookie, relay,
                       alexa, button, past, acted>>
    BY DEF FirstLookHeld, SeesReleased, SeesHeld, auth, nvs, switch, history
  <1>2. /\ {booted', detected', slipped', heldUp'} \subseteq BOOLEAN
        /\ since' \in 0 .. Hold
    <2>1. 0 \in 0 .. Hold
      BY ControlAssumption
    <2>2. TypeOK
      BY DEF Inductive
    <2>3. CASE FirstLookHeld
      BY <2>2, <2>3 DEF FirstLookHeld, TypeOK
    <2>4. CASE SeesReleased
      BY <2>1, <2>2, <2>4 DEF SeesReleased, TypeOK
    <2>5. CASE SeesHeld
      BY <2>1, <2>2, <2>5, LaterIsTime DEF SeesHeld, TypeOK
    <2> QED
      BY <2>3, <2>4, <2>5
  <1>3. TypeOK' /\ RelayOpenBetween'
    BY <1>1, <1>2 DEF Inductive, TypeOK, RelayOpenBetween, Pressing
  <1>4. Slipping'
    <2>1. Slipping
      BY DEF Inductive
    <2>2. CASE FirstLookHeld
      BY <1>1, <2>1, <2>2 DEF FirstLookHeld, Slipping
    <2>3. CASE SeesReleased
      BY <1>1, <2>1, <2>3 DEF SeesReleased, Slipping
    <2>4. CASE SeesHeld
      BY <1>1, <2>1, <2>4 DEF SeesHeld, Slipping
    <2> QED
      BY <2>2, <2>3, <2>4
  <1> QED
    BY <1>1, <1>3, <1>4, PasswordKept DEF Inductive

LEMMA HeldLongStep ==
    ASSUME Inductive, SeesHeldLong
    PROVE  Inductive'
  <1>1. /\ ClearRam /\ pc = "button" /\ since' = Hold
        /\ UNCHANGED <<booted, detected, button, moved, slipped, heldUp, acted,
                       facReset, nvsHash, relay, alexa>>
        /\ pc' = "clearing"
    BY DEF SeesHeldLong, ClearRam, user, nvs, switch
  <1>2. Hold \in 0 .. Hold
    BY ControlAssumption
  <1>3. past \subseteq past'
    BY <1>1, ClearRamHolds
  <1>4. TypeOK'
    BY <1>1, <1>2, ClearRamHolds DEF Inductive, TypeOK
  <1>5. StrangersShutOut' /\ Slipping'
    BY <1>1, <1>3 DEF Inductive, StrangersShutOut, Slipping
  <1> QED
    BY <1>1, <1>4, <1>5, ClearRamHolds DEF Inductive

LEMMA DelayedStep ==
    ASSUME Inductive, Delayed
    PROVE  Inductive'
  <1>1. /\ since' = Later /\ heldUp' = TRUE /\ moved' = FALSE
        /\ UNCHANGED <<hash, session, issued, nvsHash, facReset, cookie, relay,
                       alexa, pc, booted, detected, button, slipped, past, acted>>
    BY DEF Delayed, auth, nvs, switch, history
  <1>2. TypeOK'
    BY <1>1, LaterIsTime DEF Inductive, TypeOK
  <1>3. Slipping' /\ RelayOpenBetween'
    BY <1>1 DEF Inductive, TypeOK, Slipping, RelayOpenBetween, Pressing
  <1> QED
    BY <1>1, <1>2, <1>3, PasswordKept DEF Inductive

LEMMA MoveButtonStep ==
    ASSUME Inductive, MoveButton
    PROVE  Inductive'
  <1>1. /\ ~moved /\ button' = ~button /\ moved' = detected
        /\ slipped' = (slipped \/ (detected /\ button))
        /\ UNCHANGED <<hash, session, issued, nvsHash, facReset, cookie, relay,
                       alexa, pc, booted, detected, since, heldUp, past, acted>>
    BY DEF MoveButton, auth, nvs, switch, monitor, history
  <1>2. TypeOK' /\ RelayOpenBetween'
    BY <1>1 DEF Inductive, TypeOK, RelayOpenBetween, Pressing
  <1>3. Slipping'
    BY <1>1 DEF Inductive, TypeOK, Slipping
  <1> QED
    BY <1>1, <1>2, <1>3, PasswordKept DEF Inductive

LEMMA StutterStep ==
    ASSUME Inductive, UNCHANGED vars
    PROVE  Inductive'
  <1>1. UNCHANGED <<hash, session, issued, nvsHash, facReset, cookie, relay, alexa, pc,
                    booted, detected, since, button, moved, slipped, heldUp,
                    past, acted>>
    BY DEF vars, auth, nvs, switch, monitor, user, history
  <1>2. TypeOK' /\ Slipping' /\ RelayOpenBetween'
    BY <1>1 DEF Inductive, TypeOK, Slipping, RelayOpenBetween, Pressing
  <1> QED
    BY <1>1, <1>2, PasswordKept DEF Inductive

LEMMA NextStep == Inductive /\ [Next]_vars => Inductive'
  <1> SUFFICES ASSUME Inductive, [Next]_vars PROVE Inductive'
    OBVIOUS
  <1>1. CASE Look
    BY <1>1, LookStep, HeldLongStep DEF Look
  <1>2. CASE NoRequest
    BY <1>2, NothingStep DEF NoRequest
  <1>3. CASE Release
    BY <1>3, ReleaseStep
  <1>4. CASE SaveConfig
    BY <1>4, StoreStep
  <1>5. CASE ClearPreferences \/ FlagReset
    BY <1>5, EraseStep
  <1>6. CASE Restart \/ PowerFails
    BY <1>6, BootStep DEF Restart, PowerFails
  <1>7. CASE \E b \in Browsers, method \in Methods, path \in Paths :
                 \E p \in Knows[b] \cup {Blank} : Request(b, method, path, p)
    BY <1>7, RequestStep
  <1>8. CASE AlexaCommand \/ AlexaRelease
    BY <1>8, AlexaStep
  <1>9. CASE Delayed
    BY <1>9, DelayedStep
  <1>10. CASE MoveButton
    BY <1>10, MoveButtonStep
  <1>11. CASE UNCHANGED vars
    BY <1>11, StutterStep
  <1> QED
    BY <1>1, <1>2, <1>3, <1>4, <1>5, <1>6, <1>7, <1>8, <1>9, <1>10, <1>11
       DEF Next, Board

-----------------------------------------------------------------------------
(* Theorems *)

\* The inductive invariant holds of every reachable state.
THEOREM InductiveInvariant == Spec => []Inductive
  BY InitHolds, NextStep, PTL DEF Spec

\* The variables of the board, the browsers and the button keep their types.
THEOREM TypeCorrect == Spec => []TypeOK
  <1>1. Inductive => TypeOK
    BY DEF Inductive
  <1> QED
    BY <1>1, InductiveInvariant, PTL

\* Whoever knows no password the board has had presses, changes and sees
\* nothing, however many others log in, save and reset meanwhile.
THEOREM StrangersStayOut == Spec => []StrangersShutOut
  <1>1. Inductive => StrangersShutOut
    BY DEF Inductive
  <1> QED
    BY <1>1, InductiveInvariant, PTL

\* However the presses of loop()'s handlers and of the Alexa bridge's task
\* overlap, and wherever a restart or power failure falls, the PC's power button
\* is pressed only while one of the two is waiting to release it.
THEOREM RelayIsReleased == Spec => []RelayOpenBetween
  <1>1. Inductive => RelayOpenBetween
    BY DEF Inductive
  <1> QED
    BY <1>1, InductiveInvariant, PTL

\* The password in force is the one that a restart finds, outside the handlers
\* that are changing it.
THEOREM PasswordIsStored == Spec => []RestartKeepsPassword
  <1>1. Inductive => RestartKeepsPassword
    BY DEF Inductive
  <1> QED
    BY <1>1, InductiveInvariant, PTL

\* Once Preferences are cleared, the next start has the default password and no
\* session, whether the flag was written or not.
THEOREM ResetIsComplete == Spec => ResetForgets
  <1>1. Inductive /\ [Next]_vars =>
            [(pc \in {"flagging", "restarting"} /\ pc' = "button") => Forgotten']_vars
    <2> SUFFICES ASSUME Inductive, Next, pc \in {"flagging", "restarting"},
                        pc' = "button"
                 PROVE  Forgotten'
      BY DEF Inductive
    <2>1. nvsHash = Absent
      BY DEF Inductive, Erased
    <2>2. Boot
      BY DEF Next, Board, Look, FirstLookHeld, SeesReleased, SeesHeld,
             SeesHeldLong, NoRequest, Release, SaveConfig, ClearPreferences,
             FlagReset, Restart, PowerFails, Request, AlexaCommand,
             AlexaRelease, Delayed, MoveButton
    <2> QED
      BY <2>1, <2>2 DEF Boot, Loaded, Forgotten
  <1> QED
    BY <1>1, InductiveInvariant, PTL DEF Spec, ResetForgets

\* A hold that was interrupted erases nothing unless it was interrupted in a pass
\* of loop() that was held up, in which nobody looked at the button.
THEOREM SlippedHoldErasesNothing == Spec => ErasedByHold
  <1>1. Inductive /\ [Next]_vars => [SeesHeldLong => ~slipped \/ heldUp]_vars
    BY DEF Inductive, Slipping, SeesHeldLong
  <1> QED
    BY <1>1, InductiveInvariant, PTL DEF Spec, ErasedByHold
=============================================================================
