----------------------------- MODULE UsbHelper -----------------------------
(***************************************************************************)
(* How the address of the PC reaches the board: the Windows helper opens   *)
(* the COM port for one transaction - WAKE_HELLO, WAKE_DEVICE, WAKE_NET,   *)
(* WAKE_ACK, all with the transaction's nonce - and closes it.  The line   *)
(* is ASCII without a checksum: a write may arrive whole, cut off before   *)
(* its LF (torn) or not at all, a reply may be lost, either side may       *)
(* restart, the board may be too busy to answer within the five seconds    *)
(* the helper waits, and what was sent before is still in the buffers      *)
(* when the port is opened again.                                          *)
(*                                                                         *)
(* An address is the pair <IPv4 or -, global IPv6 or -> of a WAKE_NET      *)
(* line.  The helper picks it by the tests the firmware accepts it by, with *)
(* the parsers of Windows; Refused are the forms the two do not agree on.  *)
(***************************************************************************)
EXTENDS Integers, Sequences

CONSTANTS
    Nonces,     \* the values of a new Guid; reused when forgotten everywhere
    Addresses,  \* the address pairs a PC may have or a user may type
    Refused,    \* those isPrivateIpv4, isGlobalIpv6 of the firmware refuse
    None,       \* no nonce, no address
    MaxLines,   \* bound: writes in the buffers towards the board
    MaxReplies  \* bound: replies in the buffers towards the PC

ASSUME NoneAssumption == None \notin Nonces \cup Addresses

ASSUME RefusedAssumption == Refused \subseteq Addresses

ASSUME BoundAssumption ==
    /\ MaxLines \in Nat \ {0}
    /\ MaxReplies \in Nat \ {0}

VARIABLES
    pcAddr,     \* Get-WakeNetworkAddresses
    plugged,    \* the USB cable
    phase,      \* idle, or waiting for WAKE_DEVICE (hello), WAKE_ACK (report)
    nonce,      \* the nonce of the open transaction
    network,    \* the address this round of the helper reports
    last,       \* lastAddresses
    due,        \* 60 s have passed since lastSent
    toEsp,      \* what was written and not yet polled
    toPc,       \* what was printed and not yet read
    dirty,      \* line, overflow: characters without their LF
    serialNonce,
    auto,       \* autoDetectPc
    pc,         \* pcIpv4, pcIpv6
    inferred,   \* pcIpv6Inferred
    heard,      \* history: the last report acknowledged AUTO or MANUAL
    calm        \* history: the environment has stopped disturbing

helperVars == <<phase, nonce, network, last, due>>
boardVars  == <<dirty, serialNonce, auto, pc, inferred, heard>>
envVars    == <<pcAddr, plugged, calm>>
vars == <<envVars, helperVars, toEsp, toPc, boardVars>>

-----------------------------------------------------------------------------
Replies == [kind: {"DEVICE", "ACK", "INVALID"}, n: Nonces]
Reports == [n: Nonces \cup {None}, a: Addresses \cup {None}]

Accepted == Addresses \ Refused

Torn        == [kind |-> "torn", n |-> None, a |-> None]
Hello(n)    == [kind |-> "HELLO", n |-> n, a |-> None]
Net(n, a)   == [kind |-> "NET", n |-> n, a |-> a]
Reply(k, n) == [kind |-> k, n |-> n]

Lines == [kind: {"HELLO"}, n: Nonces, a: {None}]
             \cup [kind: {"NET"}, n: Nonces, a: Addresses] \cup {Torn}

TypeOK ==
    /\ pcAddr \in Addresses
    /\ plugged \in BOOLEAN
    /\ calm \in BOOLEAN
    /\ phase \in {"idle", "hello", "report"}
    /\ nonce \in Nonces \cup {None}
    /\ network \in Addresses \cup {None}
    /\ last \in Addresses \cup {None}
    /\ due \in BOOLEAN
    /\ toEsp \in Seq(Lines)
    /\ toPc \in Seq(Replies)
    /\ dirty \in BOOLEAN
    /\ serialNonce \in Nonces \cup {None}
    /\ auto \in BOOLEAN
    /\ pc \in Accepted
    /\ inferred \in BOOLEAN
    /\ heard \in Reports

NoncesIn(s) == {s[i].n : i \in 1 .. Len(s)}

-----------------------------------------------------------------------------
(* The buffers *)

\* SerialPort.WriteLine: whole, torn or lost; whole once nothing disturbs.
Write(line) ==
    \/ Len(toEsp) < MaxLines /\ toEsp' = Append(toEsp, line)
    \/ ~calm /\ Len(toEsp) < MaxLines /\ toEsp' = Append(toEsp, Torn)
    \/ ~calm /\ toEsp' = toEsp

\* Serial.printf: kept or lost.  With the port open nothing is lost once
\* nothing disturbs.
Answer(reply) ==
    \/ Len(toPc) < MaxReplies /\ toPc' = Append(toPc, reply)
    \/ (~calm \/ phase = "idle") /\ toPc' = toPc

-----------------------------------------------------------------------------
(* The helper *)

\* Mutant: no heartbeat, a report only when the address has changed.
WorthReportingChanged == pcAddr # last

\* The main loop of the helper: a new address, or the minute's heartbeat.
WorthReporting == pcAddr # last \/ due

\* Open-WakeDevice: what an earlier transaction left unread may still be read,
\* or the driver has discarded it.
SayHello(n) ==
    /\ phase = "idle" /\ plugged /\ WorthReporting
    /\ toPc' \in {toPc, <<>>}
    /\ n \notin NoncesIn(toEsp) \cup NoncesIn(toPc') \cup {serialNonce}
    /\ phase' = "hello"
    /\ nonce' = n
    /\ network' = pcAddr
    /\ Write(Hello(n))
    /\ UNCHANGED <<last, due, boardVars, envVars>>

\* Wait-WakeReply matches the prefix up to the nonce, then the whole line.
DeviceFound(reply) == phase = "hello" /\ reply = Reply("DEVICE", nonce)
Acked(reply)       == phase = "report" /\ reply = Reply("ACK", nonce)
Rejected(reply)    == phase = "report" /\ reply = Reply("INVALID", nonce)

Reading == phase # "idle" /\ toPc # <<>> /\ toPc' = Tail(toPc)

SendNet ==
    /\ Reading
    /\ DeviceFound(Head(toPc))
    /\ phase' = "report"
    /\ Write(Net(nonce, network))
    /\ UNCHANGED <<nonce, network, last, due, boardVars, envVars>>

\* The port is closed, whatever the outcome.
Close == phase' = "idle" /\ nonce' = None /\ network' = None

\* Mutant: what the PC has when the acknowledgement arrives counts as reported.
AddressDoneReread == pcAddr

\* lastAddresses: what this round of the loop read before the handshake.
AddressDone == network

ReportDone ==
    /\ Reading
    /\ Acked(Head(toPc))
    /\ Close
    /\ last' = AddressDone
    /\ due' = FALSE
    /\ UNCHANGED <<toEsp, boardVars, envVars>>

ReportRejected ==
    /\ Reading
    /\ Rejected(Head(toPc))
    /\ Close
    /\ UNCHANGED <<last, due, toEsp, boardVars, envVars>>

\* Logs, and replies of earlier transactions.
SkipReply ==
    /\ Reading
    /\ ~DeviceFound(Head(toPc)) /\ ~Acked(Head(toPc)) /\ ~Rejected(Head(toPc))
    /\ UNCHANGED <<helperVars, toEsp, boardVars, envVars>>

\* Five seconds, or a write that failed.  Once nothing disturbs the board
\* answers in time.
TimeOut ==
    /\ phase # "idle"
    /\ calm => toEsp = <<>> /\ toPc = <<>>
    /\ Close
    /\ UNCHANGED <<last, due, toEsp, toPc, boardVars, envVars>>

HeartbeatDue ==
    /\ ~due
    /\ due' = TRUE
    /\ UNCHANGED <<phase, nonce, network, last, toEsp, toPc, boardVars, envVars>>

-----------------------------------------------------------------------------
(* The board: pollSerialHelper, handleSerialLine *)

\* Mutant: what is reported is taken over without the two tests.
AcceptableAny(a) == TRUE

\* The line names an address the firmware accepts, or "-", for both families.
Acceptable(a) == a \in Accepted

Polling == toEsp # <<>> /\ toEsp' = Tail(toEsp)

\* The rest of the line is still to come - it never will.
PollTorn ==
    /\ Polling
    /\ Head(toEsp).kind = "torn"
    /\ dirty' = TRUE
    /\ UNCHANGED <<serialNonce, auto, pc, inferred, heard, toPc, helperVars,
                   envVars>>

\* A line behind a torn one: both are discarded, or answered INVALID when the
\* torn one was WAKE_NET of the last handshake.
PollDirty ==
    /\ Polling
    /\ Head(toEsp).kind # "torn" /\ dirty
    /\ dirty' = FALSE
    /\ \/ toPc' = toPc
       \/ serialNonce # None /\ Answer(Reply("INVALID", serialNonce))
    /\ UNCHANGED <<serialNonce, auto, pc, inferred, heard, helperVars, envVars>>

PollHello ==
    /\ Polling
    /\ Head(toEsp).kind = "HELLO" /\ ~dirty
    /\ serialNonce' = Head(toEsp).n
    /\ Answer(Reply("DEVICE", Head(toEsp).n))
    /\ UNCHANGED <<dirty, auto, pc, inferred, heard, helperVars, envVars>>

PollNet ==
    /\ Polling
    /\ Head(toEsp).kind = "NET" /\ ~dirty
    /\ Head(toEsp).n = serialNonce /\ Acceptable(Head(toEsp).a)
    /\ pc' = IF auto THEN Head(toEsp).a ELSE pc
    /\ inferred' = (inferred /\ ~auto)
    /\ heard' = [n |-> Head(toEsp).n, a |-> Head(toEsp).a]
    /\ Answer(Reply("ACK", Head(toEsp).n))
    /\ UNCHANGED <<dirty, serialNonce, auto, helperVars, envVars>>

PollRefusedNet ==
    /\ Polling
    /\ Head(toEsp).kind = "NET" /\ ~dirty
    /\ Head(toEsp).n = serialNonce /\ ~Acceptable(Head(toEsp).a)
    /\ Answer(Reply("INVALID", Head(toEsp).n))
    /\ UNCHANGED <<boardVars, helperVars, envVars>>

PollForeignNet ==
    /\ Polling
    /\ Head(toEsp).kind = "NET" /\ ~dirty
    /\ Head(toEsp).n # serialNonce
    /\ UNCHANGED <<boardVars, toPc, helperVars, envVars>>

-----------------------------------------------------------------------------
(* Disturbances, until the environment is calm *)

PcMoves(a) ==
    /\ ~calm /\ a # pcAddr
    /\ pcAddr' = a
    /\ UNCHANGED <<plugged, calm, helperVars, toEsp, toPc, boardVars>>

\* The cable; a board with a supply of its own keeps running.
Plug ==
    /\ ~calm
    /\ plugged' = ~plugged
    /\ toEsp' = <<>> /\ toPc' = <<>>
    /\ UNCHANGED <<pcAddr, calm, helperVars, boardVars>>

HelperRestarts ==
    /\ ~calm
    /\ Close
    /\ last' = None
    /\ due' = TRUE
    /\ UNCHANGED <<toEsp, toPc, boardVars, envVars>>

\* The discovery settings survive (PcTarget); the handshake does not.
BoardRestarts ==
    /\ ~calm
    /\ serialNonce' = None
    /\ dirty' = FALSE
    /\ toEsp' \in {toEsp, <<>>}
    /\ UNCHANGED <<auto, pc, inferred, heard, toPc, helperVars, envVars>>

\* handleSaveConfig: the typed address counts in manual mode only.
SaveDiscovery(on, a) ==
    /\ ~calm
    /\ auto' = on
    /\ pc' = IF on THEN pc ELSE a
    /\ inferred' = (inferred /\ on)
    /\ UNCHANGED <<dirty, serialNonce, heard, toEsp, toPc, helperVars, envVars>>

\* syncPcIpv6Prefix
Rebase(a) ==
    /\ ~calm
    /\ pc' = a
    /\ inferred' = TRUE
    /\ UNCHANGED <<dirty, serialNonce, auto, heard, toEsp, toPc, helperVars,
                   envVars>>

Settle ==
    /\ ~calm /\ plugged /\ auto /\ pcAddr \in Accepted
    /\ calm' = TRUE
    /\ UNCHANGED <<pcAddr, plugged, helperVars, toEsp, toPc, boardVars>>

-----------------------------------------------------------------------------
Init ==
    /\ pcAddr \in Addresses
    /\ plugged \in BOOLEAN
    /\ phase = "idle" /\ nonce = None /\ network = None
    /\ last = None /\ due = TRUE
    /\ toEsp = <<>> /\ toPc = <<>>
    /\ dirty = FALSE /\ serialNonce = None
    /\ auto \in BOOLEAN
    /\ pc \in Accepted
    /\ inferred \in BOOLEAN
    /\ heard = [n |-> None, a |-> None]
    /\ calm = FALSE

Helper ==
    \/ \E n \in Nonces : SayHello(n)
    \/ SendNet \/ ReportDone \/ ReportRejected \/ SkipReply
    \/ TimeOut \/ HeartbeatDue

Board == PollTorn \/ PollDirty \/ PollHello
         \/ PollNet \/ PollRefusedNet \/ PollForeignNet

Environment ==
    \/ \E a \in Addresses : PcMoves(a)
    \/ \E a \in Accepted : Rebase(a)
    \/ \E on \in BOOLEAN, a \in Accepted : SaveDiscovery(on, a)
    \/ Plug \/ HelperRestarts \/ BoardRestarts \/ Settle

Next == Helper \/ Board \/ Environment

Spec == Init /\ [][Next]_vars

\* loop() keeps polling; the helper keeps reading, its waits end, and so do the
\* minute and the ten seconds after a failure.
Fairness ==
    /\ WF_vars(Board)
    /\ WF_vars(\E n \in Nonces : SayHello(n))
    /\ WF_vars(SendNet \/ ReportDone \/ ReportRejected \/ SkipReply)
    /\ WF_vars(TimeOut)
    /\ WF_vars(HeartbeatDue)

FairSpec == Spec /\ Fairness

-----------------------------------------------------------------------------
(* Properties *)

\* What the helper takes for reported was: when it accepts an acknowledgement,
\* the last report the board has acted on is the one of this very transaction,
\* and the address the helper will not report again before the heartbeat is the
\* one the board heard - over stale replies, torn lines, late answers, restarts
\* of either side and addresses that change during the handshake.
AckedIsHeard ==
    [][ReportDone => heard = [n |-> nonce, a |-> last']]_vars

\* What a handshake is about, without its lines.
Offered   == IF phase = "idle" THEN {} ELSE {[n |-> nonce, a |-> network]}
ReportOf(line) == [n |-> line.n, a |-> line.a]
Travelling == {ReportOf(toEsp[i]) : i \in {j \in 1 .. Len(toEsp) : toEsp[j].kind = "NET"}}

\* Nonces, replies, torn lines, restarts of either side and the buffers that
\* survive them come to this: the board hears a report once or never, never one
\* that is older than the last one sent, each says what the PC had when its
\* transaction began, and the helper takes for reported only what the board has
\* heard last.
Link == INSTANCE ReportLink WITH
            present <- pcAddr, offer <- Offered, onWay <- Travelling,
            reported <- last, target <- pc

ReportsProvided == Link!Spec

\* README: the helper reports when the address changes and every minute, the
\* board takes over what it reports.  Once nothing disturbs any more, the board
\* comes to work with the address the PC has, and to know it is no inference -
\* whatever was typed, inferred, lost or acknowledged as MANUAL before.
Detects == calm ~> [](pc = pcAddr /\ ~inferred)

\* AckedIsHeard is inductive with these.  Writes of the open transaction are
\* the last in the buffer; once the board knows the nonce, every report still
\* in the buffer is of this transaction; and its acknowledgement, while it
\* waits to be read, is for the last report the board has heard.
Mine(line) == line.kind \in {"HELLO", "NET"} /\ line.n = nonce

Known ==
    \/ phase = "report"
    \/ serialNonce = nonce
    \/ nonce \in NoncesIn(toPc)

Ordered ==
    phase # "idle" =>
        \A i, j \in 1 .. Len(toEsp) :
            i < j /\ Mine(toEsp[i]) /\ toEsp[j].kind = "NET" => Mine(toEsp[j])

OnlyMine ==
    phase # "idle" /\ Known =>
        \A i \in 1 .. Len(toEsp) : toEsp[i].kind = "NET" => Mine(toEsp[i])

NetIsMine ==
    phase # "idle" =>
        \A i \in 1 .. Len(toEsp) :
            toEsp[i].kind = "NET" /\ Mine(toEsp[i])
                => phase = "report" /\ toEsp[i].a = network

AckIsMine ==
    phase # "idle" =>
        \A i \in 1 .. Len(toPc) :
            toPc[i] = Reply("ACK", nonce)
                => heard = [n |-> nonce, a |-> network]

IdleIsNone ==
    /\ (nonce = None) <=> (phase = "idle")
    /\ (network = None) <=> (phase = "idle")

Inductive ==
    TypeOK /\ Ordered /\ OnlyMine /\ NetIsMine /\ AckIsMine /\ IdleIsNone

\* At most one report is in the buffer: the next transaction's WAKE_HELLO must pass
\* the board, and with it all that was written before, ahead of the next WAKE_NET.
OneReport ==
    \A i, j \in 1 .. Len(toEsp) :
        toEsp[i].kind = "NET" /\ toEsp[j].kind = "NET" => i = j
=============================================================================
