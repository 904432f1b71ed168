----------------------------- MODULE HttpServer -----------------------------
(***************************************************************************)
(* A server of lib/esp32_https_server, plain or with TLS: its pool of      *)
(* connections, its listening socket, and the clients in front of it.      *)
(*                                                                         *)
(* A connection is seen from the pool (HttpConnection is its inside): open *)
(* while it exchanges requests, closing while TLS waits for the client's   *)
(* close notify, closed when its slot can be cleared.  Time goes on within *)
(* a pass of loop(), or of stop() over the connections that are left: its  *)
(* handlers may take longer than a timeout.                                *)
(***************************************************************************)
EXTENDS Integers, Sequences, FiniteSets

CONSTANTS
    Clients,
    MaxConnections, \* slots, and the length of the backlog
    Timeout,        \* HTTPS_CONNECTION_TIMEOUT, in ticks
    Shutdown,       \* HTTPS_SHUTDOWN_TIMEOUT, in ticks
    PassLength,     \* bound: ticks from one pass to the next
    Wrap,           \* millis() counts modulo Wrap
    None

ASSUME ServerAssumption ==
    /\ MaxConnections \in Nat \ {0}
    /\ {Timeout, Shutdown, PassLength, Wrap} \subseteq Nat \ {0}
    /\ Timeout < Wrap /\ Shutdown < Wrap
    /\ None \notin Clients

VARIABLES
    secure,         \* HTTPSServer or HTTPServer
    running, listening, context,
    slot,           \* _connections: the client of each, or None
    phase,          \* of each client's connection
    stamp,          \* its _lastTransmissionTS, or _shutdownTS once closing
    talks,          \* the client still has something to send
    silent,         \* time since stamp, not counted beyond Wrap
    backlog,
    pc, at, free,   \* loop(): where it is, i and freeConnectionIdx
    clock,          \* millis()
    spent           \* ticks of the pass so far

server     == <<secure, running, listening, context>>
connection == <<phase, stamp, talks, silent>>
position   == <<pc, at, free>>
time       == <<clock, spent>>
vars       == <<server, slot, connection, backlog, position, time>>

Slots     == 0 .. MaxConnections - 1
InPool    == {slot[i] : i \in Slots} \ {None}
Waiting   == {backlog[i] : i \in DOMAIN backlog}

-----------------------------------------------------------------------------
(* Connections *)

\* Mutant: the last tick of the timeout counts as too late.
TimeoutReached(c) == (stamp[c] + Timeout) % Wrap <= clock

\* isTimeoutExceeded(): the sum of two unsigned numbers, compared.
TimeoutExceeded(c) == (stamp[c] + Timeout) % Wrap < clock

ShutdownExceeded(c) == (stamp[c] + Shutdown) % Wrap < clock

\* What closeConnection can leave behind: with TLS the connection waits for the
\* client's answer, unless it has waited too long.
AfterClose(c) ==
    IF secure /\ phase[c] # "closed" /\ ~(phase[c] = "closing" /\ ShutdownExceeded(c))
       THEN {"closing", "closed"}
       ELSE {"closed"}

\* Mutant: every call takes the time.
StampEveryClose(c) == clock

\* The first call takes the time.
StampAfterClose(c) == IF phase[c] = "open" THEN clock ELSE stamp[c]

Close(c) ==
    /\ \E p \in AfterClose(c) : phase' = [phase EXCEPT ![c] = p]
    /\ stamp' = [stamp EXCEPT ![c] = StampAfterClose(c)]
    /\ silent' = [silent EXCEPT ![c] = IF phase[c] = "open" THEN 0 ELSE @]
    /\ talks' = [talks EXCEPT ![c] = FALSE]

\* The connection object is gone.
Delete(c) ==
    /\ phase' = [phase EXCEPT ![c] = "away"]
    /\ stamp' = [stamp EXCEPT ![c] = 0]
    /\ talks' = [talks EXCEPT ![c] = FALSE]
    /\ silent' = [silent EXCEPT ![c] = 0]

\* Something comes from the client, which may go on like this for ever: the
\* timeout begins anew.
Transmit(c) ==
    /\ phase[c] = "open" /\ talks[c]
    /\ stamp' = [stamp EXCEPT ![c] = clock]
    /\ silent' = [silent EXCEPT ![c] = 0]
    /\ UNCHANGED <<phase, talks>>

\* Nothing comes, and the timeout has not passed.
Idle(c) ==
    /\ phase[c] = "open" /\ ~TimeoutExceeded(c)
    /\ UNCHANGED connection

\* initialize() of the base class, and the transmission it counts as.
Open(c) ==
    /\ phase' = [phase EXCEPT ![c] = "open"]
    /\ stamp' = [stamp EXCEPT ![c] = clock]
    /\ talks' = [talks EXCEPT ![c] = TRUE]
    /\ silent' = [silent EXCEPT ![c] = 0]

-----------------------------------------------------------------------------
(* loop() *)

\* Mutant: the free slot of the pass before is still taken for free.
BeginStale ==
    /\ pc = "rest" /\ running
    /\ pc' = "scan" /\ at' = 0 /\ spent' = 0
    /\ UNCHANGED <<server, slot, connection, backlog, free, clock>>

Begin ==
    /\ pc = "rest" /\ running
    /\ pc' = "scan" /\ at' = 0 /\ free' = None /\ spent' = 0
    /\ UNCHANGED <<server, slot, connection, backlog, clock>>

\* The next slot, and after the last one the listening socket.
Advance ==
    IF at = MaxConnections - 1 THEN pc' = "accept" /\ at' = 0
                               ELSE pc' = pc /\ at' = at + 1

\* Mutant: the index is taken after it has moved on.
ScanEmptyNext ==
    /\ pc = "scan" /\ slot[at] = None
    /\ free' = at + 1
    /\ Advance
    /\ UNCHANGED <<server, slot, connection, backlog, time>>

ScanEmpty ==
    /\ pc = "scan" /\ slot[at] = None
    /\ free' = at
    /\ Advance
    /\ UNCHANGED <<server, slot, connection, backlog, time>>

ScanClosed ==
    /\ pc = "scan" /\ slot[at] # None /\ phase[slot[at]] = "closed"
    /\ Delete(slot[at])
    /\ slot' = [slot EXCEPT ![at] = None]
    /\ free' = at
    /\ Advance
    /\ UNCHANGED <<server, backlog, time>>

\* The connection's own loop(): data, nothing, or an end: the client has left,
\* the last request is answered, something failed or the timeout has passed.
ScanLive ==
    /\ pc = "scan" /\ slot[at] # None /\ phase[slot[at]] # "closed"
    /\ LET c == slot[at] IN Transmit(c) \/ Idle(c) \/ Close(c)
    /\ Advance
    /\ UNCHANGED <<server, slot, backlog, free, time>>

AcceptNothing ==
    /\ pc = "accept" /\ (free = None \/ backlog = <<>>)
    /\ pc' = "rest"
    /\ UNCHANGED <<server, slot, connection, backlog, at, free, time>>

\* createConnection: accept(), and with TLS a handshake the server waits for.
Accept ==
    /\ pc = "accept" /\ free # None /\ backlog # <<>>
    /\ slot' = [slot EXCEPT ![free] = Head(backlog)]
    /\ backlog' = Tail(backlog)
    /\ Open(Head(backlog))
    /\ pc' = IF secure THEN "handshake" ELSE "rest"
    /\ UNCHANGED <<server, at, free, time>>

\* The client has gone between select() and accept(): the slot stays free.
AcceptFails ==
    /\ pc = "accept" /\ free # None /\ backlog # <<>>
    /\ backlog' = Tail(backlog)
    /\ phase' = [phase EXCEPT ![Head(backlog)] = "away"]
    /\ pc' = "rest"
    /\ UNCHANGED <<server, slot, stamp, talks, silent, at, free, time>>

HandshakeSucceeds ==
    /\ pc = "handshake"
    /\ pc' = "rest"
    /\ UNCHANGED <<server, slot, connection, backlog, at, free, time>>

\* SSL_accept returns 0, and the connection is deleted; or -1, which passes for
\* success, and the connection stays with nobody to talk to.
HandshakeFails ==
    /\ pc = "handshake"
    /\ pc' = "rest"
    /\ LET c == slot[free]
       IN  \/ /\ slot' = [slot EXCEPT ![free] = None]
              /\ Delete(c)
           \/ /\ talks' = [talks EXCEPT ![c] = FALSE]
              /\ UNCHANGED <<slot, phase, stamp, silent>>
    /\ UNCHANGED <<server, backlog, at, free, time>>

-----------------------------------------------------------------------------
(* start() and stop() *)

\* With TLS the context and the certificate come before the socket.
Start ==
    /\ pc = "rest" /\ ~running
    /\ pc' = IF secure THEN "context" ELSE "socket"
    /\ UNCHANGED <<server, slot, connection, backlog, at, free, time>>

SetupSSLCTX ==
    /\ pc = "context"
    /\ \/ context' = TRUE /\ pc' = "certificate"
       \/ context' = FALSE /\ pc' = "rest"
    /\ UNCHANGED <<secure, running, listening, slot, connection, backlog, at,
                   free, time>>

SetupCert ==
    /\ pc = "certificate"
    /\ \/ pc' = "socket" /\ UNCHANGED context
       \/ context' = FALSE /\ pc' = "rest"
    /\ UNCHANGED <<secure, running, listening, slot, connection, backlog, at,
                   free, time>>

SetupSocket ==
    /\ pc = "socket"
    /\ running' = TRUE /\ listening' = TRUE
    /\ pc' = "rest"
    /\ clock' \in 0 .. Wrap - 1 /\ spent' = 0
    /\ UNCHANGED <<secure, context, slot, connection, backlog, at, free>>

\* Mutant: the TLS context of the failed start is kept.
SocketFailsHalfway ==
    /\ pc = "socket"
    /\ pc' = "rest"
    /\ UNCHANGED <<server, slot, connection, backlog, at, free, time>>

\* socket(), bind() or listen() fails, with IPv6 and with IPv4 after it.
SocketFails ==
    /\ pc = "socket"
    /\ context' = FALSE
    /\ pc' = "rest"
    /\ UNCHANGED <<secure, running, listening, slot, connection, backlog, at,
                   free, time>>

\* Between two passes, or in a handler of this server that then restarts the
\* board: its scan does not go on.
Stoppable ==
    /\ running
    /\ pc = "rest" \/ (pc = "scan" /\ slot[at] # None /\ phase[slot[at]] = "open")

\* Mutant: the server is marked as stopped only by a caller that asks again.
StopUnmarked ==
    /\ Stoppable
    /\ pc' = "stopping"
    /\ UNCHANGED <<server, slot, connection, backlog, at, free, time>>

Stop ==
    /\ Stoppable
    /\ running' = FALSE
    /\ pc' = "stopping"
    /\ UNCHANGED <<secure, listening, context, slot, connection, backlog, at,
                   free, time>>

\* One pass over all connections, and the delay after it.  When none is left
\* the socket is closed on those who wait, and the TLS context freed.
StopPass ==
    /\ pc = "stopping"
    /\ \E left \in SUBSET {c \in InPool : "closing" \in AfterClose(c)} :
           /\ slot' = [i \in Slots |-> IF slot[i] \in left THEN slot[i] ELSE None]
           /\ phase' = [c \in Clients |->
                           IF c \in left THEN "closing"
                           ELSE IF phase[c] = "waiting" /\ left # {} THEN "waiting"
                           ELSE "away"]
           /\ stamp' = [c \in Clients |->
                           IF c \in left THEN StampAfterClose(c) ELSE 0]
           /\ talks' = [c \in Clients |-> FALSE]
           /\ silent' = [c \in Clients |->
                           IF c \in left /\ phase[c] = "closing" THEN silent[c]
                           ELSE 0]
           /\ IF left = {}
                 THEN /\ listening' = FALSE
                      /\ context' = FALSE
                      /\ backlog' = <<>>
                      /\ pc' = "rest"
                 ELSE UNCHANGED <<listening, context, backlog, pc>>
    /\ spent' = 0
    /\ UNCHANGED <<secure, running, at, free, clock>>

-----------------------------------------------------------------------------
(* The clients and the clock *)

Arrive(c) ==
    /\ listening /\ phase[c] = "away" /\ Len(backlog) < MaxConnections
    /\ backlog' = Append(backlog, c)
    /\ phase' = [phase EXCEPT ![c] = "waiting"]
    /\ UNCHANGED <<server, slot, stamp, talks, silent, position, time>>

\* The client has sent its last: it has crashed, or is just kept waiting.
FallsSilent(c) ==
    /\ talks[c]
    /\ talks' = [talks EXCEPT ![c] = FALSE]
    /\ UNCHANGED <<server, slot, phase, stamp, silent, backlog, position, time>>

\* Time passes wherever loop() or stop() is: in a handler, in a handshake or in
\* the rest of the program, for PassLength ticks a pass at most.
Elapse ==
    /\ listening /\ spent < PassLength
    /\ clock' = (clock + 1) % Wrap
    /\ spent' = spent + 1
    /\ silent' = [c \in Clients |->
                     IF phase[c] \in {"open", "closing"} /\ silent[c] < Wrap
                        THEN silent[c] + 1 ELSE silent[c]]
    /\ UNCHANGED <<server, slot, phase, stamp, talks, backlog, position>>

Init ==
    /\ secure \in BOOLEAN
    /\ running = FALSE /\ listening = FALSE /\ context = FALSE
    /\ slot = [i \in Slots |-> None]
    /\ phase = [c \in Clients |-> "away"]
    /\ stamp = [c \in Clients |-> 0]
    /\ talks = [c \in Clients |-> FALSE]
    /\ silent = [c \in Clients |-> 0]
    /\ backlog = <<>>
    /\ pc = "rest" /\ at = 0 /\ free = None
    /\ clock = 0 /\ spent = 0

Loop ==
    \/ Begin \/ ScanEmpty \/ ScanClosed \/ ScanLive
    \/ AcceptNothing \/ Accept \/ AcceptFails
    \/ HandshakeSucceeds \/ HandshakeFails

Next ==
    \/ Loop \/ Elapse
    \/ Start \/ SetupSSLCTX \/ SetupCert \/ SetupSocket \/ SocketFails
    \/ Stop \/ StopPass
    \/ \E c \in Clients : Arrive(c) \/ FallsSilent(c)

Spec == Init /\ [][Next]_vars

\* loop() is called again and again, and stop() goes on until it is done; a
\* client ends its handshake or leaves it.  Time does not stand still.
FairSpec == Spec /\ WF_vars(Loop) /\ WF_vars(StopPass) /\ WF_vars(Elapse)

-----------------------------------------------------------------------------
(* Properties *)

TypeOK ==
    /\ {secure, running, listening, context} \subseteq BOOLEAN
    /\ slot \in [Slots -> Clients \cup {None}]
    /\ phase \in [Clients -> {"away", "waiting", "open", "closing", "closed"}]
    /\ stamp \in [Clients -> 0 .. Wrap - 1]
    /\ talks \in [Clients -> BOOLEAN]
    /\ silent \in [Clients -> 0 .. Wrap]
    /\ backlog \in Seq(Clients) /\ Len(backlog) <= MaxConnections
    /\ pc \in {"rest", "scan", "accept", "handshake", "stopping", "context",
               "certificate", "socket"}
    /\ at \in Slots
    /\ free \in Slots \cup {None}
    /\ clock \in 0 .. Wrap - 1 /\ spent \in 0 .. PassLength

\* No connection is lost and none is in two slots: a new one never takes the
\* slot of a live one, and a client is in the pool exactly as long as its
\* connection exists.
PoolConsistent ==
    /\ \A i, j \in Slots : slot[i] = slot[j] /\ slot[i] # None => i = j
    /\ \A c \in Clients : phase[c] \in {"open", "closing", "closed"} <=> c \in InPool
    /\ pc = "accept" /\ free # None => slot[free] = None

\* A server that is stopped, or that failed to start at any of its three steps,
\* holds nothing: no connection, no socket, no TLS context, nobody who waits.
ReleasedWhenStopped ==
    pc = "rest" /\ ~running =>
        /\ InPool = {} /\ ~listening /\ ~context /\ backlog = <<>>

Live == {"open", "closing"}

\* What the connection is given, and whether the code finds it has had it.
Patience(c) == IF phase[c] = "closing" THEN Shutdown ELSE Timeout
Exceeded(c) == IF phase[c] = "closing" THEN ShutdownExceeded(c) ELSE TimeoutExceeded(c)

\* The deadline, or the look of loop() that first comes after it, may fall on
\* the wrap of millis() or beyond it.
NearWrap(c) ==
    phase[c] \in Live /\ stamp[c] + Patience(c) + 2 * PassLength >= Wrap

\* A connection is found silent, or without its close notify, never before it
\* has used up its time, and it is gone before the end of the second pass after
\* that, however long handlers keep the passes - unless millis() wraps meanwhile.
TimeoutKept ==
    \A c \in Clients : phase[c] \in Live /\ ~NearWrap(c) =>
        /\ Exceeded(c) <=> silent[c] > Patience(c)
        /\ silent[c] <= Patience(c) + 2 * PassLength

\* A deadline that the wrap has hidden is never seen to have passed.
Forgotten == \E d \in Clients : <>[]NearWrap(d)

\* Those who never fall silent keep their slots.
Polling == \A i \in Slots : slot[i] # None /\ talks[slot[i]]


\* stop() returns, though clients never answer the close notify.
StopReturns == []<>(pc # "stopping") \/ Forgotten

\* The server is a pool of maxConnections clients: admitted from those who
\* wait, dismissed when their connection is over or the server stops.
Status == IF running THEN "open" ELSE IF listening THEN "closing" ELSE "closed"

Pool == INSTANCE HttpPool WITH
            status <- Status, waiting <- Waiting, admitted <- InPool

PoolProvided == Pool!Spec

-----------------------------------------------------------------------------
(* What the proofs need beside the properties *)

\* The backlog holds every waiting client, once.
BacklogWaits ==
    /\ \A i \in DOMAIN backlog : phase[backlog[i]] = "waiting"
    /\ \A i, j \in DOMAIN backlog : backlog[i] = backlog[j] => i = j

\* A free slot found by the scan is still free, the slot of a handshake taken.
FreeIsFree ==
    /\ pc \in {"scan", "accept"} /\ free # None => slot[free] = None
    /\ pc = "handshake" => free # None /\ slot[free] # None

\* The server listens while it runs or stops; it only scans while it runs.
Listens ==
    /\ listening <=> (running \/ pc = "stopping")
    /\ pc \in {"scan", "accept", "handshake"} => running
    /\ pc = "stopping" => ~running

\* Nobody is connected or waits while the server starts.
StartsEmpty ==
    /\ pc \in {"context", "certificate", "socket"} =>
           ~running /\ InPool = {} /\ backlog = <<>>
    /\ pc = "context" => ~context

\* The connection in this slot was looked at in this pass.
Looked(i) == pc \notin {"scan", "stopping"} \/ (pc = "scan" /\ i < at)

\* The clock has moved by what was counted, and the last look at a connection
\* has closed it if its time was up.
Counted ==
    \A i \in Slots :
        slot[i] # None /\ phase[slot[i]] \in Live /\ ~NearWrap(slot[i])
        => /\ clock = stamp[slot[i]] + silent[slot[i]]
           /\ silent[slot[i]] <= Patience(slot[i]) + PassLength + spent
           /\ Looked(i) => silent[slot[i]] <= Patience(slot[i]) + spent

Inductive ==
    /\ TypeOK /\ PoolConsistent /\ ReleasedWhenStopped
    /\ BacklogWaits /\ FreeIsFree /\ Listens /\ StartsEmpty /\ Counted
=============================================================================
